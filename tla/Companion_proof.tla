--------------------------- MODULE Companion_proof ---------------------------
(***************************************************************************)
(* For any number of sessions, faults and retries, with or without         *)
(* conditional writes, and whatever mode the process restarts in: audio is *)
(* kept, sidecars account for the companion, the document is never behind  *)
(* the .m4a, TS files are removed only when their pictures are stored or   *)
(* given up, and stored pictures stay; and where preconditions are         *)
(* enforced another writer's .mp4 stays.                                   *)
(***************************************************************************)
EXTENDS Companion, FiniteSetTheorems, NaturalsInduction, WellFoundedInduction, TLAPS

USE DEF history

-----------------------------------------------------------------------------
\* Types, of the attempt and the objects too.
Writers == {"none", "us", "foreign"}
AudioObjects == [by : Writers, parts : Seq(Sessions)]
VideoObjects == [by : Writers, parts : Seq(Sessions), shown : SUBSET Sessions]
Docs == [parts : Seq(Sessions), stored : BOOLEAN, refused : BOOLEAN]
Attempts == [own : Sessions \cup {Nobody}, key : Keys, dest : Keys, group : SUBSET Sessions,
             add : SUBSET Sessions, present : SUBSET Sessions, remote : Seq(Sessions),
             plan : {"none", "fresh", "extend", "reuse"}, seen : VideoObjects, skip : Nat,
             built : VideoObjects, got : {"none", "stored", "gaveup"}, todo : SUBSET Sessions,
             cur : Sessions \cup {Nobody}, lost : BOOLEAN]

Typed == /\ TypeOK
         /\ audio \in [Keys -> AudioObjects]
         /\ video \in [Gens -> VideoObjects]
         /\ doc \in [Gens -> Docs]
         /\ att \in Attempts

M4A(g) == [gen |-> g, raw |-> FALSE]
Held(k, x) == Ours(audio[k]) /\ x \in Parts(audio[k])
Stored(x) == \E k \in Keys : Held(k, x)
Done(r) == r.state \notin {"none", "recording"}
Kept(x) == "aac" \in dir[x] \/ ("m4a" \in dir[x] /\ disk[x].out) \/ Stored(x)

\* The audio of a session somebody takes for finished is kept, and memory knows
\* of every .m4a that a sidecar names.
FinishedKept == \A x \in Sessions : /\ Done(mem[x]) \/ Done(disk[x]) => Kept(x)
                                    /\ disk[x].out => mem[x].out

Uploading == {"converge", "headvideo", "space", "build", "fallback", "putvideo", "doc", "put"}
WithCompanion == {"headvideo", "space", "build", "putvideo"}
Keeping == {"keep", "keepvideo", "keepname", "keepsave"}

\* An object of nobody or of somebody else tells nothing, and a session whose
\* key is raw is in the object there.
KeysRight == /\ \A k \in Keys : ~Ours(audio[k]) => audio[k].parts = <<>>
             /\ \A x \in Sessions : /\ mem[x].key.raw => Held(mem[x].key, x)
                                    /\ disk[x].key.raw => Held(disk[x].key, x)

\* What the attempt works on has been finished, and what it takes for stored is
\* stored under its key.
GroupFinished == /\ \A x \in att.group : Done(mem[x])
                 /\ att.own \in Sessions => Done(mem[att.own])
                 /\ att.cur \in Sessions => Done(mem[att.cur])
                 /\ att.add \cup att.present \cup att.todo \subseteq att.group
PresentStored == \A x \in att.present : Held(att.key, x) /\ \E i \in DOMAIN att.remote : att.remote[i] = x

\* The object at the attempt's key is as the HEAD saw it, and a PUT without
\* precondition meets nothing of this recorder.
KeyRemembered == pc \in Uploading =>
  /\ Ours(audio[att.key]) => audio[att.key].parts = att.remote
  /\ ~CondWrites /\ pc # "converge" => ~Ours(audio[att.dest])
  /\ pc # "converge" => att.key.raw = FALSE
  /\ pc \in WithCompanion \cup {"converge", "fallback"} => att.dest = att.key
  /\ att.dest # att.key => att.remote = <<>> /\ att.plan = "none" /\ att.dest = [att.key EXCEPT !.raw = TRUE]
  /\ pc \in {"converge", "fallback"} => att.plan = "none"
  /\ pc = "fallback" => att.remote = <<>>

\* Captures are removed on the word of an object or of the sidecar.
RemovalRight ==
  /\ pc \in {"record", "aac", "ts"} => \A x \in att.todo : Stored(x)
  /\ pc = "aac" => /\ att.cur \in Sessions
                   /\ Stored(att.cur) \/ ("m4a" \in dir[att.cur] /\ disk[att.cur].out)
  /\ pc \in Keeping => att.own \in Sessions /\ att.cur = att.own /\ att.todo = {}
  /\ pc = "keepsave" => "m4a" \in dir[att.own]

AudioInv == FinishedKept /\ KeysRight /\ GroupFinished /\ PresentStored /\ KeyRemembered /\ RemovalRight

\* Companions: a session marked videoUploaded is in the .mp4 and the .m4a of
\* one key.
InVideo(x) == \E g \in Gens : Ours(video[g]) /\ x \in Parts(video[g]) /\ Held(M4A(g), x)
MarksRight == \A x \in Sessions :
  /\ mem[x].vup \/ disk[x].vup => InVideo(x)
  /\ captured[x] # "off" /\ mem[x].state = "uploaded" => mem[x].vup \/ mem[x].verr
  /\ captured[x] # "off" /\ disk[x].state = "uploaded" => disk[x].vup \/ disk[x].verr

\* What the attempt knows of the .mp4.
PlanRight ==
  /\ pc \in Uploading /\ att.plan = "extend" /\ att.got # "stored" =>
       /\ Ours(video[att.key.gen])
       /\ VideoHeld \subseteq Parts(video[att.key.gen])
  /\ pc \in Uploading /\ (att.plan = "reuse" \/ (pc \in {"doc", "put"} /\ att.got = "stored")) =>
       /\ Ours(video[att.key.gen]) /\ video[att.key.gen].parts = Target
       /\ att.dest = att.key
  /\ pc = "putvideo" => att.built.by = "us" /\ att.built.parts = Target
  /\ pc \in {"space", "build", "putvideo"} /\ WithVideo(att.group) => att.plan # "none"
  /\ pc \in {"doc", "put"} /\ WithVideo(att.group) => att.got # "none"
  /\ pc \in WithCompanion \cup {"converge", "fallback"} => att.got # "stored"
  /\ att.seen.by # "foreign"

\* The document of the attempt is ahead of its audio.
DocAhead == pc = "put" => doc[att.dest.gen].refused \/ doc[att.dest.gen].parts = Target

IInv == Typed /\ AudioInv /\ MarksRight /\ PlanRight /\ DocAhead /\ DocNeverBehind

-----------------------------------------------------------------------------
\* Sequences.

\* InOrder lists the members of a set of sessions, each once.
LEMMA InOrderLists ==
  ASSUME NEW S \in SUBSET Sessions
  PROVE  /\ InOrder(S) \in Seq(Sessions) /\ Len(InOrder(S)) = Cardinality(S) /\ Cardinality(S) \in Nat
         /\ \A i \in 1 .. Len(InOrder(S)) :
              InOrder(S)[i] \in S /\ Cardinality({y \in S : y <= InOrder(S)[i]}) = i
         /\ \A x \in S : \E i \in 1 .. Len(InOrder(S)) : InOrder(S)[i] = x
<1> DEFINE n == Cardinality(S)
           upto(x) == {y \in S : y <= x}
           rank == [x \in S |-> Cardinality(upto(x))]
<1>1. IsFiniteSet(S) /\ n \in Nat /\ S \subseteq Nat
  BY SessionsAssumption, FS_Subset, FS_CardinalityType
<1>2. \A x \in S : /\ IsFiniteSet(upto(x)) /\ Cardinality(upto(x)) \in 1 .. n
  <2> SUFFICES ASSUME NEW x \in S PROVE IsFiniteSet(upto(x)) /\ Cardinality(upto(x)) \in 1 .. n
    OBVIOUS
  <2>1. upto(x) \in SUBSET S /\ x \in upto(x)
    BY <1>1
  <2>2. IsFiniteSet(upto(x)) /\ Cardinality(upto(x)) <= n
    BY <1>1, <2>1, FS_Subset
  <2>3. Cardinality(upto(x)) \in Nat /\ Cardinality(upto(x)) # 0
    BY <2>1, <2>2, FS_CardinalityType, FS_EmptySet
  <2> QED
    BY <1>1, <2>2, <2>3
<1>3. \A x, z \in S : x < z => Cardinality(upto(x)) # Cardinality(upto(z))
  <2> SUFFICES ASSUME NEW x \in S, NEW z \in S, x < z, Cardinality(upto(x)) = Cardinality(upto(z))
               PROVE  FALSE
    OBVIOUS
  <2>1. x \in Nat /\ z \in Nat /\ \A y \in S : y \in Nat
    BY <1>1
  <2>1a. z \in upto(z) /\ z \notin upto(x)
    BY <2>1
  <2>1b. upto(x) \in SUBSET upto(z)
    <3> SUFFICES ASSUME NEW y \in upto(x) PROVE y \in upto(z)
      OBVIOUS
    <3>1. y \in S /\ y \in Nat /\ y <= x
      BY <2>1
    <3>2. y <= z
      BY <2>1, <3>1
    <3> QED
      BY <3>1, <3>2
  <2>2. upto(z) = upto(x)
    BY <1>2, <2>1b, FS_Subset
  <2> QED
    BY <2>1a, <2>2
<1>4. rank \in Injection(S, 1 .. n)
  <2>1. rank \in [S -> 1 .. n]
    BY <1>2
  <2>2. \A x, z \in S : rank[x] = rank[z] => x = z
    BY <1>1, <1>3
  <2> QED
    BY <2>1, <2>2 DEF Injection, IsInjective
<1>5. rank \in Surjection(S, 1 .. n)
  <2>1. IsFiniteSet(1 .. n) /\ Cardinality(1 .. n) = n
    BY <1>1, FS_Interval
  <2> QED
    BY <1>4, <2>1, FS_Injection
<1>6. \A i \in 1 .. n : \E x \in S : Cardinality(upto(x)) = i
  BY <1>5 DEF Surjection
<1>7. \A i \in 1 .. n : InOrder(S)[i] \in S /\ Cardinality(upto(InOrder(S)[i])) = i
  <2> SUFFICES ASSUME NEW i \in 1 .. n
               PROVE  InOrder(S)[i] \in S /\ Cardinality(upto(InOrder(S)[i])) = i
    OBVIOUS
  <2>1. InOrder(S)[i] = CHOOSE x \in S : Cardinality(upto(x)) = i
    BY DEF InOrder
  <2> HIDE DEF upto
  <2> QED
    BY <1>6, <2>1
<1>8. \A x \in S : InOrder(S)[Cardinality(upto(x))] = x
  <2> SUFFICES ASSUME NEW x \in S PROVE InOrder(S)[Cardinality(upto(x))] = x
    OBVIOUS
  <2> DEFINE z == InOrder(S)[Cardinality(upto(x))]
  <2>1. z \in S /\ Cardinality(upto(z)) = Cardinality(upto(x))
    BY <1>2, <1>7
  <2> HIDE DEF z, upto
  <2>2. ~(z < x) /\ ~(x < z)
    BY <1>3, <2>1
  <2>3. z = x
    BY <1>1, <2>1, <2>2
  <2> QED
    BY <2>3 DEF z
<1>9. InOrder(S) \in [1 .. n -> S]
  <2>1. InOrder(S) = [i \in 1 .. n |-> InOrder(S)[i]]
    BY DEF InOrder
  <2> QED
    BY <1>7, <2>1
<1>10. InOrder(S) \in Seq(S) /\ Len(InOrder(S)) = n
  BY <1>1, <1>9
<1>13. \A i \in 1 .. n : Cardinality({y \in S : y <= InOrder(S)[i]}) = i
  BY <1>7
<1> HIDE DEF upto
<1>11. \A x \in S : \E i \in 1 .. n : InOrder(S)[i] = x
  BY <1>2, <1>8
<1>12. InOrder(S) \in Seq(Sessions)
  BY <1>10
<1> QED
  BY <1>1, <1>7, <1>10, <1>11, <1>12, <1>13

\* What Target is made of.
LEMMA TargetLists ==
  ASSUME att \in Attempts
  PROVE  /\ Target \in Seq(Sessions) /\ Base \in Nat /\ Base <= Len(Target)
         /\ Len(Target) = Base + Cardinality(att.add) /\ Cardinality(att.add) \in Nat
         /\ \A i \in 1 .. Base : Target[i] = att.remote[i]
         /\ \A i \in 1 .. Cardinality(att.add) : Target[Base + i] = InOrder(att.add)[i]
<1>1. att.remote \in Seq(Sessions) /\ att.add \in SUBSET Sessions
  BY DEF Attempts
<1>2. InOrder(att.add) \in Seq(Sessions) /\ Len(InOrder(att.add)) = Cardinality(att.add) /\ Cardinality(att.add) \in Nat
  BY <1>1, InOrderLists
<1> DEFINE a == att.remote
           b == InOrder(att.add)
<1>3. a \in Seq(Sessions) /\ b \in Seq(Sessions) /\ Len(b) = Cardinality(att.add)
  BY <1>1, <1>2
<1>4. Target = a \o b /\ Base = Len(a)
  BY DEF Target, Base
<1> HIDE DEF a, b
<1>5. /\ a \o b \in Seq(Sessions) /\ Len(a) \in Nat /\ Len(b) \in Nat /\ Len(a \o b) = Len(a) + Len(b)
      /\ \A i \in 1 .. Len(a) : (a \o b)[i] = a[i]
      /\ \A i \in 1 .. Len(b) : (a \o b)[Len(a) + i] = b[i]
  BY <1>3
<1> DEFINE n == Cardinality(att.add)
<1>6. n \in Nat /\ Len(b) = n
  BY <1>2, <1>3
<1> HIDE DEF n
<1>7. /\ Target \in Seq(Sessions) /\ Base \in Nat /\ Base <= Len(Target) /\ Len(Target) = Base + n
      /\ \A i \in 1 .. Base : Target[i] = a[i]
      /\ \A i \in 1 .. n : Target[Base + i] = b[i]
  BY <1>4, <1>5, <1>6
<1> QED
  BY <1>6, <1>7 DEF a, b, n

LEMMA TargetHolds ==
  ASSUME att \in Attempts
  PROVE  /\ \A x \in att.add : \E i \in 1 .. Len(Target) : Target[i] = x
         /\ \A i \in DOMAIN att.remote : i \in 1 .. Len(Target) /\ Target[i] = att.remote[i]
<1>1. att.add \in SUBSET Sessions /\ att.remote \in Seq(Sessions)
  BY DEF Attempts
<1>2. \A x \in att.add : \E i \in 1 .. Cardinality(att.add) : InOrder(att.add)[i] = x
  BY <1>1, InOrderLists
<1>3. \A x \in att.add : \E i \in 1 .. Len(Target) : Target[i] = x
  <2> SUFFICES ASSUME NEW x \in att.add PROVE \E i \in 1 .. Len(Target) : Target[i] = x
    OBVIOUS
  <2>1. PICK i \in 1 .. Cardinality(att.add) : InOrder(att.add)[i] = x
    BY <1>2
  <2>2. Target[Base + i] = x /\ Base + i \in 1 .. Len(Target)
    BY <2>1, TargetLists
  <2> QED
    BY <2>2
<1>4. DOMAIN att.remote = 1 .. Base
  BY <1>1 DEF Base
<1>5. \A i \in 1 .. Base : i \in 1 .. Len(Target) /\ Target[i] = att.remote[i]
  BY TargetLists
<1> QED
  BY <1>3, <1>4, <1>5
-----------------------------------------------------------------------------
\* Types.

\* Of several sessions one is the newest.
LEMMA NewestExists ==
  ASSUME NEW S \in SUBSET Sessions, S # {}
  PROVE  \E o \in S : \A x \in S : x <= o
<1> DEFINE n == Cardinality(S)
           o == InOrder(S)[n]
           upto == {y \in S : y <= o}
<1>1. IsFiniteSet(S) /\ n \in Nat /\ n # 0
  BY SessionsAssumption, FS_Subset, FS_CardinalityType, FS_EmptySet
<1>2. n \in 1 .. Len(InOrder(S))
  BY <1>1, InOrderLists
<1>3. o \in S /\ Cardinality(upto) = n
  BY <1>2, InOrderLists
<1>4. upto = S
  BY <1>1, <1>3, FS_Subset
<1> HIDE DEF o
<1> QED
  BY <1>3, <1>4

LEMMA KeyForTyped ==
  ASSUME NEW S \in SUBSET Sessions, NEW f \in [Sessions -> SessionRecords]
  PROVE  KeyFor(S, f) \in Keys /\ KeyFor(S, f).raw = FALSE
<1>1. CASE Lenders(S, f) = {}
  BY <1>1, LimitsAssumption DEF KeyFor, BaseKey, Keys, Gens
<1>2. CASE Lenders(S, f) # {}
  <2> DEFINE L == Lenders(S, f)
  <2>1. L \in SUBSET Sessions /\ \A o \in L : f[o].key \in Keys /\ ~f[o].key.raw
    BY DEF Lenders, SessionRecords
  <2>2. \E o \in L : \A x \in L : x <= o
    BY <1>2, <2>1, NewestExists
  <2> DEFINE c == CHOOSE o \in L : \A x \in L : x <= o
  <2>3. c \in L
    BY <2>2
  <2>4. KeyFor(S, f) = f[c].key
    BY <1>2 DEF KeyFor
  <2> HIDE DEF c, L
  <2>5. f[c].key \in Keys /\ f[c].key.raw = FALSE
    BY <2>1, <2>3 DEF Keys
  <2> QED
    BY <2>4, <2>5
<1> QED
  BY <1>1, <1>2

LEMMA IdleTyped == Idle \in Attempts
BY LimitsAssumption DEF Idle, Attempts, BaseKey, Keys, Gens, NoVideo, VideoObjects, Writers

LEMMA ReturnTyped ==
  ASSUME Return
  PROVE  pc' \in PCs /\ att' \in Attempts
BY IdleTyped DEF Return, PCs

\* Every change of the attempt's locals keeps their types.
LEMMA UpdatesTyped ==
  ASSUME att \in Attempts
  PROVE  /\ \A g \in {"none", "stored", "gaveup"} : [att EXCEPT !.got = g] \in Attempts
         /\ \A g \in {"none", "stored", "gaveup"}, k \in Keys : [att EXCEPT !.dest = k, !.got = g] \in Attempts
         /\ \A p \in {"none", "fresh", "extend", "reuse"}, v \in VideoObjects :
              [att EXCEPT !.plan = p, !.seen = v] \in Attempts
         /\ \A p \in {"none", "fresh", "extend", "reuse"}, v \in VideoObjects, n \in Nat :
              [att EXCEPT !.plan = p, !.seen = v, !.skip = n] \in Attempts
         /\ [att EXCEPT !.plan = "none"] \in Attempts
         /\ \A v \in VideoObjects : [att EXCEPT !.built = v] \in Attempts
         /\ \A T \in SUBSET Sessions : [att EXCEPT !.todo = T] \in Attempts
         /\ \A x \in Sessions : /\ [att EXCEPT !.todo = @ \ {x}, !.cur = x] \in Attempts
                                /\ [att EXCEPT !.todo = @ \ {x}, !.lost = TRUE] \in Attempts
         /\ [att EXCEPT !.cur = Nobody] \in Attempts
<1>1. /\ \A g \in {"none", "stored", "gaveup"} : [att EXCEPT !.got = g] \in Attempts
      /\ \A g \in {"none", "stored", "gaveup"}, k \in Keys : [att EXCEPT !.dest = k, !.got = g] \in Attempts
  BY DEF Attempts
<1>2. \A p \in {"none", "fresh", "extend", "reuse"}, v \in VideoObjects :
        [att EXCEPT !.plan = p, !.seen = v] \in Attempts
  BY DEF Attempts
<1>3. \A p \in {"none", "fresh", "extend", "reuse"}, v \in VideoObjects, n \in Nat :
        [att EXCEPT !.plan = p, !.seen = v, !.skip = n] \in Attempts
  BY DEF Attempts
<1>4. [att EXCEPT !.plan = "none"] \in Attempts /\ \A v \in VideoObjects : [att EXCEPT !.built = v] \in Attempts
  BY DEF Attempts
<1>5. (\A T \in SUBSET Sessions : [att EXCEPT !.todo = T] \in Attempts) /\ [att EXCEPT !.cur = Nobody] \in Attempts
  BY DEF Attempts
<1>6. \A x \in Sessions : [att EXCEPT !.todo = @ \ {x}, !.cur = x] \in Attempts
  BY DEF Attempts
<1>7. \A x \in Sessions : [att EXCEPT !.todo = @ \ {x}, !.lost = TRUE] \in Attempts
  BY DEF Attempts
<1> QED
  BY <1>1, <1>2, <1>3, <1>4, <1>5, <1>6, <1>7

LEMMA ForgetTyped ==
  ASSUME Typed, NEW g \in Gens, ForgetKey(g)
  PROVE  failures' \in [Gens -> 0 .. MaxBuildFailures] /\ short' \in [Gens -> 0 .. MaxShort]
BY LimitsAssumption DEF Typed, TypeOK, ForgetKey

LEMMA SavedTyped ==
  ASSUME Typed, mem' \in [Sessions -> SessionRecords], NEW S
  PROVE  Saved(S) \in [Sessions -> SessionRecords]
BY DEF Typed, TypeOK, Saved

LEMMA FailingTyped ==
  ASSUME Typed, NEW F
  PROVE  Failing(F) \in [Sessions -> SessionRecords]
BY DEF Typed, TypeOK, Failing, SessionRecords, States

LEMMA RenameTyped ==
  ASSUME Typed, NEW k \in Keys, NEW group, NEW F, RenameGroup(k, group, F)
  PROVE  /\ mem' \in [Sessions -> SessionRecords] /\ disk' \in [Sessions -> SessionRecords]
         /\ pc' \in PCs /\ att' \in Attempts
         /\ failures' \in [Gens -> 0 .. MaxBuildFailures] /\ short' \in [Gens -> 0 .. MaxShort]
<1>1. CASE k.gen >= MaxKeyRenames
  BY <1>1, FailingTyped, SavedTyped, ReturnTyped DEF RenameGroup, counts, Typed, TypeOK
<1>2. CASE ~(k.gen >= MaxKeyRenames)
  <2>1. k.gen + 1 \in Gens /\ k.gen \in Gens
    BY <1>2, LimitsAssumption DEF Keys, Gens
  <2>2. [gen |-> k.gen + 1, raw |-> FALSE] \in Keys
    BY <2>1 DEF Keys
  <2> DEFINE nk == [gen |-> k.gen + 1, raw |-> FALSE]
  <2>3. mem' = [x \in Sessions |-> IF x \in group THEN [mem[x] EXCEPT !.state = "waiting", !.key = nk] ELSE mem[x]]
    BY <1>2 DEF RenameGroup
  <2> HIDE DEF nk
  <2>4. nk \in Keys
    BY <2>2 DEF nk
  <2>5. \A x \in Sessions : /\ mem[x] \in SessionRecords
                            /\ [mem[x] EXCEPT !.state = "waiting", !.key = nk] \in SessionRecords
    <3>1. \A r \in SessionRecords : [r EXCEPT !.state = "waiting", !.key = nk] \in SessionRecords
      BY <2>4 DEF SessionRecords, States
    <3>2. \A x \in Sessions : mem[x] \in SessionRecords
      BY DEF Typed, TypeOK
    <3> QED
      BY <3>1, <3>2
  <2>6. mem' \in [Sessions -> SessionRecords]
    BY <2>3, <2>5
  <2> QED
    BY <1>2, <2>1, <2>6, SavedTyped, ForgetTyped, ReturnTyped DEF RenameGroup
<1> QED
  BY <1>1, <1>2

\* What completeGroup changes of one record.
LEMMA CompletedTyped ==
  ASSUME Typed, NEW x \in Sessions, NEW k \in Keys, NEW got
  PROVE  /\ Completed(x, k, got) \in SessionRecords
         /\ Completed(x, k, got).state = "uploaded" /\ Completed(x, k, got).key = k
         /\ Completed(x, k, got).out = mem[x].out
         /\ mem[x].vup => Completed(x, k, got).vup
         /\ Completed(x, k, got).vup => \/ mem[x].vup \/ got = "stored"
                                        \/ got = "gaveup" /\ x \in VideoHeld
         /\ captured[x] # "off" /\ got \in {"stored", "gaveup"} =>
              Completed(x, k, got).vup \/ Completed(x, k, got).verr
<1> DEFINE shown == captured[x] # "off" /\ (got = "stored" \/ (got = "gaveup" /\ x \in VideoHeld))
           err == IF shown THEN FALSE ELSE mem[x].verr \/ (captured[x] # "off" /\ got = "gaveup")
           up == mem[x].vup \/ shown
<1>1. mem[x] \in SessionRecords
  BY DEF Typed, TypeOK
<1>2. up \in BOOLEAN /\ err \in BOOLEAN
  BY <1>1 DEF SessionRecords
<1>3. Completed(x, k, got) = [mem[x] EXCEPT !.state = "uploaded", !.key = k, !.vup = up, !.verr = err]
  BY DEF Completed
<1>4. /\ captured[x] # "off" /\ got \in {"stored", "gaveup"} => up \/ err
      /\ up => mem[x].vup \/ got = "stored" \/ (got = "gaveup" /\ x \in VideoHeld)
      /\ mem[x].vup => up
  OBVIOUS
<1> HIDE DEF up, err
<1> QED
  BY <1>1, <1>2, <1>3, <1>4 DEF SessionRecords, States

LEMMA CompleteTyped ==
  ASSUME Typed, NEW members \in SUBSET Sessions, NEW k \in Keys, NEW got, CompleteGroup(members, k, got)
  PROVE  /\ mem' \in [Sessions -> SessionRecords]
         /\ pc' \in PCs /\ att' \in Attempts
         /\ failures' \in [Gens -> 0 .. MaxBuildFailures] /\ short' \in [Gens -> 0 .. MaxShort]
<1>1. mem' \in [Sessions -> SessionRecords]
  BY CompletedTyped DEF CompleteGroup, Typed, TypeOK
<1>2. att.key.gen \in Gens
  BY DEF Typed, Attempts, Keys
<1> QED
  BY <1>1, <1>2, UpdatesTyped, ForgetTyped DEF CompleteGroup, Typed, PCs

LEMMA SequencesOfObjects ==
  ASSUME Typed
  PROVE  /\ Target \in Seq(Sessions)
         /\ \A k \in Keys : audio[k] \in AudioObjects /\ VideoAt(k) \in VideoObjects
         /\ att.key \in Keys /\ att.dest \in Keys /\ att.key.gen \in Gens /\ att.dest.gen \in Gens
<1>1. NoVideo \in VideoObjects
  BY DEF NoVideo, VideoObjects, Writers
<1>2. \A k \in Keys : VideoAt(k) \in VideoObjects
  BY <1>1 DEF VideoAt, Typed, Keys
<1> QED
  BY <1>2, TargetLists DEF Typed, Attempts, Keys

\* The locals Begin starts an attempt with.
LEMMA BegunTyped ==
  ASSUME Typed, NEW s \in Sessions, NEW k \in Keys, NEW group \in SUBSET Sessions,
         NEW add \in SUBSET Sessions, NEW present \in SUBSET Sessions, NEW remote \in Seq(Sessions)
  PROVE  [Idle EXCEPT !.own = s, !.key = k, !.dest = k, !.group = group, !.add = add,
                      !.present = present, !.remote = remote] \in Attempts
<1> DEFINE b == [Idle EXCEPT !.own = s, !.key = k, !.dest = k, !.group = group, !.add = add,
                             !.present = present, !.remote = remote]
<1>1. Idle \in Attempts
  BY IdleTyped
<1>2. \A a \in Attempts : [a EXCEPT !.own = s, !.key = k, !.dest = k, !.group = group, !.add = add,
                                    !.present = present, !.remote = remote] \in Attempts
  BY DEF Attempts
<1> QED
  BY <1>1, <1>2

LEMMA MigratedTyped ==
  ASSUME Typed, NEW x \in Sessions
  PROVE  /\ Migrated(x) \in SessionRecords
         /\ Migrated(x).state = disk[x].state /\ Migrated(x).out = disk[x].out
         /\ Migrated(x).vup = disk[x].vup /\ Migrated(x).verr = disk[x].verr
         /\ Migrated(x).key.raw => Migrated(x).key = disk[x].key
<1> DEFINE nk == KeyFor({o \in Sessions : o < x}, disk)
<1>1. disk \in [Sessions -> SessionRecords] /\ disk[x] \in SessionRecords
  BY DEF Typed, TypeOK
<1>2. nk \in Keys /\ nk.raw = FALSE
  BY <1>1, KeyForTyped
<1> HIDE DEF nk
<1>3. Migrated(x) = [disk[x] EXCEPT !.key = nk] \/ Migrated(x) = disk[x]
  BY DEF Migrated, nk
<1> QED
  BY <1>1, <1>2, <1>3 DEF SessionRecords

LEMMA TypeStep == Typed /\ [Next]_vars => Typed'
<1> SUFFICES ASSUME Typed, [Next]_vars PROVE Typed'
  OBVIOUS
<1> USE LimitsAssumption
<1>t. /\ mem \in [Sessions -> SessionRecords] /\ disk \in [Sessions -> SessionRecords]
      /\ att \in Attempts /\ left \in 0 .. MaxFaults
      /\ \A k \in Keys : k.gen \in Gens /\ k \in [gen : Gens, raw : BOOLEAN]
      /\ \A kind : Fault(kind) => left' \in 0 .. MaxFaults
  BY DEF Typed, TypeOK, Fault, Keys
<1>k. /\ att.key \in Keys /\ att.dest \in Keys /\ att.key.gen \in Gens /\ att.dest.gen \in Gens
      /\ att.group \in SUBSET Sessions /\ att.add \in SUBSET Sessions /\ att.present \in SUBSET Sessions
      /\ att.todo \in SUBSET Sessions /\ att.own \in Sessions \cup {Nobody} /\ att.cur \in Sessions \cup {Nobody}
      /\ att.got \in {"none", "stored", "gaveup"} /\ att.seen \in VideoObjects /\ att.built \in VideoObjects
      /\ Target \in Seq(Sessions)
  BY SequencesOfObjects DEF Typed, Attempts
<1>r. /\ \A r \in SessionRecords, z \in States : [r EXCEPT !.state = z] \in SessionRecords
      /\ \A r \in SessionRecords, z \in States, k \in Keys : [r EXCEPT !.state = z, !.key = k] \in SessionRecords
      /\ \A r \in SessionRecords, z \in States, a, b \in BOOLEAN :
           [r EXCEPT !.state = z, !.out = a, !.vout = b] \in SessionRecords
      /\ {"recording", "waiting", "kept"} \subseteq States
      /\ \A x \in Sessions : mem[x] \in SessionRecords
  BY <1>t DEF SessionRecords, States
<1>1. CASE UNCHANGED vars
  BY <1>1 DEF vars, Typed, TypeOK
<1>2. ASSUME NEW s \in Sessions, StartSession(s) PROVE Typed'
  <2> DEFINE nk == KeyFor({o \in Sessions : o < s}, mem)
  <2>1. nk \in Keys
    BY <1>t, KeyForTyped
  <2> HIDE DEF nk
  <2>2. mem' = [mem EXCEPT ![s].state = "recording", ![s].key = nk]
    BY <1>2 DEF StartSession, nk
  <2>3. mem' \in [Sessions -> SessionRecords]
    BY <1>t, <1>r, <2>1, <2>2
  <2>4. disk' \in [Sessions -> SessionRecords]
    BY <1>2, <1>t, <2>3 DEF StartSession
  <2> QED
    BY <1>2, <2>3, <2>4 DEF StartSession, Typed, TypeOK, counts, store
<1>3. ASSUME NEW s \in Sessions, Finalize(s) PROVE Typed'
  <2>1. mem' \in [Sessions -> SessionRecords]
    BY <1>3, <1>t DEF Finalize, SessionRecords, States
  <2>2. disk' \in [Sessions -> SessionRecords]
    BY <1>3, <1>t, <2>1 DEF Finalize
  <2> QED
    BY <1>3, <2>1, <2>2 DEF Finalize, Typed, TypeOK, counts, store
<1>4. ASSUME NEW s \in Sessions, Begin(s) PROVE Typed'
  <2> DEFINE k == mem[s].key
             group == Waiting(k)
             o == audio[k]
             present == group \cap Parts(o)
             add == {x \in group \ present : "aac" \in dir[x]}
             failed == group \ (add \cup present)
  <2>1. k \in Keys /\ group \in SUBSET Sessions /\ present \in SUBSET Sessions /\ add \in SUBSET Sessions
        /\ o.parts \in Seq(Sessions)
    BY <1>t DEF SessionRecords, Waiting, Typed, AudioObjects
  <2>2. \/ RenameGroup(k, group, {})
        \/ RenameGroup(k, group, failed)
        \/ /\ mem' = Failing(failed) /\ disk' = Saved(group)
           /\ IF add \cup present = {} THEN Return
              ELSE /\ att' = [Idle EXCEPT !.own = s, !.key = k, !.dest = k, !.group = group, !.add = add,
                                         !.present = present, !.remote = o.parts]
                   /\ pc' \in PCs
           /\ UNCHANGED counts
    BY <1>4 DEF Begin, PCs
  <2>3. UNCHANGED <<captured, dir, audio, video, doc, disabled, history, left>>
    BY <1>4 DEF Begin, store
  <2> HIDE DEF k, group, o, present, add, failed
  <2>4. CASE RenameGroup(k, group, {}) \/ RenameGroup(k, group, failed)
    BY <2>1, <2>3, <2>4, RenameTyped DEF Typed, TypeOK
  <2>5. CASE /\ mem' = Failing(failed) /\ disk' = Saved(group)
             /\ IF add \cup present = {} THEN Return
                ELSE /\ att' = [Idle EXCEPT !.own = s, !.key = k, !.dest = k, !.group = group, !.add = add,
                                           !.present = present, !.remote = o.parts]
                     /\ pc' \in PCs
             /\ UNCHANGED counts
    <3>1. mem' \in [Sessions -> SessionRecords]
      BY <2>5, FailingTyped
    <3>2. disk' \in [Sessions -> SessionRecords]
      BY <2>5, <3>1, SavedTyped
    <3>3. att' \in Attempts /\ pc' \in PCs
      <4>1. [Idle EXCEPT !.own = s, !.key = k, !.dest = k, !.group = group, !.add = add,
                         !.present = present, !.remote = o.parts] \in Attempts
        BY <2>1, BegunTyped
      <4> QED
        BY <2>5, <4>1, ReturnTyped
    <3> QED
      BY <2>3, <2>5, <3>1, <3>2, <3>3 DEF counts, Typed, TypeOK
  <2> QED
    BY <2>2, <2>4, <2>5
<1>5. ASSUME NEW s \in Sessions, KeepBegin(s) PROVE Typed'
  <2>1. mem' \in [Sessions -> SessionRecords] /\ att' \in Attempts /\ pc' \in PCs
    <3>1. CASE "aac" \in dir[s]
      <4>1. \A a \in Attempts : [a EXCEPT !.own = s, !.cur = s] \in Attempts
        BY DEF Attempts
      <4> QED
        BY <1>5, <1>t, <3>1, <4>1, IdleTyped DEF KeepBegin, PCs
    <3>2. CASE ~("aac" \in dir[s])
      <4> DEFINE a == mem[s].out \/ "m4a" \in dir[s]
                 b == mem[s].vout \/ ("mp4" \in dir[s] /\ captured[s] # "off")
      <4>1. a \in BOOLEAN /\ b \in BOOLEAN
        BY <1>t DEF SessionRecords
      <4>2. mem' = [mem EXCEPT ![s].state = "kept", ![s].out = a, ![s].vout = b]
        BY <1>5, <3>2 DEF KeepBegin
      <4> HIDE DEF a, b
      <4>3. mem' \in [Sessions -> SessionRecords]
        BY <1>t, <1>r, <4>1, <4>2
      <4> QED
        BY <1>5, <3>2, <4>3 DEF KeepBegin, Typed, TypeOK
    <3> QED
      BY <3>1, <3>2
  <2>2. disk' \in [Sessions -> SessionRecords]
    BY <1>5, <1>t, <2>1, SavedTyped DEF KeepBegin
  <2> QED
    BY <1>5, <2>1, <2>2 DEF KeepBegin, Typed, TypeOK, counts, store
<1>6. CASE Converge
  <2> DEFINE got == CASE ~WithVideo(att.group) -> "none"
                      [] WithVideo(att.group) /\ Ours(VideoAt(att.key)) /\ VideoAt(att.key).parts = att.remote -> "stored"
                      [] OTHER -> "gaveup"
  <2>1. CompleteGroup(att.present, att.key, got)
    BY <1>6 DEF Converge
  <2> HIDE DEF got
  <2> QED
    BY <1>6, <1>k, <2>1, CompleteTyped DEF Converge, Typed, TypeOK, store
<1>7. CASE HeadVideo
  <2>1. CASE RenameGroup(att.key, att.group, {})
    BY <1>7, <1>k, <2>1, RenameTyped DEF HeadVideo, Typed, TypeOK, store
  <2>2. CASE UNCHANGED <<mem, disk, counts>> /\ att' \in Attempts /\ pc' \in {"build", "space"}
    BY <1>7, <2>2 DEF HeadVideo, Typed, TypeOK, counts, store, PCs
  <2>3. VideoAt(att.key) \in VideoObjects /\ \A n \in Prefixes : n - Base \in Nat
    <3>1. Base \in Nat /\ Len(Target) \in Nat
      BY TargetLists DEF Typed
    <3> QED
      BY <3>1, <1>k, SequencesOfObjects DEF Prefixes
  <2>4. \/ RenameGroup(att.key, att.group, {})
        \/ /\ UNCHANGED <<mem, disk, counts>> /\ pc' \in {"build", "space"}
           /\ \E p \in {"reuse", "extend", "fresh"} :
                \/ att' = [att EXCEPT !.plan = p, !.seen = VideoAt(att.key)]
                \/ \E n \in Prefixes : att' = [att EXCEPT !.plan = p, !.seen = VideoAt(att.key), !.skip = n - Base]
    BY <1>7 DEF HeadVideo
  <2>5. ASSUME NEW p \in {"reuse", "extend", "fresh"},
               att' = [att EXCEPT !.plan = p, !.seen = VideoAt(att.key)] \/
               \E n \in Prefixes : att' = [att EXCEPT !.plan = p, !.seen = VideoAt(att.key), !.skip = n - Base]
        PROVE  att' \in Attempts
    <3> DEFINE v == VideoAt(att.key)
    <3>1. \A q \in {"none", "fresh", "extend", "reuse"}, w \in VideoObjects, n \in Nat :
            /\ [att EXCEPT !.plan = q, !.seen = w] \in Attempts
            /\ [att EXCEPT !.plan = q, !.seen = w, !.skip = n] \in Attempts
      BY <1>t, UpdatesTyped
    <3>2. v \in VideoObjects /\ p \in {"none", "fresh", "extend", "reuse"}
      BY <2>3
    <3> HIDE DEF v
    <3>3. CASE att' = [att EXCEPT !.plan = p, !.seen = v]
      BY <3>1, <3>2, <3>3
    <3>4. ASSUME NEW n \in Prefixes, att' = [att EXCEPT !.plan = p, !.seen = v, !.skip = n - Base]
          PROVE  att' \in Attempts
      <4> DEFINE m == n - Base
      <4>1. m \in Nat
        BY <2>3
      <4> HIDE DEF m
      <4>2. att' = [att EXCEPT !.plan = p, !.seen = v, !.skip = m]
        BY <3>4 DEF m
      <4> QED
        BY <3>1, <3>2, <4>1, <4>2
    <3> QED
      BY <2>5, <3>3, <3>4 DEF v
  <2>6. CASE ~RenameGroup(att.key, att.group, {})
    <3>1. PICK p \in {"reuse", "extend", "fresh"} :
            \/ att' = [att EXCEPT !.plan = p, !.seen = VideoAt(att.key)]
            \/ \E n \in Prefixes : att' = [att EXCEPT !.plan = p, !.seen = VideoAt(att.key), !.skip = n - Base]
      BY <2>4, <2>6
    <3>2. att' \in Attempts
      BY <2>5, <3>1
    <3> QED
      BY <2>2, <2>4, <2>6, <3>2
  <2> QED
    BY <2>1, <2>6
<1>8. CASE SpaceForVideo
  <2>1. short' \in [Gens -> 0 .. MaxShort]
    <3>1. 0 \in 0 .. MaxShort
      BY LimitsAssumption
    <3>2. short \in [Gens -> 0 .. MaxShort] /\ short' = [short EXCEPT ![att.key.gen] = 0]
      BY <1>8 DEF SpaceForVideo, Typed, TypeOK
    <3> QED
      BY <3>1, <3>2
  <2>2. pc' \in PCs
    BY <1>8 DEF SpaceForVideo, PCs
  <2> QED
    BY <1>8, <2>1, <2>2 DEF SpaceForVideo, Typed, TypeOK, store
<1>9. CASE NoSpaceForVideo
  <2>1. att' \in Attempts /\ pc' \in PCs
    BY <1>9, <1>t, UpdatesTyped, ReturnTyped DEF NoSpaceForVideo, PCs
  <2>2. short' \in [Gens -> 0 .. MaxShort]
    <3>1. short \in [Gens -> 0 .. MaxShort] /\ MaxShort \in Nat
      BY DEF Typed, TypeOK
    <3>2. UNCHANGED short \/ (short[att.key.gen] < MaxShort /\ short' = [short EXCEPT ![att.key.gen] = @ + 1])
      BY <1>9 DEF NoSpaceForVideo
    <3> QED
      BY <1>k, <3>1, <3>2
  <2> QED
    BY <1>9, <2>1, <2>2 DEF NoSpaceForVideo, Typed, TypeOK, store
<1>10. CASE RemuxFails
  <2>1. CASE RenameGroup(att.key, att.group, {})
    BY <1>10, <1>k, <1>t, <2>1, RenameTyped DEF RemuxFails, Typed, TypeOK, store
  <2>2. CASE UNCHANGED <<mem, disk, counts>> /\ att' \in Attempts /\ pc' \in PCs
    BY <1>10, <1>t, <2>2 DEF RemuxFails, Typed, TypeOK, counts, store
  <2> QED
    BY <1>10, <1>t, <2>1, <2>2, UpdatesTyped, ReturnTyped DEF RemuxFails, PCs
<1>11. CASE NoVideoBuild
  <2>1. att' \in Attempts
    <3>1. att' = [att EXCEPT !.got = "stored"] \/ att' = [att EXCEPT !.got = att.got]
      BY <1>11, <1>t DEF NoVideoBuild
    <3> QED
      BY <1>t, <1>k, <3>1, UpdatesTyped
  <2> QED
    BY <1>11, <2>1 DEF NoVideoBuild, Typed, TypeOK, counts, store, PCs
<1>12. CASE BuildVideo
  <2>1. [by |-> "us", parts |-> Target, shown |-> ShownAfter] \in VideoObjects
    BY <1>k DEF ShownAfter, WithTS, VideoObjects, Writers
  <2>2. att' \in Attempts /\ pc' \in PCs
    BY <1>12, <1>t, <2>1, UpdatesTyped, ReturnTyped DEF BuildVideo, PCs
  <2> QED
    BY <1>12, <2>2 DEF BuildVideo, Typed, TypeOK, counts, store
<1>13. CASE BuildVideoFails
  <2>1. att' \in Attempts /\ pc' \in PCs
    BY <1>13, <1>t, UpdatesTyped, ReturnTyped DEF BuildVideoFails, PCs
  <2>2. failures' \in [Gens -> 0 .. MaxBuildFailures]
    <3>1. failures \in [Gens -> 0 .. MaxBuildFailures] /\ MaxBuildFailures \in Nat
      BY DEF Typed, TypeOK
    <3>2. \/ failures' = [failures EXCEPT ![att.key.gen] = MaxBuildFailures]
          \/ failures[att.key.gen] + 1 < MaxBuildFailures /\ failures' = [failures EXCEPT ![att.key.gen] = @ + 1]
      BY <1>13 DEF BuildVideoFails
    <3> QED
      BY <1>k, <3>1, <3>2
  <2> QED
    BY <1>13, <2>1, <2>2 DEF BuildVideoFails, Typed, TypeOK, store
<1>14. CASE PutVideo
  <2>1. att' \in Attempts /\ pc' \in PCs /\ left' \in 0 .. MaxFaults
    BY <1>14, <1>t, UpdatesTyped, ReturnTyped DEF PutVideo, PCs
  <2>2. video' \in [Gens -> VideoObjects]
    BY <1>14, <1>k DEF PutVideo, Typed
  <2>3. dropped' \subseteq Sessions
    <3>1. dropped' = dropped \/ dropped' = dropped \cup (VideoAt(att.key).shown \ att.built.shown)
      BY <1>14 DEF PutVideo
    <3>2. VideoAt(att.key).shown \subseteq Sessions
      BY <1>k DEF VideoAt, NoVideo, Typed, VideoObjects
    <3> QED
      BY <3>1, <3>2 DEF Typed, TypeOK
  <2> QED
    BY <1>14, <2>1, <2>2, <2>3 DEF PutVideo, Typed, TypeOK, counts
<1>15. CASE PutDoc
  <2>1. att' \in Attempts /\ pc' \in PCs /\ left' \in 0 .. MaxFaults
    BY <1>15, <1>t, ReturnTyped DEF PutDoc, PCs
  <2>2. Written \in Docs
    BY <1>k DEF Written, Docs
  <2>3. doc' \in [Gens -> Docs]
    <3>1. doc \in [Gens -> Docs] /\ \A d \in Docs : [d EXCEPT !.refused = TRUE] \in Docs
      BY DEF Typed, Docs
    <3>2. \/ doc' = [doc EXCEPT ![att.dest.gen] = Written]
          \/ doc' = [doc EXCEPT ![att.dest.gen].refused = TRUE]
      BY <1>15 DEF PutDoc
    <3> QED
      BY <1>k, <2>2, <3>1, <3>2
  <2> QED
    BY <1>15, <2>1, <2>3 DEF PutDoc, Typed, TypeOK, counts
<1>16. CASE PutAudio
  <2>a. (UNCHANGED <<audio, givenUp>>) \/ (audio' \in [Keys -> AudioObjects] /\ givenUp' \subseteq Sessions)
    <3>1. [by |-> "us", parts |-> Target] \in AudioObjects
      BY <1>k DEF AudioObjects, Writers
    <3>2. audio \in [Keys -> AudioObjects] /\ givenUp \subseteq Sessions
      BY DEF Typed, TypeOK
    <3> QED
      BY <1>16, <1>k, <3>1, <3>2 DEF PutAudio
  <2>1. CASE CompleteGroup(att.add \cup att.present, att.dest, att.got) /\ UNCHANGED left
    <3>1. /\ mem' \in [Sessions -> SessionRecords] /\ pc' \in PCs /\ att' \in Attempts
          /\ failures' \in [Gens -> 0 .. MaxBuildFailures] /\ short' \in [Gens -> 0 .. MaxShort]
      BY <1>k, <2>1, CompleteTyped
    <3> QED
      BY <1>16, <2>a, <2>1, <3>1 DEF PutAudio, Typed, TypeOK
  <2>2. CASE Fault("lost") /\ Return /\ UNCHANGED <<mem, counts>>
    BY <1>16, <1>t, <2>a, <2>2, ReturnTyped DEF PutAudio, Typed, TypeOK, counts
  <2>3. CASE Return /\ UNCHANGED <<mem, audio, counts, givenUp, left>>
    BY <1>16, <2>3, ReturnTyped DEF PutAudio, Typed, TypeOK, counts
  <2> QED
    BY <1>16, <2>1, <2>2, <2>3 DEF PutAudio
<1>17. CASE Fallback
  <2> DEFINE k == [att.key EXCEPT !.raw = TRUE]
             got == IF WithVideo(att.group) THEN "gaveup" ELSE "none"
  <2>1. k \in Keys /\ got \in {"none", "stored", "gaveup"}
    BY <1>k DEF Keys
  <2>2. \/ RenameGroup(att.key, att.group, {})
        \/ CompleteGroup(att.add, k, got) /\ UNCHANGED disk
        \/ att' = [att EXCEPT !.dest = k, !.got = got] /\ pc' = "doc" /\ UNCHANGED <<mem, disk, counts>>
    BY <1>17 DEF Fallback
  <2>3. UNCHANGED <<captured, dir, audio, video, doc, disabled, history, left>>
    BY <1>17 DEF Fallback, store
  <2> HIDE DEF k, got
  <2>4. CASE RenameGroup(att.key, att.group, {})
    BY <1>k, <2>3, <2>4, RenameTyped DEF Typed, TypeOK
  <2>5. CASE CompleteGroup(att.add, k, got) /\ UNCHANGED disk
    BY <1>k, <2>1, <2>3, <2>5, CompleteTyped DEF Typed, TypeOK
  <2>6. CASE att' = [att EXCEPT !.dest = k, !.got = got] /\ pc' = "doc" /\ UNCHANGED <<mem, disk, counts>>
    BY <1>t, <2>1, <2>3, <2>6, UpdatesTyped DEF counts, Typed, TypeOK, PCs
  <2> QED
    BY <2>2, <2>4, <2>5, <2>6
<1>18. CASE Interrupted
  BY <1>18, <1>t, ReturnTyped DEF Interrupted, Typed, TypeOK, counts, store
<1>19. CASE RecordUpload
  <2>1. att' \in Attempts /\ pc' \in PCs /\ left' \in 0 .. MaxFaults
    <3>1. PICK x \in att.todo : \/ att' = [att EXCEPT !.todo = @ \ {x}, !.cur = x] /\ pc' = "aac" /\ UNCHANGED left
                                \/ att' = [att EXCEPT !.todo = @ \ {x}, !.lost = TRUE] /\ Fault("sidecar") /\ UNCHANGED pc
      BY <1>19 DEF RecordUpload
    <3>2. x \in Sessions
      BY <1>k
    <3> QED
      BY <1>t, <3>1, <3>2, UpdatesTyped DEF PCs, Typed, TypeOK
  <2>2. disk' \in [Sessions -> SessionRecords]
    BY <1>19, <1>t, <1>k DEF RecordUpload
  <2> QED
    BY <1>19, <2>1, <2>2 DEF RecordUpload, Typed, TypeOK, counts, store
<1>20. CASE RemoveCapture
  <2>1. att' \in Attempts /\ pc' \in PCs
    BY <1>20, <1>t, ReturnTyped DEF RemoveCapture, PCs
  <2> QED
    BY <1>20, <2>1 DEF RemoveCapture, Typed, TypeOK, counts, store
<1>21. CASE RemovePictures
  <2>1. att' \in Attempts /\ pc' \in PCs
    BY <1>21, <1>t, ReturnTyped, UpdatesTyped DEF RemovePictures, PCs
  <2> QED
    BY <1>21, <2>1 DEF RemovePictures, Typed, TypeOK, counts, store
<1>22. CASE Recorded
  <2>1. mem' \in [Sessions -> SessionRecords]
    BY <1>22, <1>t, <1>r DEF Recorded
  <2>2. disk' \in [Sessions -> SessionRecords]
    BY <1>22, <2>1, SavedTyped DEF Recorded
  <2> QED
    BY <1>22, <2>1, <2>2, ReturnTyped DEF Recorded, Typed, TypeOK, counts, store
<1>23. CASE KeepBuild
  <2>1. mem' \in [Sessions -> SessionRecords]
    <3>1. UNCHANGED mem \/ mem' = [mem EXCEPT ![att.own].state = "kept"]
      BY <1>23 DEF KeepBuild
    <3>2. \A x \in Sessions : mem'[x] = mem[x] \/ mem'[x] = [mem[x] EXCEPT !.state = "kept"]
      BY <1>t, <3>1
    <3>3. mem' = [x \in Sessions |-> mem'[x]]
      BY <1>t, <3>1
    <3>4. \A r \in SessionRecords : [r EXCEPT !.state = "kept"] \in SessionRecords
      BY DEF SessionRecords, States
    <3>5. ASSUME NEW x \in Sessions PROVE mem'[x] \in SessionRecords
      <4>1. [mem[x] EXCEPT !.state = "kept"] \in SessionRecords
        BY <1>r, <3>4
      <4> QED
        BY <1>r, <3>2, <4>1
    <3> QED
      BY <3>3, <3>5
  <2>2. disk' \in [Sessions -> SessionRecords]
    BY <1>23, <1>t, <2>1, SavedTyped DEF KeepBuild
  <2>3. att' \in Attempts /\ pc' \in PCs /\ left' \in 0 .. MaxFaults
    BY <1>23, <1>t, ReturnTyped DEF KeepBuild, PCs
  <2> QED
    BY <1>23, <2>1, <2>2, <2>3 DEF KeepBuild, Typed, TypeOK, counts, store
<1>24. CASE KeepVideo
  <2>1. att' \in Attempts
    BY <1>24, <1>t, UpdatesTyped DEF KeepVideo
  <2> QED
    BY <1>24, <2>1 DEF KeepVideo, Typed, TypeOK, counts, store, PCs
<1>25. CASE KeepRename
  BY <1>25 DEF KeepRename, Typed, TypeOK, counts, store, PCs
<1>26. CASE KeepSave
  <2> DEFINE s == att.own
             r == [mem[s] EXCEPT !.state = "kept", !.out = TRUE]
             vo == att.got = "stored"
             ve == att.got = "gaveup"
             q == [r EXCEPT !.vout = vo, !.verr = ve]
  <2>1. \A y \in SessionRecords : /\ [y EXCEPT !.state = "kept", !.out = TRUE] \in SessionRecords
                                  /\ [y EXCEPT !.vout = vo, !.verr = ve] \in SessionRecords
    BY DEF SessionRecords, States
  <2>2. s \in Sessions => r \in SessionRecords /\ q \in SessionRecords
    BY <1>t, <2>1
  <2>3. mem' = [mem EXCEPT ![s] = IF captured[s] = "off" THEN r ELSE q]
    BY <1>26 DEF KeepSave
  <2> HIDE DEF s, r, q
  <2>4. mem' \in [Sessions -> SessionRecords]
    BY <1>t, <2>2, <2>3
  <2>5. disk' \in [Sessions -> SessionRecords]
    BY <1>26, <1>t, <2>4, SavedTyped DEF KeepSave
  <2>6. att' \in Attempts /\ pc' \in PCs /\ left' \in 0 .. MaxFaults
    BY <1>26, <1>t, ReturnTyped DEF KeepSave, PCs
  <2> QED
    BY <1>26, <2>4, <2>5, <2>6 DEF KeepSave, Typed, TypeOK, counts, store
<1>27. CASE Restart
  <2>1. \A x \in Sessions : [Migrated(x) EXCEPT !.state = Recovered(x, disabled')] \in SessionRecords
    <3> SUFFICES ASSUME NEW x \in Sessions
                 PROVE  [Migrated(x) EXCEPT !.state = Recovered(x, disabled')] \in SessionRecords
      OBVIOUS
    <3>1. Recovered(x, disabled') \in States
      BY <1>t DEF Recovered, SessionRecords, States
    <3>2. \A y \in SessionRecords, z \in States : [y EXCEPT !.state = z] \in SessionRecords
      BY DEF SessionRecords
    <3> QED
      BY <3>1, <3>2, MigratedTyped
  <2>2. mem' \in [Sessions -> SessionRecords]
    BY <1>27, <2>1 DEF Restart
  <2>3. disk' \in [Sessions -> SessionRecords]
    BY <1>27, MigratedTyped DEF Restart
  <2>4. disabled' \in BOOLEAN
    BY <1>27 DEF Restart
  <2>5. /\ failures' \in [Gens -> 0 .. MaxBuildFailures] /\ short' \in [Gens -> 0 .. MaxShort]
        /\ left' \in 0 .. MaxFaults
    BY <1>27, <1>t DEF Restart
  <2> QED
    BY <1>27, <2>2, <2>3, <2>4, <2>5, ReturnTyped DEF Restart, Typed, TypeOK, store
<1>28. CASE ForeignPut
  <2>a. (\A o \in AudioObjects : [o EXCEPT !.by = "foreign"] \in AudioObjects)
        /\ \A o \in VideoObjects : [o EXCEPT !.by = "foreign"] \in VideoObjects
    BY DEF AudioObjects, VideoObjects, Writers
  <2>b. UNCHANGED audio \/ \E k : audio' = [audio EXCEPT ![k].by = "foreign"]
    BY <1>28 DEF ForeignPut
  <2>c. UNCHANGED video \/ \E g : video' = [video EXCEPT ![g].by = "foreign"]
    BY <1>28 DEF ForeignPut
  <2>d. audio' \in [Keys -> AudioObjects]
    BY <2>a, <2>b DEF Typed
  <2>e. video' \in [Gens -> VideoObjects]
    BY <2>a, <2>c DEF Typed
  <2>1. audio' \in [Keys -> AudioObjects] /\ video' \in [Gens -> VideoObjects]
    BY <2>d, <2>e
  <2> QED
    BY <1>28, <1>t, <2>1 DEF ForeignPut, Typed, TypeOK, counts
<1> QED
  BY <1>1, <1>2, <1>3, <1>4, <1>5, <1>6, <1>7, <1>8, <1>9, <1>10, <1>11, <1>12, <1>13, <1>14, <1>15,
     <1>16, <1>17, <1>18, <1>19, <1>20, <1>21, <1>22, <1>23, <1>24, <1>25, <1>26, <1>27, <1>28
     DEF Next, AttemptStep

-----------------------------------------------------------------------------
\* What an object of this recorder holds it keeps holding.

LEMMA HeldStays ==
  ASSUME Typed, KeyRemembered, [Next]_vars
  PROVE  /\ \A k \in Keys : Ours(audio[k]) => Ours(audio'[k]) /\ (PutAudio \/ audio'[k] = audio[k])
         /\ \A k \in Keys : \A x : Held(k, x) => Held(k, x)'
         /\ ~PutAudio => \A k \in Keys : Ours(audio'[k]) => audio'[k] = audio[k]
<1>a. audio \in [Keys -> AudioObjects] /\ att.dest \in Keys /\ Target \in Seq(Sessions)
  BY SequencesOfObjects DEF Typed
<1>1. CASE PutAudio
  <2> DEFINE o == [by |-> "us", parts |-> Target]
  <2>1. UNCHANGED audio \/ /\ audio' = [audio EXCEPT ![att.dest] = o]
                           /\ CondWrites => audio[att.dest].by # "foreign" /\ audio[att.dest].parts = att.remote
    BY <1>1 DEF PutAudio
  <2>2. pc = "put"
    BY <1>1 DEF PutAudio
  <2>3. Ours(audio[att.dest]) /\ audio' # audio => audio[att.dest].parts = att.remote
    BY <2>1, <2>2, SwitchAssumption DEF KeyRemembered, Uploading
  <2>4. ASSUME NEW x, x \in Parts(audio[att.dest]), audio[att.dest].parts = att.remote PROVE x \in Parts(o)
    <3>1. PICK i \in DOMAIN att.remote : att.remote[i] = x
      BY <2>4 DEF Parts
    <3>2. i \in 1 .. Len(Target) /\ Target[i] = x
      BY <3>1, TargetHolds DEF Typed
    <3>3. i \in DOMAIN o.parts /\ o.parts[i] = x
      BY <1>a, <3>2
    <3> HIDE DEF o
    <3> QED
      BY <3>3 DEF Parts
  <2>5. Ours(o)
    BY DEF Ours
  <2> HIDE DEF o
  <2>6. ASSUME NEW k \in Keys, Ours(audio[k]) PROVE Ours(audio'[k])
    BY <1>a, <2>1, <2>5, <2>6
  <2>7. ASSUME NEW k \in Keys, NEW x, Held(k, x) PROVE Held(k, x)'
    <3>1. CASE k = att.dest /\ audio' # audio
      <4>1. audio'[k] = o /\ x \in Parts(o)
        BY <1>a, <2>1, <2>3, <2>4, <2>7, <3>1 DEF Held
      <4> QED
        BY <2>5, <4>1 DEF Held, Parts, Ours
    <3>2. CASE k # att.dest \/ audio' = audio
      <4>1. audio'[k] = audio[k]
        BY <1>a, <2>1, <3>2
      <4> QED
        BY <2>7, <4>1 DEF Held, Parts, Ours
    <3> QED
      BY <3>1, <3>2
  <2> QED
    BY <1>1, <2>6, <2>7
<1>2. CASE ~PutAudio
  <2>1. UNCHANGED audio \/ \E g \in Gens : /\ audio[M4A(g)].by = "none"
                                           /\ audio' = [audio EXCEPT ![M4A(g)].by = "foreign"]
    <3>1. CASE ForeignPut
      BY <3>1 DEF ForeignPut, M4A
    <3>2. CASE ~ForeignPut
      BY <1>2, <3>2 DEF Next, AttemptStep, vars, store, StartSession, Finalize, Begin, KeepBegin, Converge,
           HeadVideo, SpaceForVideo, NoSpaceForVideo, NoVideoBuild, BuildVideo, BuildVideoFails, PutVideo,
           PutDoc, Fallback, RecordUpload, RemoveCapture, RemovePictures, Recorded, KeepBuild, KeepVideo,
           KeepRename, KeepSave, RemuxFails, Interrupted, Restart
    <3> QED
      BY <3>1, <3>2
  <2>2. ASSUME NEW k \in Keys, Ours(audio[k]) PROVE audio'[k] = audio[k]
    BY <1>a, <2>1, <2>2 DEF Ours
  <2>3. ASSUME NEW k \in Keys, Ours(audio'[k]) PROVE audio'[k] = audio[k]
    BY <1>a, <2>1, <2>3 DEF Ours, AudioObjects
  <2> QED
    BY <2>2, <2>3 DEF Held, Parts, Ours
<1> QED
  BY <1>1, <1>2

-----------------------------------------------------------------------------
\* What a step does to the records of the sessions.

\* What a new record n of session x keeps of its two old ones.
Succeeds(n, x) ==
  /\ Done(n) => Done(mem[x]) \/ Done(disk[x]) \/ "aac" \in dir'[x]
  /\ n.key.raw => n.key = mem[x].key \/ n.key = disk[x].key
  /\ n.vup => mem[x].vup \/ disk[x].vup
  /\ n.state = "uploaded" => \E r \in {mem[x], disk[x]} :
       r.state = "uploaded" /\ (r.vup => n.vup) /\ (r.verr => n.verr)

Advances(x) == /\ Succeeds(mem'[x], x)
               /\ Done(mem[x]) => Done(mem'[x])
               /\ mem[x].out => mem'[x].out

\* A step other than completeGroup: ordinary successors, and what the sidecar
\* says of the .m4a stays said.  Only a restart may forget that a session ended.
Carried == \A x \in Sessions :
  /\ Succeeds(mem'[x], x) /\ Succeeds(disk'[x], x)
  /\ Done(mem[x]) /\ ~Restart => Done(mem'[x])
  /\ disk[x].out => disk'[x].out
  /\ disk'[x].out => mem'[x].out

Verdicts == {"none", "stored", "gaveup"}
Finishing(members, k, got) == CompleteGroup(members, k, got) /\ UNCHANGED disk

LEMMA OldRecords ==
  ASSUME Typed, NEW x \in Sessions
  PROVE  /\ mem[x] \in SessionRecords /\ disk[x] \in SessionRecords
         /\ Succeeds(mem[x], x) /\ Succeeds(disk[x], x)
         /\ \A z \in {"waiting", "failed", "kept"} :
              Done(mem[x]) => /\ Succeeds([mem[x] EXCEPT !.state = z], x) /\ Done([mem[x] EXCEPT !.state = z])
                              /\ [mem[x] EXCEPT !.state = z].out = mem[x].out
BY DEF Typed, TypeOK, Succeeds, SessionRecords, Done

\* Saved writes what is in memory.
LEMMA SavedCarries ==
  ASSUME Typed, FinishedKept, NEW S, disk' = Saved(S),
         \A x \in Sessions : Advances(x)
  PROVE  Carried
<1> SUFFICES ASSUME NEW x \in Sessions
             PROVE  /\ Succeeds(disk'[x], x)
                    /\ disk[x].out => disk'[x].out
                    /\ disk'[x].out => mem'[x].out
  BY DEF Carried, Advances
<1>1. disk'[x] = mem'[x] \/ disk'[x] = disk[x]
  BY DEF Saved
<1>2. disk[x].out => mem[x].out
  BY DEF FinishedKept
<1> QED
  BY <1>1, <1>2, OldRecords DEF Advances

LEMMA RenameCarries ==
  ASSUME Typed, FinishedKept, NEW k, NEW group, NEW F, RenameGroup(k, group, F),
         \A x \in group \cup F : x \in Sessions => Done(mem[x])
  PROVE  Carried
<1> DEFINE nk == [gen |-> k.gen + 1, raw |-> FALSE]
<1>1. /\ \E S : disk' = Saved(S)
      /\ \/ mem' = Failing(F)
         \/ mem' = [x \in Sessions |-> IF x \in group THEN [mem[x] EXCEPT !.state = "waiting", !.key = nk] ELSE mem[x]]
  BY DEF RenameGroup
<1>2. nk.raw = FALSE
  OBVIOUS
<1> HIDE DEF nk
<1>3. ASSUME NEW x \in Sessions PROVE Advances(x)
  <2>1. \/ mem'[x] = mem[x]
        \/ Done(mem[x]) /\ mem'[x] = [mem[x] EXCEPT !.state = "failed"]
        \/ Done(mem[x]) /\ mem'[x] = [mem[x] EXCEPT !.state = "waiting", !.key = nk]
    BY <1>1 DEF Failing
  <2>2. CASE Done(mem[x]) /\ mem'[x] = [mem[x] EXCEPT !.state = "waiting", !.key = nk]
    BY <1>2, <2>2, OldRecords DEF SessionRecords, Advances, Succeeds, Done
  <2> QED
    BY <2>1, <2>2, OldRecords DEF Advances
<1> QED
  BY <1>1, <1>3, SavedCarries

\* A step that leaves memory and sidecars alone carries the records.
LEMMA UnchangedCarries ==
  ASSUME Typed, FinishedKept, UNCHANGED <<mem, disk>>
  PROVE  Carried
BY OldRecords DEF Carried, FinishedKept

LEMMA RestartCarries ==
  ASSUME Typed, FinishedKept, Restart
  PROVE  Carried
<1> SUFFICES ASSUME NEW x \in Sessions
             PROVE  /\ Succeeds(mem'[x], x) /\ Succeeds(disk'[x], x)
                    /\ disk[x].out => disk'[x].out
                    /\ disk'[x].out => mem'[x].out
  BY DEF Carried
<1> DEFINE m == Migrated(x)
           z == Recovered(x, disabled')
<1>1. mem'[x] = [m EXCEPT !.state = z] /\ disk'[x] = m
  BY DEF Restart
<1>2. /\ m \in SessionRecords /\ m.state = disk[x].state /\ m.out = disk[x].out
      /\ m.vup = disk[x].vup /\ m.verr = disk[x].verr /\ (m.key.raw => m.key = disk[x].key)
  BY MigratedTyped
<1>3. /\ z \notin {"none", "recording"} => Done(disk[x])
      /\ z = "uploaded" => disk[x].state = "uploaded"
  BY DEF Recovered, Done
<1> HIDE DEF m, z
<1>4. [m EXCEPT !.state = z].state = z /\ [m EXCEPT !.state = z].out = m.out /\ [m EXCEPT !.state = z].key = m.key
      /\ [m EXCEPT !.state = z].vup = m.vup /\ [m EXCEPT !.state = z].verr = m.verr
  BY <1>2 DEF SessionRecords
<1> QED
  BY <1>1, <1>2, <1>3, <1>4 DEF Succeeds, Done

\* The three places that finish a group.
RawKey == [att.key EXCEPT !.raw = TRUE]
Converged == CASE ~WithVideo(att.group) -> "none"
               [] WithVideo(att.group) /\ Ours(VideoAt(att.key)) /\ VideoAt(att.key).parts = att.remote -> "stored"
               [] OTHER -> "gaveup"
Dropped == IF WithVideo(att.group) THEN "gaveup" ELSE "none"

ConvergeFinishes == Converge /\ Finishing(att.present, att.key, Converged)
PutFinishes == PutAudio /\ Finishing(att.add \cup att.present, att.dest, att.got)
FallbackFinishes == /\ Fallback /\ Finishing(att.add, RawKey, Dropped)
                    /\ Ours(audio[RawKey]) /\ att.add \subseteq Parts(audio[RawKey])

LEMMA StepShape ==
  ASSUME Typed, FinishedKept, GroupFinished, [Next]_vars
  PROVE  Carried \/ ConvergeFinishes \/ PutFinishes \/ FallbackFinishes
<1>t. /\ mem \in [Sessions -> SessionRecords] /\ disk \in [Sessions -> SessionRecords]
      /\ \A x \in Sessions : mem[x] \in SessionRecords /\ disk[x] \in SessionRecords
      /\ \A x \in att.group : Done(mem[x])
      /\ att.own \in Sessions => Done(mem[att.own])
  BY DEF Typed, TypeOK, GroupFinished
<1>1. CASE UNCHANGED <<mem, disk>>
  BY <1>1, UnchangedCarries
<1>2. ASSUME NEW s \in Sessions, StartSession(s) PROVE Carried
  <2> DEFINE nk == KeyFor({o \in Sessions : o < s}, mem)
  <2>1. nk.raw = FALSE
    BY <1>t, KeyForTyped
  <2> HIDE DEF nk
  <2>2. mem' = [mem EXCEPT ![s].state = "recording", ![s].key = nk] /\ disk' = [disk EXCEPT ![s] = mem'[s]]
    BY <1>2 DEF StartSession, nk
  <2>3. mem'[s] = [mem[s] EXCEPT !.state = "recording", !.key = nk] /\ disk'[s] = mem'[s]
    BY <1>t, <2>2
  <2>4. Succeeds(mem'[s], s) /\ mem'[s].out = mem[s].out /\ ~Done(mem[s])
    BY <1>2, <1>t, <2>1, <2>3 DEF StartSession, Succeeds, Done, SessionRecords
  <2>5. \A x \in Sessions \ {s} : mem'[x] = mem[x] /\ disk'[x] = disk[x]
    BY <1>t, <2>2
  <2> QED
    BY <2>3, <2>4, <2>5, OldRecords DEF Carried, FinishedKept
<1>3. ASSUME NEW s \in Sessions, Finalize(s) PROVE Carried
  <2>1. mem' = [mem EXCEPT ![s].state = "waiting"] /\ disk' = [disk EXCEPT ![s] = mem'[s]] /\ "aac" \in dir'[s]
    BY <1>3 DEF Finalize, Typed, TypeOK
  <2>3. mem'[s] = [mem[s] EXCEPT !.state = "waiting"] /\ disk'[s] = mem'[s]
    BY <1>t, <2>1
  <2>4. Succeeds(mem'[s], s) /\ mem'[s].out = mem[s].out /\ Done(mem'[s])
    BY <1>t, <2>1, <2>3 DEF Succeeds, Done, SessionRecords
  <2>5. \A x \in Sessions \ {s} : mem'[x] = mem[x] /\ disk'[x] = disk[x]
    BY <1>t, <2>1
  <2> QED
    BY <2>3, <2>4, <2>5, OldRecords DEF Carried, FinishedKept
<1>4. ASSUME NEW s \in Sessions, Begin(s) PROVE Carried
  <2> DEFINE group == Waiting(mem[s].key)
             present == group \cap Parts(audio[mem[s].key])
             add == {x \in group \ present : "aac" \in dir[x]}
             failed == group \ (add \cup present)
  <2>1. \/ RenameGroup(mem[s].key, group, {})
        \/ RenameGroup(mem[s].key, group, failed)
        \/ mem' = Failing(failed) /\ disk' = Saved(group)
    BY <1>4 DEF Begin
  <2>2. failed \subseteq group /\ \A x \in group : Done(mem[x])
    BY DEF Waiting, Done
  <2> HIDE DEF group, failed
  <2>3. CASE mem' = Failing(failed) /\ disk' = Saved(group)
    <3>1. ASSUME NEW x \in Sessions PROVE Advances(x)
      <4>1. mem'[x] = mem[x] \/ (Done(mem[x]) /\ mem'[x] = [mem[x] EXCEPT !.state = "failed"])
        BY <2>2, <2>3 DEF Failing
      <4> QED
        BY <4>1, OldRecords DEF Advances
    <3> QED
      BY <2>3, <3>1, SavedCarries
  <2> QED
    BY <2>1, <2>2, <2>3, RenameCarries
<1>5. ASSUME NEW s \in Sessions, KeepBegin(s) PROVE Carried
  <2>1. CASE "aac" \in dir[s]
    BY <1>5, <2>1, UnchangedCarries DEF KeepBegin
  <2>2. CASE ~("aac" \in dir[s])
    <3> DEFINE a == mem[s].out \/ "m4a" \in dir[s]
               b == mem[s].vout \/ ("mp4" \in dir[s] /\ captured[s] # "off")
    <3>1. a \in BOOLEAN /\ (mem[s].out => a)
      BY <1>t DEF SessionRecords
    <3>2. mem' = [mem EXCEPT ![s].state = "kept", ![s].out = a, ![s].vout = b] /\ disk' = Saved({s})
          /\ Done(mem[s])
      BY <1>5, <2>2 DEF KeepBegin, Done
    <3> HIDE DEF a, b
    <3>3. mem'[s] = [mem[s] EXCEPT !.state = "kept", !.out = a, !.vout = b]
      BY <1>t, <3>2
    <3>4. Advances(s)
      BY <1>t, <3>1, <3>2, <3>3 DEF Advances, Succeeds, Done, SessionRecords
    <3>5. \A x \in Sessions \ {s} : mem'[x] = mem[x]
      BY <1>t, <3>2
    <3>6. \A x \in Sessions : Advances(x)
      BY <3>4, <3>5, OldRecords DEF Advances
    <3> QED
      BY <3>2, <3>6, SavedCarries
  <2> QED
    BY <2>1, <2>2
<1>6. CASE Converge
  BY <1>6 DEF Converge, ConvergeFinishes, Finishing, Converged
<1>7. CASE HeadVideo
  <2>1. RenameGroup(att.key, att.group, {}) \/ UNCHANGED <<mem, disk>>
    BY <1>7 DEF HeadVideo
  <2> QED
    BY <1>t, <2>1, RenameCarries, UnchangedCarries
<1>8. CASE RemuxFails
  BY <1>8, <1>t, RenameCarries, UnchangedCarries DEF RemuxFails
<1>9. CASE PutAudio
  BY <1>9, UnchangedCarries DEF PutAudio, PutFinishes, Finishing
<1>10. CASE Fallback
  <2>1. \/ RenameGroup(att.key, att.group, {})
        \/ /\ Ours(audio[RawKey]) /\ att.add \subseteq Parts(audio[RawKey])
           /\ CompleteGroup(att.add, RawKey, Dropped) /\ UNCHANGED disk
        \/ UNCHANGED <<mem, disk>>
    BY <1>10 DEF Fallback, RawKey, Dropped
  <2> QED
    BY <1>10, <1>t, <2>1, RenameCarries, UnchangedCarries DEF FallbackFinishes, Finishing
<1>11. CASE RecordUpload
  <2>1. UNCHANGED mem /\ (UNCHANGED disk \/ \E x \in att.todo : disk' = [disk EXCEPT ![x] = mem[x]])
    BY <1>11 DEF RecordUpload
  <2>2. \A x \in Sessions : disk'[x] = disk[x] \/ disk'[x] = mem[x]
    BY <1>t, <2>1
  <2> QED
    BY <2>1, <2>2, OldRecords DEF Carried, FinishedKept
<1>12. CASE Recorded \/ KeepBuild
  <2>1. \/ UNCHANGED <<mem, disk>>
        \/ /\ \E S : disk' = Saved(S)
           /\ UNCHANGED mem \/ \E z \in {"waiting", "kept"} : mem' = [mem EXCEPT ![att.own].state = z]
    BY <1>12 DEF Recorded, KeepBuild
  <2>2. CASE UNCHANGED mem \/ \E z \in {"waiting", "kept"} : mem' = [mem EXCEPT ![att.own].state = z]
    <3>1. ASSUME NEW x \in Sessions PROVE Advances(x)
      <4>1. mem'[x] = mem[x] \/ (Done(mem[x]) /\ \E z \in {"waiting", "kept"} : mem'[x] = [mem[x] EXCEPT !.state = z])
        BY <1>t, <2>2
      <4> QED
        BY <4>1, OldRecords DEF Advances
    <3> QED
      BY <2>1, <3>1, SavedCarries, UnchangedCarries
  <2> QED
    BY <2>1, <2>2, UnchangedCarries
<1>13. CASE KeepSave
  <2> DEFINE s == att.own
             r == [mem[s] EXCEPT !.state = "kept", !.out = TRUE]
             vo == att.got = "stored"
             ve == att.got = "gaveup"
             q == [r EXCEPT !.vout = vo, !.verr = ve]
  <2>1. ASSUME s \in Sessions
        PROVE  Succeeds(r, s) /\ Succeeds(q, s) /\ Done(r) /\ Done(q) /\ r.out = TRUE /\ q.out = TRUE
    BY <1>t, <2>1 DEF SessionRecords, Succeeds, Done
  <2>2. mem' = [mem EXCEPT ![s] = IF captured[s] = "off" THEN r ELSE q]
    BY <1>13 DEF KeepSave
  <2>3. disk' = Saved({s}) \/ UNCHANGED disk
    BY <1>13 DEF KeepSave
  <2> HIDE DEF s, r, q
  <2>4. \A x \in Sessions : Advances(x)
    BY <1>t, <2>1, <2>2, OldRecords DEF Advances
  <2>5. CASE UNCHANGED disk
    BY <2>4, <2>5, OldRecords DEF Carried, Advances, FinishedKept
  <2> QED
    BY <2>3, <2>4, <2>5, SavedCarries
<1>14. CASE Restart
  BY <1>14, RestartCarries
<1>15. CASE SpaceForVideo \/ NoSpaceForVideo \/ NoVideoBuild \/ BuildVideo \/ BuildVideoFails \/ PutVideo \/ PutDoc
            \/ RemoveCapture \/ RemovePictures \/ KeepVideo \/ KeepRename \/ Interrupted \/ ForeignPut
  BY <1>15, UnchangedCarries DEF SpaceForVideo, NoSpaceForVideo, NoVideoBuild, BuildVideo, BuildVideoFails, PutVideo,
     PutDoc, RemoveCapture, RemovePictures, KeepVideo, KeepRename, Interrupted, ForeignPut
<1> QED
  BY <1>1, <1>2, <1>3, <1>4, <1>5, <1>6, <1>7, <1>8, <1>9, <1>10, <1>11, <1>12, <1>13, <1>14, <1>15
     DEF Next, AttemptStep, vars

\* What one step does to the attempt: it ends, it goes on with what Begin
\* fixed, or a new one begins.
Continues == /\ att'.own = att.own /\ att'.key = att.key /\ att'.group = att.group /\ att'.add = att.add
             /\ att'.present = att.present /\ att'.remote = att.remote
             /\ att'.todo \subseteq att.todo \cup att.add \cup att.present
             /\ att'.cur \in {att.cur, Nobody} \cup att.todo

LEMMA AttemptGoesOn ==
  ASSUME Typed, [Next]_vars
  PROVE  \/ Return
         \/ Continues
         \/ \E s \in Sessions : Begin(s) /\ pc' \in {"converge", "headvideo", "build"}
         \/ \E s \in Sessions : KeepBegin(s) /\ pc' = "keep"
<1>t. att \in Attempts
  BY DEF Typed
<1>1. ASSUME UNCHANGED att PROVE Continues
  BY <1>1, <1>t DEF Continues, Attempts
<1>2. CASE (\E s \in Sessions : Begin(s)) \/ HeadVideo \/ RemuxFails \/ Fallback
  <2>1. \/ Return \/ UNCHANGED att
        \/ \E s \in Sessions : Begin(s) /\ pc' \in {"converge", "headvideo", "build"}
        \/ \E p, v : att' = [att EXCEPT !.plan = p, !.seen = v]
        \/ \E p, v, n : att' = [att EXCEPT !.plan = p, !.seen = v, !.skip = n]
        \/ att' = [att EXCEPT !.plan = "none"]
        \/ att' = [att EXCEPT !.todo = att.add]
        \/ \E k, g : att' = [att EXCEPT !.dest = k, !.got = g]
    <3>1. CASE \E s \in Sessions : Begin(s)
      BY <3>1 DEF Begin, RenameGroup
    <3>2. CASE HeadVideo
      BY <3>2 DEF HeadVideo, RenameGroup
    <3>3. CASE RemuxFails
      BY <3>3 DEF RemuxFails, RenameGroup
    <3>4. CASE Fallback
      BY <3>4 DEF Fallback, RenameGroup, CompleteGroup
    <3> QED
      BY <1>2, <3>1, <3>2, <3>3, <3>4
  <2>2. ASSUME NEW p, NEW v, att' = [att EXCEPT !.plan = p, !.seen = v] PROVE Continues
    BY <2>2, <1>t DEF Continues, Attempts
  <2>3. ASSUME NEW p, NEW v, NEW n, att' = [att EXCEPT !.plan = p, !.seen = v, !.skip = n] PROVE Continues
    BY <2>3, <1>t DEF Continues, Attempts
  <2>4. ASSUME att' = [att EXCEPT !.plan = "none"] PROVE Continues
    BY <2>4, <1>t DEF Continues, Attempts
  <2>5. ASSUME att' = [att EXCEPT !.todo = att.add] PROVE Continues
    BY <2>5, <1>t DEF Continues, Attempts
  <2>6. ASSUME NEW k, NEW g, att' = [att EXCEPT !.dest = k, !.got = g] PROVE Continues
    BY <2>6, <1>t DEF Continues, Attempts
  <2>7. ASSUME UNCHANGED att PROVE Continues
    BY <2>7, <1>1
  <2> QED
    BY <2>1, <2>2, <2>3, <2>4, <2>5, <2>6, <2>7
<1>3. CASE Converge \/ PutAudio
  <2>1. Return \/ att' = [att EXCEPT !.todo = att.present] \/ att' = [att EXCEPT !.todo = att.add \cup att.present]
    BY <1>3 DEF Converge, PutAudio, CompleteGroup
  <2> QED
    BY <2>1, <1>t DEF Continues, Attempts
<1>4. CASE RecordUpload
  <2>1. PICK x \in att.todo : \/ att' = [att EXCEPT !.todo = att.todo \ {x}, !.cur = x]
                              \/ att' = [att EXCEPT !.todo = att.todo \ {x}, !.lost = TRUE]
    BY <1>4 DEF RecordUpload
  <2>2. CASE att' = [att EXCEPT !.todo = att.todo \ {x}, !.cur = x]
    BY <2>1, <2>2, <1>t DEF Continues, Attempts
  <2>3. CASE att' = [att EXCEPT !.todo = att.todo \ {x}, !.lost = TRUE]
    BY <2>1, <2>3, <1>t DEF Continues, Attempts
  <2> QED
    BY <2>1, <2>2, <2>3
<1>5. CASE NoSpaceForVideo \/ NoVideoBuild \/ BuildVideo \/ BuildVideoFails \/ PutVideo \/ RemovePictures \/ KeepVideo
  <2>1. \/ Return \/ (\E g : att' = [att EXCEPT !.got = g]) \/ (\E v : att' = [att EXCEPT !.built = v])
        \/ att' = [att EXCEPT !.cur = Nobody] \/ UNCHANGED att
    BY <1>5 DEF NoSpaceForVideo, NoVideoBuild, BuildVideo, BuildVideoFails, PutVideo, RemovePictures, KeepVideo
  <2> QED
    BY <2>1, <1>t DEF Continues, Attempts
<1>6. CASE \E s \in Sessions : StartSession(s) \/ Finalize(s) \/ KeepBegin(s)
  BY <1>1, <1>6 DEF StartSession, Finalize, KeepBegin
<1>7. CASE SpaceForVideo \/ PutDoc \/ RemoveCapture \/ Recorded \/ KeepBuild \/ KeepRename \/ KeepSave
           \/ Interrupted \/ Restart \/ ForeignPut
  BY <1>1, <1>7 DEF SpaceForVideo, PutDoc, RemoveCapture, Recorded, KeepBuild, KeepRename, KeepSave,
     Interrupted, Restart, ForeignPut
<1> QED
  BY <1>1, <1>2, <1>3, <1>4, <1>5, <1>6, <1>7 DEF Next, AttemptStep, vars

\* Files of a capture go only where the code removes them.
LEMMA FilesStay ==
  ASSUME Typed, [Next]_vars, NEW x \in Sessions
  PROVE  /\ "aac" \in dir[x] => "aac" \in dir'[x] \/ (pc = "aac" /\ x = att.cur)
         /\ "m4a" \in dir[x] => "m4a" \in dir'[x] \/ ("aac" \in dir'[x] /\ ~Done(mem[x]))
<1>t. dir \in [Sessions -> SUBSET {"aac", "ts", "m4a", "mp4"}]
  BY DEF Typed, TypeOK
<1>1. CASE \E s \in Sessions : Finalize(s)
  BY <1>1, <1>t DEF Finalize, Done
<1>2. CASE RemoveCapture \/ RemovePictures \/ KeepVideo \/ KeepRename
  BY <1>2, <1>t DEF RemoveCapture, RemovePictures, KeepVideo, KeepRename
<1>3. CASE UNCHANGED dir
  BY <1>3
<1> QED
  BY <1>1, <1>2, <1>3 DEF Next, AttemptStep, vars, StartSession, Begin, KeepBegin, Converge, HeadVideo,
     SpaceForVideo, NoSpaceForVideo, NoVideoBuild, BuildVideo, BuildVideoFails, PutVideo, PutDoc, PutAudio,
     Fallback, RecordUpload, Recorded, KeepBuild, KeepSave, RemuxFails, Interrupted, Restart, ForeignPut

\* What completeGroup is called for is in the object under the key it writes
\* to the records.
LEMMA FinishedAreHeld ==
  ASSUME Typed, GroupFinished, PresentStored, KeyRemembered, [Next]_vars,
         ConvergeFinishes \/ PutFinishes \/ FallbackFinishes
  PROVE  \E members \in SUBSET att.group, k \in Keys, got \in Verdicts :
           Finishing(members, k, got) /\ \A x \in members : Held(k, x)'
<1>k. /\ att.key \in Keys /\ att.dest \in Keys /\ RawKey \in Keys /\ Target \in Seq(Sessions)
      /\ audio \in [Keys -> AudioObjects]
      /\ att.add \subseteq att.group /\ att.present \subseteq att.group /\ att.got \in Verdicts
  BY SequencesOfObjects DEF RawKey, Keys, GroupFinished, Typed, Attempts, Verdicts
<1>1. CASE ConvergeFinishes
  <2>1. PICK k \in Keys : k = att.key
    BY <1>k
  <2>2. \A x \in att.present : Held(k, x)'
    BY <2>1, HeldStays DEF PresentStored
  <2> QED
    BY <1>1, <1>k, <2>1, <2>2 DEF ConvergeFinishes, Converged, Verdicts
<1>2. CASE PutFinishes
  <2>1. audio'[att.dest] = [by |-> "us", parts |-> Target]
    <3>1. pc' = "record"
      BY <1>2 DEF PutFinishes, Finishing, CompleteGroup
    <3> QED
      BY <1>2, <1>k, <3>1 DEF PutFinishes, PutAudio, Return
  <2>k. PICK k \in Keys : k = att.dest
    BY <1>k
  <2>2. ASSUME NEW x \in att.add \cup att.present PROVE Held(k, x)'
    <3>1. \E i \in 1 .. Len(Target) : Target[i] = x
      <4>1. CASE x \in att.add
        BY <4>1, TargetHolds DEF Typed
      <4>2. CASE x \in att.present
        BY <4>2, TargetHolds DEF Typed, PresentStored
      <4> QED
        BY <4>1, <4>2
    <3>2. DOMAIN Target = 1 .. Len(Target)
      BY <1>k
    <3> QED
      BY <2>1, <2>k, <3>1, <3>2 DEF Held, Parts, Ours
  <2> QED
    BY <1>2, <1>k, <2>k, <2>2 DEF PutFinishes
<1>3. CASE FallbackFinishes
  <2>1. PICK k \in Keys : k = RawKey
    BY <1>k
  <2>2. \A x \in att.add : Held(k, x)'
    BY <1>3, <2>1, HeldStays DEF FallbackFinishes, Held
  <2> QED
    BY <1>3, <1>k, <2>1, <2>2 DEF FallbackFinishes, Dropped, Verdicts
<1> QED
  BY <1>1, <1>2, <1>3

-----------------------------------------------------------------------------
\* Each part of AudioInv is kept by every step.

LEMMA StoredStays ==
  ASSUME Typed, KeyRemembered, [Next]_vars, NEW x, Stored(x)
  PROVE  Stored(x)'
<1>1. PICK k \in Keys : Held(k, x)
  BY DEF Stored
<1>2. Held(k, x)'
  BY <1>1, HeldStays
<1> QED
  BY <1>2 DEF Stored

LEMMA FinishedKeptStep ==
  ASSUME Typed, AudioInv, [Next]_vars
  PROVE  FinishedKept'
<1> USE DEF AudioInv
<1> SUFFICES ASSUME NEW x \in Sessions
             PROVE  /\ Done(mem'[x]) \/ Done(disk'[x]) => Kept(x)'
                    /\ disk'[x].out => mem'[x].out
  BY DEF FinishedKept, Done
<1>1. /\ Done(mem'[x]) \/ Done(disk'[x]) => Done(mem[x]) \/ Done(disk[x]) \/ "aac" \in dir'[x]
      /\ disk[x].out => disk'[x].out
      /\ disk'[x].out => mem'[x].out
  <2>1. CASE Carried
    BY <2>1 DEF Carried, Succeeds
  <2>2. CASE ConvergeFinishes \/ PutFinishes \/ FallbackFinishes
    <3>1. PICK members \in SUBSET att.group, k \in Keys, got \in Verdicts : Finishing(members, k, got)
      BY <2>2, FinishedAreHeld
    <3>2. /\ mem'[x] = (IF x \in members THEN Completed(x, k, got) ELSE mem[x])
          /\ disk'[x] = disk[x]
      BY <3>1 DEF Finishing, CompleteGroup
    <3>3. x \in members => Done(mem[x])
      BY DEF GroupFinished
    <3>4. Completed(x, k, got).out = mem[x].out
      BY CompletedTyped
    <3> QED
      BY <3>2, <3>3, <3>4 DEF FinishedKept
  <2> QED
    BY <2>1, <2>2, StepShape
<1>2. Done(mem[x]) \/ Done(disk[x]) => Kept(x)'
  <2> SUFFICES ASSUME Done(mem[x]) \/ Done(disk[x]) PROVE Kept(x)'
    OBVIOUS
  <2>1. Kept(x)
    BY DEF FinishedKept
  <2>2. CASE Stored(x)
    BY <2>2, StoredStays DEF Kept
  <2>3. CASE "m4a" \in dir[x] /\ disk[x].out
    BY <1>1, <2>3, FilesStay DEF Kept
  <2>4. CASE "aac" \in dir[x]
    <3>1. CASE "aac" \in dir'[x]
      BY <3>1 DEF Kept
    <3>2. CASE pc = "aac" /\ x = att.cur
      <4>1. Stored(x) \/ ("m4a" \in dir[x] /\ disk[x].out)
        BY <3>2 DEF RemovalRight
      <4> QED
        BY <2>2, <2>3, <4>1
    <3> QED
      BY <2>4, <3>1, <3>2, FilesStay
  <2> QED
    BY <2>1, <2>2, <2>3, <2>4 DEF Kept
<1>3. "aac" \in dir'[x] => Kept(x)'
  BY DEF Kept
<1> QED
  BY <1>1, <1>2, <1>3

LEMMA KeysRightStep ==
  ASSUME Typed, AudioInv, [Next]_vars
  PROVE  KeysRight'
<1> USE DEF AudioInv
<1>1. ASSUME NEW k \in Keys, ~Ours(audio'[k]) PROVE audio'[k].parts = <<>>
  <2>1. audio \in [Keys -> AudioObjects]
    BY DEF Typed
  <2>2. audio'[k] = audio[k] \/ audio'[k] = [by |-> "us", parts |-> Target] \/ audio'[k] = [audio[k] EXCEPT !.by = "foreign"]
    <3>1. CASE ForeignPut \/ PutAudio
      BY <2>1, <3>1 DEF ForeignPut, PutAudio
    <3>2. CASE ~(ForeignPut \/ PutAudio)
      <4>1. UNCHANGED audio
        BY <3>2 DEF Next, AttemptStep, vars, store, StartSession, Finalize, Begin, KeepBegin, Converge,
           HeadVideo, SpaceForVideo, NoSpaceForVideo, NoVideoBuild, BuildVideo, BuildVideoFails, PutVideo,
           PutDoc, Fallback, RecordUpload, RemoveCapture, RemovePictures, Recorded, KeepBuild, KeepVideo,
           KeepRename, KeepSave, RemuxFails, Interrupted, Restart
      <4> QED
        BY <4>1
    <3> QED
      BY <3>1, <3>2
  <2>3. ~Ours(audio[k]) /\ audio'[k].parts = audio[k].parts
    BY <1>1, <2>1, <2>2, HeldStays DEF Ours, AudioObjects
  <2> QED
    BY <2>3 DEF KeysRight
<1>2. ASSUME NEW x \in Sessions, NEW n \in {mem'[x], disk'[x]}, n.key.raw PROVE Held(n.key, x)'
  <2>1. CASE Carried
    <3>1. n.key = mem[x].key \/ n.key = disk[x].key
      BY <1>2, <2>1 DEF Carried, Succeeds
    <3>2. n.key \in Keys /\ Held(n.key, x)
      BY <1>2, <3>1 DEF KeysRight, Typed, TypeOK, SessionRecords
    <3>3. PICK k \in Keys : k = n.key
      BY <3>2
    <3>4. Held(k, x)'
      BY <3>2, <3>3, HeldStays
    <3> QED
      BY <3>3, <3>4 DEF Held
  <2>2. CASE ConvergeFinishes \/ PutFinishes \/ FallbackFinishes
    <3>1. PICK members \in SUBSET att.group, k \in Keys, got \in Verdicts : Finishing(members, k, got) /\ \A y \in members : Held(k, y)'
      BY <2>2, FinishedAreHeld
    <3>2. /\ mem'[x] = (IF x \in members THEN Completed(x, k, got) ELSE mem[x])
          /\ disk'[x] = disk[x]
      BY <3>1 DEF Finishing, CompleteGroup
    <3>3. CASE x \in members /\ n = mem'[x]
      BY <3>1, <3>2, <3>3, CompletedTyped DEF Held
    <3>4. CASE n = mem[x] \/ n = disk[x]
      <4>1. n.key \in Keys /\ Held(n.key, x)
        BY <1>2, <3>4 DEF KeysRight, Typed, TypeOK, SessionRecords
      <4>2. PICK h \in Keys : h = n.key
        BY <4>1
      <4>3. Held(h, x)'
        BY <4>1, <4>2, HeldStays
      <4> QED
        BY <4>2, <4>3 DEF Held
    <3> QED
      BY <3>2, <3>3, <3>4
  <2> QED
    BY <2>1, <2>2, StepShape
<1> QED
  BY <1>1, <1>2 DEF KeysRight, Held

LEMMA DoneStays ==
  ASSUME Typed, AudioInv, [Next]_vars, ~Restart, NEW x \in Sessions, Done(mem[x])
  PROVE  Done(mem'[x])
<1> USE DEF AudioInv
<1>1. CASE Carried
  BY <1>1 DEF Carried
<1>2. CASE ConvergeFinishes \/ PutFinishes \/ FallbackFinishes
  <2>1. PICK members \in SUBSET att.group, k \in Keys, got \in Verdicts : Finishing(members, k, got)
    BY <1>2, FinishedAreHeld
  <2>2. mem'[x] = IF x \in members THEN Completed(x, k, got) ELSE mem[x]
    BY <2>1 DEF Finishing, CompleteGroup
  <2> QED
    BY <2>2, CompletedTyped DEF Done
<1> QED
  BY <1>1, <1>2, StepShape

\* What an idle attempt says nothing about.
LEMMA IdleFields ==
  Return => /\ att'.group = {} /\ att'.add = {} /\ att'.present = {} /\ att'.todo = {}
            /\ att'.own \notin Sessions /\ att'.cur \notin Sessions /\ pc' = "idle"
            /\ att'.seen = NoVideo
BY SessionsAssumption DEF Return, Idle

\* What Begin fixes, when it goes on.
PresentOf(k) == Waiting(k) \cap Parts(audio[k])
AddOf(k) == {x \in Waiting(k) \ PresentOf(k) : "aac" \in dir[x]}

LEMMA BeginFixes ==
  ASSUME Typed, NEW s \in Sessions, Begin(s), pc' \in {"converge", "headvideo", "build"},
         NEW k, k = mem[s].key
  PROVE  /\ k \in Keys /\ s \in Waiting(k) /\ Waiting(k) \in SUBSET Sessions
         /\ audio[k].by # "foreign"
         /\ AddOf(k) # {} /\ Ours(audio[k]) => CondWrites
         /\ att' = [Idle EXCEPT !.own = s, !.key = k, !.dest = k, !.group = Waiting(k), !.add = AddOf(k),
                                !.present = PresentOf(k), !.remote = audio[k].parts]
         /\ pc' = CASE AddOf(k) = {} -> "converge"
                    [] AddOf(k) # {} /\ WithVideo(Waiting(k)) -> "headvideo"
                    [] OTHER -> "build"
         /\ UNCHANGED <<captured, dir, store>>
<1>1. k \in Keys /\ Waiting(k) \in SUBSET Sessions /\ s \in Waiting(k)
  BY DEF Typed, TypeOK, SessionRecords, Waiting, Begin
<1>2. ~Return
  BY DEF Return
<1>3. /\ audio[k].by # "foreign" /\ (AddOf(k) # {} /\ Ours(audio[k]) => CondWrites)
      /\ att' = [Idle EXCEPT !.own = s, !.key = k, !.dest = k, !.group = Waiting(k), !.add = AddOf(k),
                             !.present = PresentOf(k), !.remote = audio[k].parts]
      /\ pc' = CASE AddOf(k) = {} -> "converge"
                 [] AddOf(k) # {} /\ WithVideo(Waiting(k)) -> "headvideo"
                 [] OTHER -> "build"
      /\ UNCHANGED <<captured, dir, store>>
  BY <1>2 DEF Begin, RenameGroup, PresentOf, AddOf
<1> QED
  BY <1>1, <1>3

\* The same by fields.
LEMMA BegunFields ==
  ASSUME Typed, NEW s \in Sessions, Begin(s), pc' \in {"converge", "headvideo", "build"},
         NEW k, k = mem[s].key
  PROVE  /\ att'.own = s /\ att'.key = k /\ att'.dest = k /\ att'.group = Waiting(k) /\ att'.add = AddOf(k)
         /\ att'.present = PresentOf(k) /\ att'.remote = audio[k].parts
         /\ att'.plan = "none" /\ att'.seen = NoVideo /\ att'.skip = 0 /\ att'.got = "none"
         /\ att'.todo = {} /\ att'.cur \notin Sessions
<1>1. /\ Idle \in Attempts /\ Idle.plan = "none" /\ Idle.seen = NoVideo /\ Idle.skip = 0 /\ Idle.got = "none"
      /\ Idle.todo = {} /\ Idle.cur \notin Sessions
  BY IdleTyped, SessionsAssumption DEF Idle
<1> DEFINE group == Waiting(k)
           add == AddOf(k)
           present == PresentOf(k)
           remote == audio[k].parts
<1>2. att' = [Idle EXCEPT !.own = s, !.key = k, !.dest = k, !.group = group, !.add = add,
                          !.present = present, !.remote = remote]
  BY BeginFixes
<1> HIDE DEF group, add, present, remote
<1>3. /\ att'.own = s /\ att'.key = k /\ att'.dest = k /\ att'.group = group /\ att'.add = add
      /\ att'.present = present /\ att'.remote = remote
      /\ att'.plan = "none" /\ att'.seen = NoVideo /\ att'.skip = 0 /\ att'.got = "none"
      /\ att'.todo = {} /\ att'.cur \notin Sessions
  BY <1>1, <1>2 DEF Attempts
<1> QED
  BY <1>3 DEF group, add, present, remote

LEMMA KeepBegunFields ==
  ASSUME NEW s \in Sessions, KeepBegin(s), pc' = "keep"
  PROVE  /\ att'.own = s /\ att'.cur = s /\ att'.group = {} /\ att'.add = {} /\ att'.present = {} /\ att'.todo = {}
         /\ att'.seen = NoVideo /\ mem'[s] = mem[s]
<1>1. /\ Idle \in Attempts /\ Idle.group = {} /\ Idle.add = {} /\ Idle.present = {} /\ Idle.todo = {}
      /\ Idle.seen = NoVideo
  BY IdleTyped DEF Idle
<1>2. att' = [Idle EXCEPT !.own = s, !.cur = s] /\ mem' = mem
  BY DEF KeepBegin
<1> QED
  BY <1>1, <1>2 DEF Attempts

LEMMA GroupFinishedStep ==
  ASSUME Typed, AudioInv, [Next]_vars
  PROVE  GroupFinished'
<1>1. CASE Return
  BY <1>1, IdleFields DEF GroupFinished
<1>2. CASE Continues /\ ~Return
  <2>1. ~Restart
    BY <1>2 DEF Restart
  <2>2. \A x \in Sessions : Done(mem[x]) => Done(mem'[x])
    BY <2>1, DoneStays
  <2>3. att.group \subseteq Sessions /\ att.todo \subseteq att.group
    BY DEF Typed, Attempts, AudioInv, GroupFinished
  <2>4. Nobody \notin Sessions
    BY SessionsAssumption
  <2>5. \A x \in att'.group : Done(mem'[x])
    BY <1>2, <2>2, <2>3 DEF Continues, AudioInv, GroupFinished
  <2>6. att'.own \in Sessions => Done(mem'[att'.own])
    BY <1>2, <2>2 DEF Continues, AudioInv, GroupFinished
  <2>7. att'.cur \in Sessions => Done(mem'[att'.cur])
    BY <1>2, <2>2, <2>3, <2>4 DEF Continues, AudioInv, GroupFinished
  <2>8. att'.add \cup att'.present \cup att'.todo \subseteq att'.group
    BY <1>2 DEF Continues, AudioInv, GroupFinished
  <2> QED
    BY <2>5, <2>6, <2>7, <2>8 DEF GroupFinished, Done
<1>3. ASSUME NEW s \in Sessions, Begin(s), pc' \in {"converge", "headvideo", "build"} PROVE GroupFinished'
  <2> DEFINE k == mem[s].key
  <2>1. /\ att'.own = s /\ att'.group = Waiting(k) /\ att'.add = AddOf(k) /\ att'.present = PresentOf(k)
        /\ att'.todo = {} /\ att'.cur \notin Sessions
    BY <1>3, BegunFields
  <2>2. s \in Waiting(k) /\ Waiting(k) \subseteq Sessions
    BY <1>3, BeginFixes
  <2> HIDE DEF k
  <2>3. AddOf(k) \cup PresentOf(k) \subseteq Waiting(k)
    BY DEF AddOf, PresentOf
  <2>4. \A x \in Waiting(k) : Done(mem[x])
    BY DEF Waiting, Done
  <2>5. ~Restart
    BY <1>3 DEF Restart, Return
  <2>6. \A x \in Waiting(k) : Done(mem'[x])
    BY <2>2, <2>4, <2>5, DoneStays
  <2> QED
    BY <2>1, <2>2, <2>3, <2>6 DEF GroupFinished, Done
<1>4. ASSUME NEW s \in Sessions, KeepBegin(s), pc' = "keep" PROVE GroupFinished'
  <2>1. Done(mem[s])
    BY <1>4 DEF KeepBegin, Done
  <2> QED
    BY <1>4, <2>1, KeepBegunFields DEF GroupFinished, Done
<1> QED
  BY <1>1, <1>2, <1>3, <1>4, AttemptGoesOn

LEMMA PresentStoredStep ==
  ASSUME Typed, AudioInv, [Next]_vars
  PROVE  PresentStored'
<1> USE DEF AudioInv
<1> SUFFICES ASSUME NEW x \in att'.present
             PROVE  Ours(audio'[att'.key]) /\ x \in Parts(audio'[att'.key]) /\ \E i \in DOMAIN att'.remote : att'.remote[i] = x
  BY DEF PresentStored, Held, Parts, Ours
<1>1. CASE Return
  BY <1>1, IdleFields
<1>2. CASE Continues
  <2>1. PICK k \in Keys : k = att.key
    BY DEF Typed, Attempts
  <2>2. Held(k, x)'
    BY <1>2, <2>1, HeldStays DEF Continues, PresentStored
  <2> QED
    BY <1>2, <2>1, <2>2 DEF Continues, PresentStored, Held, Parts, Ours
<1>3. ASSUME NEW s \in Sessions, Begin(s), pc' \in {"converge", "headvideo", "build"}
      PROVE  Ours(audio'[att'.key]) /\ x \in Parts(audio'[att'.key]) /\ \E i \in DOMAIN att'.remote : att'.remote[i] = x
  <2> DEFINE k == mem[s].key
  <2>1. att'.key = k /\ att'.present = PresentOf(k) /\ att'.remote = audio[k].parts
    BY <1>3, BegunFields
  <2>2. k \in Keys /\ audio' = audio
    BY <1>3, BeginFixes DEF store
  <2> HIDE DEF k
  <2>3. \E i \in DOMAIN audio[k].parts : audio[k].parts[i] = x
    BY <2>1 DEF PresentOf, Parts
  <2>4. Ours(audio[k])
    BY <2>2, <2>3 DEF KeysRight
  <2> QED
    BY <2>1, <2>2, <2>3, <2>4 DEF Parts
<1>4. ASSUME NEW s \in Sessions, KeepBegin(s), pc' = "keep" PROVE FALSE
  BY <1>4, KeepBegunFields
<1> QED
  BY <1>1, <1>2, <1>3, <1>4, AttemptGoesOn

\* An attempt that goes on with the same destination, or falls back.
LEMMA KeyRememberedStep ==
  ASSUME Typed, AudioInv, [Next]_vars
  PROVE  KeyRemembered'
<1> USE DEF AudioInv
<1>k. att \in Attempts /\ att.key \in Keys /\ att.dest \in Keys /\ RawKey \in Keys
  BY DEF Typed, Attempts, Keys, RawKey
<1>1. CASE pc' \notin Uploading
  BY <1>1 DEF KeyRemembered
<1>2. CASE PutAudio
  <2>1. pc' \notin Uploading
    BY <1>2 DEF PutAudio, CompleteGroup, Return, Uploading
  <2> QED
    BY <1>1, <2>1
<1>3. ASSUME NEW s \in Sessions, Begin(s), pc' \in {"converge", "headvideo", "build"} PROVE KeyRemembered'
  <2> DEFINE k == mem[s].key
  <2>1. /\ att'.key = k /\ att'.dest = k /\ att'.remote = audio[k].parts /\ att'.plan = "none"
    BY <1>3, BegunFields
  <2>2. /\ k \in Keys /\ audio' = audio /\ (AddOf(k) # {} /\ Ours(audio[k]) => CondWrites)
        /\ pc' # "converge" => AddOf(k) # {}
        /\ pc' # "fallback"
    BY <1>3, BeginFixes DEF store
  <2>3. AddOf(k) # {} => k.raw = FALSE
    <3> SUFFICES ASSUME NEW x \in AddOf(k), k.raw PROVE FALSE
      BY <2>2 DEF Keys
    <3>1. x \in Sessions /\ mem[x].key = k /\ x \in Waiting(k) /\ x \notin PresentOf(k)
      BY DEF AddOf, Waiting
    <3>2. Held(k, x)
      BY <3>1 DEF KeysRight
    <3> QED
      BY <3>1, <3>2 DEF Held, PresentOf
  <2> HIDE DEF k
  <2> QED
    BY <2>1, <2>2, <2>3 DEF KeyRemembered, Ours
<1>4. CASE Fallback /\ pc' = "doc"
  <2>1. audio[RawKey].by = "none" /\ audio' = audio /\ (\E g : att' = [att EXCEPT !.dest = RawKey, !.got = g]) /\ pc = "fallback"
    BY <1>4 DEF Fallback, RenameGroup, Return, CompleteGroup, RawKey, store
  <2>2. att'.dest = RawKey /\ att'.key = att.key /\ att'.remote = att.remote /\ att'.plan = att.plan
    BY <1>k, <2>1 DEF Attempts
  <2>3. att.key.raw = FALSE /\ att.remote = <<>> /\ att.plan = "none" /\ (Ours(audio[att.key]) => audio[att.key].parts = att.remote)
    BY <2>1 DEF KeyRemembered, Uploading
  <2> QED
    BY <1>4, <2>1, <2>2, <2>3 DEF KeyRemembered, RawKey, Ours, WithCompanion
<1>5. ASSUME pc \in Uploading, ~PutAudio, att'.key = att.key, att'.dest = att.dest, att'.remote = att.remote,
             pc = "converge" => pc' = "converge",
             pc' \in WithCompanion \cup {"converge", "fallback"} => pc \in WithCompanion \cup {"converge", "fallback"},
             att'.plan = att.plan \/ (pc \in WithCompanion /\ pc' # "fallback") \/ att'.plan = "none",
             pc' \in {"converge", "fallback"} => att'.plan = "none" /\ (pc = pc' \/ att.remote = <<>>)
      PROVE  KeyRemembered'
  <2>1. \A k \in Keys : Ours(audio'[k]) => Ours(audio[k]) /\ audio'[k] = audio[k]
    BY <1>5, HeldStays DEF Ours
  <2>2. Ours(audio'[att.key]) => audio'[att.key].parts = att.remote
    BY <1>k, <1>5, <2>1 DEF KeyRemembered
  <2>3. ~CondWrites /\ pc' # "converge" => ~Ours(audio'[att.dest])
    BY <1>k, <1>5, <2>1 DEF KeyRemembered
  <2>4. pc \in WithCompanion => att.dest = att.key
    BY <1>5 DEF KeyRemembered
  <2>5. pc' # "converge" => att.key.raw = FALSE
    BY <1>5 DEF KeyRemembered
  <2>6. att.dest # att.key => att.remote = <<>> /\ att'.plan = "none" /\ att.dest = RawKey
    BY <1>5, <2>4 DEF KeyRemembered, RawKey
  <2>7. pc' = "fallback" => att.remote = <<>>
    BY <1>5 DEF KeyRemembered
  <2>8. pc' \in WithCompanion \cup {"converge", "fallback"} => att.dest = att.key
    BY <1>5 DEF KeyRemembered
  <2> QED
    BY <1>5, <2>2, <2>3, <2>5, <2>6, <2>7, <2>8 DEF KeyRemembered, RawKey, Ours
<1>6. CASE UNCHANGED <<pc, att>> /\ ~PutAudio /\ pc \in Uploading
  <2>1. pc' = pc /\ att'.key = att.key /\ att'.dest = att.dest /\ att'.remote = att.remote /\ att'.plan = att.plan
    BY <1>6
  <2>2. pc \in {"converge", "fallback"} => att.plan = "none"
    BY <1>6 DEF KeyRemembered
  <2> QED
    BY <1>5, <1>6, <2>1, <2>2
<1>7. CASE HeadVideo /\ pc' \in Uploading
  <2>1. /\ pc = "headvideo" /\ pc' \in {"build", "space"} /\ ~PutAudio
        /\ \/ \E p, v : att' = [att EXCEPT !.plan = p, !.seen = v]
           \/ \E p, v, n : att' = [att EXCEPT !.plan = p, !.seen = v, !.skip = n]
    BY <1>7 DEF HeadVideo, RenameGroup, Return, Uploading, PutAudio
  <2>2. att'.key = att.key /\ att'.dest = att.dest /\ att'.remote = att.remote
    BY <1>k, <2>1 DEF Attempts
  <2> QED
    BY <1>5, <2>1, <2>2 DEF WithCompanion, Uploading
<1>8. CASE (SpaceForVideo \/ NoSpaceForVideo \/ NoVideoBuild \/ BuildVideo \/ BuildVideoFails \/ PutVideo \/ PutDoc)
           /\ pc' \in Uploading
  <2>1. /\ pc \in {"space", "build", "putvideo", "doc"} /\ pc' \in {"build", "putvideo", "doc", "put"} /\ ~PutAudio
        /\ pc = "doc" => pc' = "put"
        /\ UNCHANGED att \/ (\E g : att' = [att EXCEPT !.got = g]) \/ (\E v : att' = [att EXCEPT !.built = v])
    BY <1>8 DEF SpaceForVideo, NoSpaceForVideo, NoVideoBuild, BuildVideo, BuildVideoFails, PutVideo, PutDoc,
       Return, Uploading, PutAudio
  <2>2. att'.key = att.key /\ att'.dest = att.dest /\ att'.remote = att.remote /\ att'.plan = att.plan
    BY <1>k, <2>1 DEF Attempts
  <2> QED
    BY <1>5, <2>1, <2>2 DEF WithCompanion, Uploading
<1>9. CASE RemuxFails /\ pc' \in Uploading
  <2>1. pc = "build" /\ pc' = "fallback" /\ att.remote = <<>> /\ att' = [att EXCEPT !.plan = "none"] /\ ~PutAudio
    BY <1>9 DEF RemuxFails, RenameGroup, Return, Uploading, PutAudio
  <2>2. att'.key = att.key /\ att'.dest = att.dest /\ att'.remote = att.remote /\ att'.plan = "none"
    BY <1>k, <2>1 DEF Attempts
  <2> QED
    BY <1>5, <2>1, <2>2 DEF WithCompanion, Uploading
<1>10. CASE \E s \in Sessions : StartSession(s) \/ Finalize(s) \/ KeepBegin(s)
  <2>1. UNCHANGED <<pc, att>> \/ pc' = "keep"
    BY <1>10 DEF StartSession, Finalize, KeepBegin
  <2>2. pc' = "keep" => pc' \notin Uploading
    BY DEF Uploading
  <2> QED
    BY <1>1, <1>2, <1>6, <2>1, <2>2
<1>11. CASE ForeignPut \/ UNCHANGED vars
  <2>1. UNCHANGED <<pc, att>>
    BY <1>11 DEF ForeignPut, vars
  <2> QED
    BY <1>1, <1>2, <1>6, <2>1
<1>12. CASE Converge \/ RecordUpload \/ RemoveCapture \/ RemovePictures \/ Recorded \/ KeepBuild \/ KeepVideo
            \/ KeepRename \/ KeepSave \/ Interrupted \/ Restart
  <2>1. pc' \notin Uploading
    BY <1>12 DEF Converge, RecordUpload, RemoveCapture, RemovePictures, Recorded, KeepBuild, KeepVideo, KeepRename,
       KeepSave, Interrupted, Restart, CompleteGroup, Return, Uploading
  <2> QED
    BY <1>1, <2>1
<1>13. CASE Fallback /\ pc' # "doc"
  <2>1. pc' \notin Uploading
    BY <1>13 DEF Fallback, RenameGroup, CompleteGroup, Return, Uploading
  <2> QED
    BY <1>1, <2>1
<1>14. ASSUME NEW s \in Sessions, Begin(s), pc' \in Uploading PROVE pc' \in {"converge", "headvideo", "build"}
  BY <1>14 DEF Begin, RenameGroup, Return, Uploading
<1> QED
  BY <1>1, <1>2, <1>3, <1>4, <1>7, <1>8, <1>9, <1>10, <1>11, <1>12, <1>13, <1>14 DEF Next, AttemptStep

LEMMA RemovalRightStep ==
  ASSUME Typed, AudioInv, [Next]_vars
  PROVE  RemovalRight'
<1> USE DEF AudioInv
<1>t. /\ att \in Attempts /\ att.todo \subseteq Sessions
      /\ dir \in [Sessions -> SUBSET {"aac", "ts", "m4a", "mp4"}]
      /\ mem \in [Sessions -> SessionRecords] /\ disk \in [Sessions -> SessionRecords]
  BY DEF Typed, TypeOK, Attempts
<1>s. \A x : Stored(x) => Stored(x)'
  BY StoredStays
<1>1. CASE ConvergeFinishes \/ PutFinishes \/ FallbackFinishes
  <2>1. PICK members \in SUBSET att.group, k \in Keys, got \in Verdicts : Finishing(members, k, got) /\ \A y \in members : Held(k, y)'
    BY <1>1, FinishedAreHeld
  <2>2. pc' = "record" /\ att' = [att EXCEPT !.todo = members]
    BY <2>1 DEF Finishing, CompleteGroup
  <2>3. att'.todo = members
    BY <1>t, <2>2 DEF Attempts
  <2>4. \A x \in att'.todo : Stored(x)'
    BY <2>1, <2>3 DEF Stored
  <2> QED
    BY <2>2, <2>4 DEF RemovalRight, Keeping, Stored, Held, Parts, Ours
<1>2. CASE pc' \notin {"record", "aac", "ts"} \cup Keeping
  BY <1>2 DEF RemovalRight, Keeping
<1>3. CASE UNCHANGED <<pc, att>> /\ Carried
  <2>1. pc \in {"record", "aac", "ts"} => \A x \in att.todo : Stored(x)'
    BY <1>s DEF RemovalRight
  <2>2. ASSUME pc = "aac" PROVE att.cur \in Sessions /\ (Stored(att.cur)' \/ ("m4a" \in dir'[att.cur] /\ disk'[att.cur].out))
    <3>1. att.cur \in Sessions /\ Done(mem[att.cur])
      BY <2>2 DEF RemovalRight, GroupFinished
    <3>2. PICK x \in Sessions : x = att.cur
      BY <3>1
    <3>3. Stored(x) => Stored(x)'
      BY <1>s
    <3>4. "m4a" \in dir[x] /\ disk[x].out => ("m4a" \in dir'[x] \/ "aac" \in dir'[x]) /\ disk'[x].out
      BY <1>3, FilesStay DEF Carried
    <3>5. "m4a" \in dir[x] => "m4a" \in dir'[x]
      BY <3>1, <3>2, FilesStay
    <3> QED
      BY <1>3, <2>2, <3>1, <3>2, <3>3, <3>4, <3>5 DEF RemovalRight, Stored, Held, Parts, Ours
  <2>3. pc = "keepsave" => "m4a" \in dir'[att.own]
    <3> SUFFICES ASSUME pc = "keepsave" PROVE "m4a" \in dir'[att.own]
      OBVIOUS
    <3>1. att.own \in Sessions /\ "m4a" \in dir[att.own] /\ Done(mem[att.own])
      BY DEF RemovalRight, Keeping, GroupFinished
    <3> QED
      BY <3>1, FilesStay
  <2> QED
    BY <1>3, <2>1, <2>2, <2>3 DEF RemovalRight, Stored, Held, Parts, Ours
<1>4. CASE RecordUpload
  <2>1. PICK x \in att.todo : /\ pc = "record"
                              /\ \/ att' = [att EXCEPT !.todo = att.todo \ {x}, !.cur = x] /\ pc' = "aac"
                                 \/ att' = [att EXCEPT !.todo = att.todo \ {x}, !.lost = TRUE] /\ pc' = "record"
    BY <1>4 DEF RecordUpload
  <2>2. att'.todo = att.todo \ {x} /\ (pc' = "aac" => att'.cur = x) /\ pc' \in {"aac", "record"}
    <3>1. CASE att' = [att EXCEPT !.todo = att.todo \ {x}, !.cur = x] /\ pc' = "aac"
      BY <1>t, <3>1 DEF Attempts
    <3>2. CASE att' = [att EXCEPT !.todo = att.todo \ {x}, !.lost = TRUE] /\ pc' = "record"
      BY <1>t, <3>2 DEF Attempts
    <3> QED
      BY <2>1, <3>1, <3>2
  <2>3. \A y \in att.todo : Stored(y)'
    BY <1>s, <2>1 DEF RemovalRight
  <2>4. x \in Sessions
    BY <1>t
  <2> QED
    BY <2>1, <2>2, <2>3, <2>4 DEF RemovalRight, Keeping, Stored, Held, Parts, Ours
<1>5. CASE (RemoveCapture \/ RemovePictures) /\ pc' # "idle"
  <2>1. pc \in {"aac", "ts"} /\ pc' \in {"ts", "record"} /\ (UNCHANGED att \/ att' = [att EXCEPT !.cur = Nobody])
    BY <1>5 DEF RemoveCapture, RemovePictures, Return
  <2>2. att'.todo = att.todo
    BY <1>t, <2>1 DEF Attempts
  <2>3. \A y \in att.todo : Stored(y)'
    BY <1>s, <2>1 DEF RemovalRight
  <2> QED
    BY <2>1, <2>2, <2>3 DEF RemovalRight, Keeping, Stored, Held, Parts, Ours
<1>6. CASE (KeepBuild \/ KeepVideo \/ KeepRename) /\ pc' # "idle"
  <2>1. pc \in Keeping /\ pc' \in Keeping /\ (UNCHANGED att \/ \E g : att' = [att EXCEPT !.got = g])
        /\ (pc' = "keepsave" => dir' = [dir EXCEPT ![att.own] = @ \cup {"m4a"}])
    BY <1>6 DEF KeepBuild, KeepVideo, KeepRename, Return, Keeping
  <2>2. att'.own = att.own /\ att'.cur = att.cur /\ att'.todo = att.todo
    BY <1>t, <2>1 DEF Attempts
  <2>3. att.own \in Sessions /\ att.cur = att.own /\ att.todo = {}
    BY <2>1 DEF RemovalRight
  <2>4. pc' = "keepsave" => "m4a" \in dir'[att.own]
    BY <1>t, <2>1, <2>3
  <2> QED
    BY <2>1, <2>2, <2>3, <2>4 DEF RemovalRight, Keeping
<1>7. CASE KeepSave /\ pc' # "idle"
  <2> DEFINE s == att.own
  <2>1. s \in Sessions /\ att.cur = s /\ att.todo = {} /\ "m4a" \in dir[s]
    BY <1>7 DEF KeepSave, RemovalRight, Keeping
  <2>2. pc' = "aac" /\ UNCHANGED <<att, dir>> /\ disk' = Saved({s})
    BY <1>7 DEF KeepSave, Return
  <2>3. mem'[s].out
    <3> DEFINE r == [mem[s] EXCEPT !.state = "kept", !.out = TRUE]
               vo == att.got = "stored"
               ve == att.got = "gaveup"
               q == [r EXCEPT !.vout = vo, !.verr = ve]
    <3>1. mem' = [mem EXCEPT ![s] = IF captured[s] = "off" THEN r ELSE q]
      BY <1>7 DEF KeepSave
    <3>2. r.out = TRUE /\ q.out = TRUE
      BY <1>t, <2>1 DEF SessionRecords
    <3> HIDE DEF r, q
    <3> QED
      BY <1>t, <2>1, <3>1, <3>2
  <2>4. disk'[s].out
    BY <2>1, <2>2, <2>3 DEF Saved
  <2> QED
    BY <2>1, <2>2, <2>4 DEF RemovalRight, Keeping
<1>8. ASSUME NEW s \in Sessions, KeepBegin(s), pc' = "keep" PROVE RemovalRight'
  BY <1>8, KeepBegunFields DEF RemovalRight, Keeping
<1>9. CASE UNCHANGED <<pc, att>>
  BY <1>1, <1>3, <1>9, StepShape
<1>10. CASE \E s \in Sessions : StartSession(s) \/ Finalize(s) \/ KeepBegin(s)
  BY <1>8, <1>9, <1>10 DEF StartSession, Finalize, KeepBegin
<1>11. CASE ForeignPut \/ UNCHANGED vars
  BY <1>9, <1>11 DEF ForeignPut, vars
<1>12. CASE Converge \/ PutAudio \/ Fallback
  <2>1. CASE pc' = "record"
    BY <1>1, <1>12, <2>1 DEF Converge, PutAudio, Fallback, RenameGroup, Return, ConvergeFinishes, PutFinishes,
       FallbackFinishes, Finishing, Converged, RawKey, Dropped
  <2>2. CASE pc' # "record"
    <3>1. pc' \in {"idle", "doc"}
      BY <1>12, <2>2 DEF Converge, PutAudio, Fallback, RenameGroup, CompleteGroup, Return
    <3> QED
      BY <1>2, <3>1 DEF Keeping
  <2> QED
    BY <2>1, <2>2
<1>13. CASE pc' = "idle"
  BY <1>2, <1>13 DEF Keeping
<1>14. CASE (\E s \in Sessions : Begin(s)) \/ HeadVideo \/ RemuxFails \/ Interrupted \/ Restart \/ Recorded
            \/ SpaceForVideo \/ NoSpaceForVideo \/ NoVideoBuild \/ BuildVideo \/ BuildVideoFails \/ PutVideo \/ PutDoc
  <2>1. pc' \in {"idle", "converge", "headvideo", "space", "build", "fallback", "putvideo", "doc", "put"}
    BY <1>14 DEF Begin, HeadVideo, RemuxFails, Interrupted, Restart, Recorded, SpaceForVideo, NoSpaceForVideo,
       NoVideoBuild, BuildVideo, BuildVideoFails, PutVideo, PutDoc, RenameGroup, Return
  <2> QED
    BY <1>2, <2>1 DEF Keeping
<1> QED
  BY <1>4, <1>5, <1>6, <1>7, <1>10, <1>11, <1>12, <1>13, <1>14 DEF Next, AttemptStep

-----------------------------------------------------------------------------
\* The .mp4 and what the records say of it.

LEMMA VideoSteps ==
  ASSUME Typed, [Next]_vars
  PROVE  /\ captured' = captured
         /\ \A g \in Gens :
              /\ Ours(video[g]) \/ Ours(video'[g]) =>
                   video'[g] = video[g] \/ (PutVideo /\ g = att.key.gen /\ video'[g] = att.built)
              /\ video[g].by = "foreign" =>
                   video'[g] = video[g] \/ (PutVideo /\ g = att.key.gen /\ MayPutVideo)
<1>t. video \in [Gens -> VideoObjects] /\ att.key.gen \in Gens
  BY SequencesOfObjects DEF Typed
<1>1. CASE PutVideo
  <2>1. captured' = captured /\ (UNCHANGED video \/ (MayPutVideo /\ video' = [video EXCEPT ![att.key.gen] = att.built]))
    BY <1>1 DEF PutVideo
  <2> QED
    BY <1>t, <1>1, <2>1
<1>2. CASE ForeignPut
  <2>1. captured' = captured
        /\ \/ UNCHANGED video
           \/ \E h \in Gens : video[h].by = "none" /\ video' = [video EXCEPT ![h].by = "foreign"]
    BY <1>2 DEF ForeignPut
  <2> QED
    BY <1>t, <2>1 DEF Ours, VideoObjects
<1>3. CASE ~PutVideo /\ ~ForeignPut
  <2>1. UNCHANGED <<captured, video>>
    BY <1>3 DEF Next, AttemptStep, vars, store, StartSession, Finalize, Begin, KeepBegin, Converge, PutAudio,
       HeadVideo, SpaceForVideo, NoSpaceForVideo, NoVideoBuild, BuildVideo, BuildVideoFails,
       PutDoc, Fallback, RecordUpload, RemoveCapture, RemovePictures, Recorded, KeepBuild, KeepVideo,
       KeepRename, KeepSave, RemuxFails, Interrupted, Restart
  <2> QED
    BY <2>1
<1> QED
  BY <1>1, <1>2, <1>3

\* The sessions of the .m4a are part of what the attempt builds.
LEMMA TargetCovers ==
  ASSUME Typed, KeyRemembered, PresentStored, pc \in Uploading, pc # "converge"
  PROVE  /\ att.key = M4A(att.key.gen)
         /\ \A x : Held(att.key, x) => \E i \in DOMAIN Target : Target[i] = x
         /\ \A x \in att.add \cup att.present : \E i \in DOMAIN Target : Target[i] = x
<1>1. att.key \in Keys /\ att.key.raw = FALSE /\ Target \in Seq(Sessions)
  BY SequencesOfObjects DEF KeyRemembered
<1>2. DOMAIN Target = 1 .. Len(Target)
  BY <1>1
<1>3. ASSUME NEW x, Held(att.key, x) PROVE \E i \in DOMAIN att.remote : att.remote[i] = x
  BY <1>3 DEF Held, Parts, KeyRemembered
<1>4. \A x : (\E i \in DOMAIN att.remote : att.remote[i] = x) => \E i \in DOMAIN Target : Target[i] = x
  BY <1>2, TargetHolds DEF Typed
<1>5. \A x \in att.add : \E i \in DOMAIN Target : Target[i] = x
  BY <1>2, TargetHolds DEF Typed
<1> QED
  BY <1>1, <1>3, <1>4, <1>5 DEF M4A, Keys, PresentStored

LEMMA InVideoStays ==
  ASSUME Typed, AudioInv, PlanRight, [Next]_vars, NEW x, InVideo(x)
  PROVE  InVideo(x)'
<1> USE DEF AudioInv
<1>1. PICK g \in Gens : Ours(video[g]) /\ x \in Parts(video[g]) /\ Held(M4A(g), x)
  BY DEF InVideo
<1>2. M4A(g) \in Keys
  BY DEF M4A, Keys
<1>3. Held(M4A(g), x)'
  <2>1. PICK k \in Keys : k = M4A(g)
    BY <1>2
  <2>2. Held(k, x)'
    BY <1>1, <2>1, HeldStays
  <2> QED
    BY <2>1, <2>2 DEF Held, M4A
<1>4. Ours(video'[g]) /\ x \in Parts(video'[g])
  <2>1. CASE video'[g] = video[g]
    BY <1>1, <2>1
  <2>2. CASE PutVideo /\ g = att.key.gen /\ video'[g] = att.built
    <3>1. pc = "putvideo" /\ att.built.by = "us" /\ att.built.parts = Target
      BY <2>2 DEF PutVideo, PlanRight
    <3>2. M4A(g) = att.key /\ \E i \in DOMAIN Target : Target[i] = x
      BY <1>1, <2>2, <3>1, TargetCovers DEF Uploading
    <3> QED
      BY <2>2, <3>1, <3>2 DEF Ours, Parts
  <2> QED
    BY <1>1, <2>1, <2>2, VideoSteps
<1> QED
  BY <1>3, <1>4 DEF InVideo, Ours, Parts

\* completeGroup marks a session only where it is shown, and never forgets to
\* say why it is not.
LEMMA FinishedAreMarked ==
  ASSUME Typed, AudioInv, PlanRight, [Next]_vars, ConvergeFinishes \/ PutFinishes \/ FallbackFinishes
  PROVE  \E members \in SUBSET att.group, k \in Keys, got \in Verdicts :
           /\ Finishing(members, k, got)
           /\ \A x \in members : /\ got = "stored" \/ (got = "gaveup" /\ x \in VideoHeld) => InVideo(x)'
                                 /\ captured[x] # "off" => got \in {"stored", "gaveup"}
<1> USE DEF AudioInv
<1>k. /\ att.key \in Keys /\ att.dest \in Keys /\ RawKey \in Keys /\ Target \in Seq(Sessions)
      /\ att.key.gen \in Gens /\ att.add \subseteq att.group /\ att.present \subseteq att.group
      /\ att.got \in Verdicts
  BY SequencesOfObjects DEF RawKey, Keys, GroupFinished, Typed, Attempts, Verdicts
<1>w. \A x \in att.group : captured[x] # "off" => WithVideo(att.group)
  BY DEF WithVideo
<1>1. CASE ConvergeFinishes
  <2>1. pc = "converge" /\ att.plan = "none" /\ Finishing(att.present, att.key, Converged)
    BY <1>1 DEF ConvergeFinishes, Converge, KeyRemembered, Uploading
  <2>2. VideoHeld = {}
    BY <2>1 DEF VideoHeld
  <2>3. ASSUME NEW x \in att.present, Converged = "stored" PROVE InVideo(x)
    <3>1. Ours(VideoAt(att.key)) /\ VideoAt(att.key).parts = att.remote
      BY <2>3 DEF Converged
    <3>2. att.key.raw = FALSE /\ VideoAt(att.key) = video[att.key.gen]
      BY <1>k, <3>1 DEF VideoAt, Ours, NoVideo, Keys
    <3>3. att.key = M4A(att.key.gen)
      BY <1>k, <3>2 DEF Keys, M4A
    <3> QED
      BY <1>k, <3>1, <3>2, <3>3 DEF PresentStored, InVideo, Parts
  <2>4. Converged \in {"none", "stored", "gaveup"} /\ (WithVideo(att.group) => Converged # "none")
    BY DEF Converged
  <2>5. \A x \in att.present : Converged = "stored" => InVideo(x)'
    BY <2>3, InVideoStays
  <2> QED
    BY <1>k, <1>w, <2>1, <2>2, <2>4, <2>5 DEF Verdicts
<1>2. CASE PutFinishes
  <2> DEFINE members == att.add \cup att.present
  <2>1. pc = "put" /\ pc' = "record" /\ Finishing(members, att.dest, att.got)
    BY <1>2 DEF PutFinishes, PutAudio, Finishing, CompleteGroup
  <2>2. audio'[att.dest] = [by |-> "us", parts |-> Target] /\ video' = video
    BY <1>2, <1>k, <2>1 DEF PutAudio, PutFinishes, Return, Typed
  <2>3. WithVideo(att.group) => att.got # "none"
    BY <2>1 DEF PlanRight
  <2>4. ASSUME NEW x \in members, att.got = "stored" \/ (att.got = "gaveup" /\ x \in VideoHeld) PROVE InVideo(x)'
    <3>1. Ours(video[att.key.gen]) /\ x \in Parts(video[att.key.gen]) /\ att.dest = att.key
      <4>1. \E i \in DOMAIN Target : Target[i] = x
        BY <2>1, TargetCovers DEF Uploading
      <4>2. CASE att.got = "stored"
        BY <2>1, <4>1, <4>2 DEF PlanRight, Uploading, Parts
      <4>3. CASE att.got = "gaveup" /\ x \in VideoHeld
        <5>1. att.plan = "extend"
          BY <4>3 DEF VideoHeld
        <5> QED
          BY <2>1, <4>3, <5>1 DEF PlanRight, KeyRemembered, Uploading
      <4> QED
        BY <2>4, <4>2, <4>3
    <3>2. att.key = M4A(att.key.gen) /\ \E i \in DOMAIN Target : Target[i] = x
      BY <2>1, TargetCovers DEF Uploading
    <3>3. PICK g \in Gens : g = att.key.gen
      BY <1>k
    <3>4. Held(M4A(g), x)'
      <4>1. M4A(g) = att.dest
        BY <3>1, <3>2, <3>3
      <4>2. audio'[M4A(g)] = [by |-> "us", parts |-> Target]
        BY <2>2, <4>1
      <4> QED
        BY <3>2, <4>2 DEF Held, Parts, Ours, M4A
    <3> QED
      BY <2>2, <3>1, <3>3, <3>4 DEF InVideo, Parts, Ours
  <2> QED
    BY <1>k, <1>w, <2>1, <2>3, <2>4 DEF Verdicts
<1>3. CASE FallbackFinishes
  <2>1. pc = "fallback" /\ att.plan = "none" /\ Finishing(att.add, RawKey, Dropped)
    BY <1>3 DEF FallbackFinishes, Fallback, KeyRemembered, Uploading
  <2>2. VideoHeld = {} /\ Dropped # "stored" /\ (WithVideo(att.group) => Dropped = "gaveup")
    BY <2>1 DEF VideoHeld, Dropped
  <2> QED
    <3>1. Dropped \in Verdicts
      BY DEF Dropped, Verdicts
    <3> QED
      BY <1>k, <1>w, <2>1, <2>2, <3>1 DEF Verdicts
<1> QED
  BY <1>1, <1>2, <1>3

LEMMA MarksRightStep ==
  ASSUME Typed, AudioInv, PlanRight, MarksRight, [Next]_vars
  PROVE  MarksRight'
<1> USE DEF AudioInv
<1>1. ASSUME NEW x \in Sessions, NEW n \in {mem'[x], disk'[x]}
      PROVE  /\ n.vup => InVideo(x)'
             /\ captured[x] # "off" /\ n.state = "uploaded" => n.vup \/ n.verr
  <2>1. mem[x].vup \/ disk[x].vup => InVideo(x)'
    BY InVideoStays DEF MarksRight
  <2>2. CASE Succeeds(n, x)
    <3>1. n.vup => InVideo(x)'
      BY <2>1, <2>2 DEF Succeeds
    <3>2. ASSUME captured[x] # "off", n.state = "uploaded" PROVE n.vup \/ n.verr
      <4>1. PICK r \in {mem[x], disk[x]} : r.state = "uploaded" /\ (r.vup => n.vup) /\ (r.verr => n.verr)
        BY <2>2, <3>2 DEF Succeeds
      <4>2. r.vup \/ r.verr
        BY <3>2, <4>1 DEF MarksRight
      <4> QED
        BY <4>1, <4>2
    <3> QED
      BY <3>1, <3>2
  <2>3. CASE ConvergeFinishes \/ PutFinishes \/ FallbackFinishes
    <3>1. PICK members \in SUBSET att.group, k \in Keys, got \in Verdicts :
            /\ Finishing(members, k, got)
            /\ \A y \in members : /\ got = "stored" \/ (got = "gaveup" /\ y \in VideoHeld) => InVideo(y)'
                                  /\ captured[y] # "off" => got \in {"stored", "gaveup"}
      BY <2>3, FinishedAreMarked
    <3>2. /\ mem'[x] = (IF x \in members THEN Completed(x, k, got) ELSE mem[x])
          /\ disk'[x] = disk[x]
      BY <3>1 DEF Finishing, CompleteGroup
    <3>3. CASE n = mem[x] \/ n = disk[x]
      BY <2>1, <3>3 DEF MarksRight
    <3>4. CASE x \in members /\ n = Completed(x, k, got)
      BY <2>1, <3>1, <3>4, CompletedTyped
    <3> QED
      BY <3>2, <3>3, <3>4
  <2> QED
    BY <2>2, <2>3, StepShape DEF Carried
<1> QED
  BY <1>1, VideoSteps DEF MarksRight, InVideo, Held, Parts, Ours, M4A

\* What an .mp4 that starts like the Target shows already covers VideoHeld.
LEMMA HeldByPrefix ==
  ASSUME Typed, PresentStored, NEW n \in Prefixes, NEW o, o.parts = SubSeq(Target, 1, n)
  PROVE  att.present \cup FirstOf(att.add, n - Base) \subseteq Parts(o)
<1>1. /\ Target \in Seq(Sessions) /\ Base \in Nat /\ Len(Target) = Base + Cardinality(att.add)
      /\ Cardinality(att.add) \in Nat
      /\ \A i \in 1 .. Cardinality(att.add) : Target[Base + i] = InOrder(att.add)[i]
      /\ att.remote \in Seq(Sessions)
  BY TargetLists DEF Typed, Attempts
<1>2. n \in Nat /\ Base <= n /\ n < Len(Target)
  BY <1>1 DEF Prefixes
<1> DEFINE T == Target
<1>3. T \in Seq(Sessions) /\ n <= Len(T)
  BY <1>1, <1>2
<1> HIDE DEF T
<1>4. Len(SubSeq(T, 1, n)) = n /\ \A i \in 1 .. n : SubSeq(T, 1, n)[i] = T[i]
  BY <1>2, <1>3
<1>5. \A i \in 1 .. n : i \in DOMAIN o.parts /\ o.parts[i] = Target[i]
  <2>1. DOMAIN SubSeq(T, 1, n) = 1 .. n
    BY <1>2, <1>3
  <2> QED
    BY <1>4, <2>1 DEF T
<1>6. ASSUME NEW x \in att.present PROVE x \in Parts(o)
  <2>1. PICK i \in DOMAIN att.remote : att.remote[i] = x
    BY DEF PresentStored
  <2>2. Target[i] = x /\ i \in 1 .. Base
    BY <1>1, <2>1, TargetHolds DEF Base, Typed
  <2>3. i \in 1 .. n
    BY <1>1, <1>2, <2>2
  <2> QED
    BY <1>5, <2>2, <2>3 DEF Parts
<1>7. ASSUME NEW x \in FirstOf(att.add, n - Base) PROVE x \in Parts(o)
  <2>1. PICK i \in 1 .. (n - Base) : InOrder(att.add)[i] = x
    BY <1>7 DEF FirstOf
  <2>2. i \in 1 .. Cardinality(att.add) /\ Base + i \in 1 .. n
    BY <1>1, <1>2, <2>1
  <2> QED
    BY <1>1, <1>5, <2>1, <2>2 DEF Parts
<1> QED
  BY <1>6, <1>7

\* An attempt is over only because it returned.
LEMMA IdleOnlyAfterReturn ==
  ASSUME [Next]_vars, pc' = "idle"
  PROVE  Return \/ UNCHANGED <<pc, att>>
<1>1. CASE Converge \/ PutAudio \/ PutVideo \/ PutDoc \/ Fallback \/ RecordUpload \/ RemoveCapture \/ RemovePictures
  BY <1>1 DEF Converge, PutAudio, PutVideo, PutDoc, Fallback, RecordUpload, RemoveCapture, RemovePictures, RenameGroup,
     CompleteGroup
<1>2. CASE HeadVideo \/ SpaceForVideo \/ NoSpaceForVideo \/ NoVideoBuild \/ BuildVideo \/ BuildVideoFails
  BY <1>2 DEF HeadVideo, SpaceForVideo, NoSpaceForVideo, NoVideoBuild, BuildVideo, BuildVideoFails, RenameGroup
<1>3. CASE Recorded \/ KeepBuild \/ KeepVideo \/ KeepRename \/ KeepSave \/ RemuxFails \/ Interrupted \/ Restart
  BY <1>3 DEF Recorded, KeepBuild, KeepVideo, KeepRename, KeepSave, RemuxFails, Interrupted, Restart, RenameGroup
<1>4. CASE \E s \in Sessions : Begin(s) \/ KeepBegin(s)
  BY <1>4 DEF Begin, KeepBegin, RenameGroup
<1>5. CASE UNCHANGED <<pc, att>>
  BY <1>5
<1> QED
  BY <1>1, <1>2, <1>3, <1>4, <1>5 DEF Next, AttemptStep, vars, StartSession, Finalize, ForeignPut

LEMMA PlanRightStep ==
  ASSUME Typed, AudioInv, PlanRight, [Next]_vars
  PROVE  PlanRight'
<1> USE DEF AudioInv
<1>k. att \in Attempts /\ att.key \in Keys /\ att.dest \in Keys /\ att.key.gen \in Gens /\ captured' = captured
  BY SequencesOfObjects, VideoSteps DEF Typed
<1>1. ASSUME pc' \notin Uploading, att'.seen.by # "foreign" PROVE PlanRight'
  BY <1>1 DEF PlanRight, Uploading, WithCompanion
<1>2. ASSUME pc \in Uploading, pc' \in Uploading, ~PutVideo, att'.key = att.key, att'.group = att.group,
             att'.add = att.add, att'.present = att.present, att'.remote = att.remote,
             att'.skip = att.skip, att'.seen = att.seen,
             att'.plan = att.plan \/ att'.plan = "none",
             att'.dest = att.dest \/ (att'.plan = "none" /\ att'.got # "stored"),
             att'.got = "stored" => pc' \in {"doc", "put"} /\ (att.plan = "reuse" \/ (pc \in {"doc", "put"} /\ att.got = "stored")),
             att.got = "stored" => att'.got = "stored",
             pc' = "putvideo" => att'.built.by = "us" /\ att'.built.parts = Target,
             pc' \in {"space", "build", "putvideo"} => pc \in {"space", "build", "putvideo"} /\ att'.plan = att.plan,
             pc' \in {"doc", "put"} /\ WithVideo(att.group) => att'.got # "none",
             att'.got = "stored" => att'.dest = att.dest
      PROVE  PlanRight'
  <2>1. Target' = Target /\ (att'.plan = "extend" => VideoHeld' = VideoHeld) /\ WithVideo(att.group)' = WithVideo(att.group)
    BY <1>2, <1>k DEF Target, VideoHeld, WithVideo, FirstOf, InOrder
  <2>2. Ours(video[att.key.gen]) => video'[att.key.gen] = video[att.key.gen]
    BY <1>2, <1>k, VideoSteps
  <2>3. pc' \in Uploading /\ att'.plan = "extend" /\ att'.got # "stored" =>
          Ours(video'[att.key.gen]) /\ VideoHeld' \subseteq Parts(video'[att.key.gen])
    BY <1>2, <2>1, <2>2 DEF PlanRight
  <2>4. pc' \in Uploading /\ (att'.plan = "reuse" \/ (pc' \in {"doc", "put"} /\ att'.got = "stored")) =>
          Ours(video'[att.key.gen]) /\ video'[att.key.gen].parts = Target /\ att'.dest = att.key
    BY <1>2, <2>2 DEF PlanRight
  <2>5. pc' \in {"space", "build", "putvideo"} /\ WithVideo(att.group) => att'.plan # "none"
    BY <1>2 DEF PlanRight
  <2>6. pc' \in WithCompanion \cup {"converge", "fallback"} => att'.got # "stored"
    BY <1>2 DEF WithCompanion
  <2>7. att'.seen.by # "foreign"
    BY <1>2 DEF PlanRight
  <2> HIDE DEF Uploading
  <2> QED
    BY <1>2, <2>1, <2>3, <2>4, <2>5, <2>6, <2>7 DEF PlanRight, Ours, Parts, WithVideo
<1>3. ASSUME NEW s \in Sessions, Begin(s), pc' \in {"converge", "headvideo", "build"} PROVE PlanRight'
  <2> DEFINE k == mem[s].key
  <2>1. /\ att'.plan = "none" /\ att'.seen = NoVideo /\ att'.got = "none" /\ att'.group = Waiting(k)
    BY <1>3, BegunFields
  <2>2. pc' = "build" => ~WithVideo(Waiting(k))
    BY <1>3, BeginFixes
  <2> HIDE DEF k
  <2>3. pc' = "build" => ~WithVideo(att.group)'
    BY <1>k, <2>1, <2>2 DEF WithVideo
  <2> QED
    BY <1>3, <2>1, <2>3 DEF PlanRight, NoVideo, WithCompanion, Uploading, WithVideo
<1>4. ASSUME NEW s \in Sessions, KeepBegin(s), pc' = "keep" PROVE PlanRight'
  BY <1>1, <1>4, KeepBegunFields DEF NoVideo, Uploading
<1>5. CASE Return
  BY <1>1, <1>5, IdleFields DEF NoVideo, Uploading
<1>6. CASE UNCHANGED <<pc, att>> /\ ~PutVideo
  <2>1. CASE pc \in Uploading
    <3>1. /\ pc' = pc /\ att'.key = att.key /\ att'.group = att.group /\ att'.add = att.add
          /\ att'.present = att.present /\ att'.remote = att.remote /\ att'.skip = att.skip /\ att'.seen = att.seen
          /\ att'.plan = att.plan /\ att'.dest = att.dest /\ att'.got = att.got /\ att'.built = att.built
      BY <1>6
    <3>2. /\ att.got = "stored" => pc \in {"doc", "put"}
          /\ pc = "putvideo" => att.built.by = "us" /\ att.built.parts = Target
          /\ pc \in {"doc", "put"} /\ WithVideo(att.group) => att.got # "none"
      BY <2>1 DEF PlanRight, Uploading, WithCompanion
    <3> QED
      BY <1>2, <1>6, <2>1, <3>1, <3>2
  <2>2. CASE pc \notin Uploading
    BY <1>1, <1>6, <2>2 DEF PlanRight
  <2> QED
    BY <2>1, <2>2
<1>7. CASE HeadVideo /\ pc' # "idle"
  <2> DEFINE o == VideoAt(att.key)
  <2>1. /\ pc = "headvideo" /\ o.by # "foreign" /\ video' = video
        /\ \/ /\ Ours(o) /\ o.parts = Target
              /\ att' = [att EXCEPT !.plan = "reuse", !.seen = o]
           \/ /\ Ours(o)
              /\ \E n \in Prefixes : o.parts = SubSeq(Target, 1, n)
                                     /\ att' = [att EXCEPT !.plan = "extend", !.seen = o, !.skip = n - Base]
           \/ att' = [att EXCEPT !.plan = "fresh", !.seen = o]
        /\ pc' \in {"build", "space"}
    BY <1>7 DEF HeadVideo, RenameGroup, Return, store
  <2>2. /\ att.dest = att.key /\ att.got # "stored" /\ o = video[att.key.gen]
    BY <2>1 DEF KeyRemembered, PlanRight, Uploading, WithCompanion, VideoAt
  <2> HIDE DEF o
  <2>3. /\ att'.key = att.key /\ att'.add = att.add /\ att'.present = att.present /\ att'.remote = att.remote
        /\ att'.dest = att.dest /\ att'.got = att.got /\ att'.seen = o
        /\ att'.plan \in {"reuse", "extend", "fresh"}
    BY <1>k, <2>1 DEF Attempts
  <2>4. Target' = Target
    BY <2>3 DEF Target, InOrder
  <2>5. att'.plan = "reuse" => Ours(o) /\ o.parts = Target
    BY <1>k, <2>1 DEF Attempts
  <2>6. att'.plan = "extend" => Ours(o) /\ VideoHeld' \subseteq Parts(o)
    <3> SUFFICES ASSUME att'.plan = "extend" PROVE Ours(o) /\ VideoHeld' \subseteq Parts(o)
      OBVIOUS
    <3>1. /\ Ours(o)
          /\ \E n \in Prefixes : o.parts = SubSeq(Target, 1, n)
                                 /\ att' = [att EXCEPT !.plan = "extend", !.seen = o, !.skip = n - Base]
      BY <1>k, <2>1 DEF Attempts
    <3>2. PICK n \in Prefixes : o.parts = SubSeq(Target, 1, n)
                                /\ att' = [att EXCEPT !.plan = "extend", !.seen = o, !.skip = n - Base]
      BY <3>1
    <3>3. att'.skip = n - Base
      BY <1>k, <3>2 DEF Attempts
    <3>4. VideoHeld' = att.present \cup FirstOf(att.add, n - Base)
      BY <2>3, <3>3 DEF VideoHeld, FirstOf, InOrder
    <3> QED
      BY <3>1, <3>2, <3>4, HeldByPrefix
  <2> QED
    <3>1. video'[att'.key.gen] = o /\ att'.dest = att'.key /\ att'.got # "stored" /\ att'.plan # "none"
          /\ att'.seen.by # "foreign"
      BY <2>1, <2>2, <2>3 DEF VideoAt
    <3>2. /\ att'.plan = "extend" => Ours(video'[att'.key.gen]) /\ VideoHeld' \subseteq Parts(video'[att'.key.gen])
          /\ att'.plan = "reuse" => Ours(video'[att'.key.gen]) /\ video'[att'.key.gen].parts = Target'
      BY <2>4, <2>5, <2>6, <3>1
    <3> QED
      BY <2>1, <3>1, <3>2 DEF PlanRight, WithCompanion, Uploading, Ours, Parts
<1>8. CASE PutVideo /\ pc' # "idle"
  <2>1. /\ pc = "putvideo" /\ pc' = "doc" /\ att.built.by = "us" /\ att.built.parts = Target
        /\ att.dest = att.key /\ att.seen.by # "foreign"
    BY <1>8 DEF PutVideo, Return, PlanRight, KeyRemembered, Uploading, WithCompanion
  <2>2. \/ att' = [att EXCEPT !.got = "stored"] /\ video' = [video EXCEPT ![att.key.gen] = att.built]
        \/ att' = [att EXCEPT !.got = "gaveup"] /\ video' = video
    BY <1>8 DEF PutVideo, Return
  <2>3. /\ att'.key = att.key /\ att'.add = att.add /\ att'.present = att.present /\ att'.remote = att.remote
        /\ att'.dest = att.dest /\ att'.plan = att.plan /\ att'.seen = att.seen /\ att'.skip = att.skip
        /\ att'.got \in {"stored", "gaveup"}
        /\ att'.got = "stored" => video' = [video EXCEPT ![att.key.gen] = att.built]
        /\ att'.got = "gaveup" => video' = video
    BY <1>k, <2>2 DEF Attempts
  <2>4. Target' = Target /\ (att.plan = "extend" => VideoHeld' = VideoHeld)
    BY <2>3 DEF Target, VideoHeld, FirstOf, InOrder
  <2>5. att'.got = "stored" => video'[att.key.gen] = att.built
    BY <1>k, <2>3 DEF Typed
  <2>6. att.got # "stored"
    BY <2>1 DEF PlanRight, WithCompanion
  <2>7. att.plan = "extend" => Ours(video[att.key.gen]) /\ VideoHeld \subseteq Parts(video[att.key.gen])
    BY <2>1, <2>6 DEF PlanRight, Uploading
  <2>8. att.plan = "reuse" => Ours(video[att.key.gen]) /\ video[att.key.gen].parts = Target
    BY <2>1 DEF PlanRight, Uploading
  <2>9. att'.got = "stored" => Ours(video'[att.key.gen]) /\ video'[att.key.gen].parts = Target
    BY <2>1, <2>5 DEF Ours
  <2>10. att'.got = "gaveup" => video'[att.key.gen] = video[att.key.gen]
    BY <2>3
  <2>11. /\ att'.plan = "extend" /\ att'.got # "stored" => Ours(video'[att.key.gen]) /\ VideoHeld' \subseteq Parts(video'[att.key.gen])
         /\ att'.plan = "reuse" \/ att'.got = "stored" => Ours(video'[att.key.gen]) /\ video'[att.key.gen].parts = Target'
    BY <2>3, <2>4, <2>7, <2>8, <2>9, <2>10
  <2> QED
    BY <2>1, <2>3, <2>11 DEF PlanRight, WithCompanion, Uploading, Ours, Parts
<1>9. CASE (SpaceForVideo \/ NoSpaceForVideo \/ NoVideoBuild \/ BuildVideo \/ BuildVideoFails \/ RemuxFails) /\ pc' # "idle"
  <2>1. /\ pc \in {"space", "build"} /\ pc' \in {"build", "fallback", "putvideo", "doc"} /\ ~PutVideo
        /\ \/ UNCHANGED att /\ SpaceForVideo
           \/ att' = [att EXCEPT !.got = "gaveup"] /\ pc' \in {"build", "doc"}
           \/ att' = [att EXCEPT !.got = IF att.plan = "reuse" THEN "stored" ELSE @] /\ NoVideoBuild
           \/ BuildVideo /\ pc' = "putvideo"
              /\ att' = [att EXCEPT !.built = [by |-> "us", parts |-> Target, shown |-> ShownAfter]]
           \/ att' = [att EXCEPT !.plan = "none"] /\ pc' = "fallback"
    BY <1>9 DEF SpaceForVideo, NoSpaceForVideo, NoVideoBuild, BuildVideo, BuildVideoFails, RemuxFails,
       RenameGroup, Return, PutVideo
  <2>2. /\ att'.key = att.key /\ att'.group = att.group /\ att'.add = att.add
        /\ att'.present = att.present /\ att'.remote = att.remote /\ att'.skip = att.skip /\ att'.seen = att.seen
        /\ att'.dest = att.dest
        /\ att'.plan = att.plan \/ (att'.plan = "none" /\ pc' = "fallback")
        /\ pc' = "putvideo" => att'.built.by = "us" /\ att'.built.parts = Target
        /\ \/ att'.got = att.got /\ (pc' = "doc" => NoVideoBuild /\ att.plan # "reuse")
           \/ att'.got = "gaveup"
           \/ att'.got = "stored" /\ NoVideoBuild /\ att.plan = "reuse"
    <3>1. CASE UNCHANGED att /\ SpaceForVideo
      BY <3>1 DEF SpaceForVideo
    <3>2. CASE att' = [att EXCEPT !.got = "gaveup"] /\ pc' \in {"build", "doc"}
      BY <1>k, <3>2 DEF Attempts
    <3>3. CASE att' = [att EXCEPT !.got = IF att.plan = "reuse" THEN "stored" ELSE @] /\ NoVideoBuild
      <4>1. pc' = "doc"
        BY <3>3 DEF NoVideoBuild
      <4>2. CASE att.plan = "reuse"
        BY <1>k, <3>3, <4>1, <4>2 DEF Attempts
      <4>3. CASE att.plan # "reuse"
        BY <1>k, <3>3, <4>1, <4>3 DEF Attempts
      <4> QED
        BY <4>2, <4>3
    <3>4. CASE pc' = "putvideo" /\ att' = [att EXCEPT !.built = [by |-> "us", parts |-> Target, shown |-> ShownAfter]]
      <4> DEFINE v == [by |-> "us", parts |-> Target, shown |-> ShownAfter]
      <4>1. v.by = "us" /\ v.parts = Target /\ att' = [att EXCEPT !.built = v]
        BY <3>4
      <4> HIDE DEF v
      <4> QED
        BY <1>k, <3>4, <4>1 DEF Attempts
    <3>5. CASE att' = [att EXCEPT !.plan = "none"] /\ pc' = "fallback"
      BY <1>k, <3>5 DEF Attempts
    <3> QED
      BY <2>1, <3>1, <3>2, <3>3, <3>4, <3>5
  <2>3. att.got # "stored" /\ (NoVideoBuild => pc' = "doc" /\ pc = "build" /\ (att.plan \in {"none", "reuse"} \/ att.got = "gaveup"))
    BY <2>1 DEF PlanRight, WithCompanion, NoVideoBuild
  <2>4. WithVideo(att.group) => att.plan # "none"
    BY <2>1 DEF PlanRight
  <2>5. pc' = "doc" /\ WithVideo(att.group) => att'.got # "none"
    BY <2>2, <2>3, <2>4
  <2>6. att'.got = "stored" => pc' \in {"doc", "put"} /\ att.plan = "reuse"
    BY <2>2, <2>3
  <2> QED
    BY <1>2, <2>1, <2>2, <2>3, <2>5, <2>6 DEF Uploading
<1>10. CASE PutDoc /\ pc' # "idle"
  <2>1. pc = "doc" /\ pc' = "put" /\ UNCHANGED att /\ ~PutVideo
    BY <1>10 DEF PutDoc, Return, PutVideo
  <2>2. WithVideo(att.group) => att.got # "none"
    BY <2>1 DEF PlanRight
  <2> QED
    BY <1>2, <2>1, <2>2 DEF Uploading
<1>11. CASE Fallback /\ pc' = "doc"
  <2>1. pc = "fallback" /\ ~PutVideo /\ att' = [att EXCEPT !.dest = RawKey, !.got = Dropped]
    BY <1>11 DEF Fallback, RenameGroup, CompleteGroup, Return, PutVideo, RawKey, Dropped
  <2>2. att.plan = "none" /\ att.got # "stored"
    BY <2>1 DEF KeyRemembered, PlanRight, Uploading
  <2>3. /\ att'.key = att.key /\ att'.group = att.group /\ att'.add = att.add
        /\ att'.present = att.present /\ att'.remote = att.remote /\ att'.skip = att.skip /\ att'.seen = att.seen
        /\ att'.plan = "none" /\ att'.got = Dropped
    BY <1>k, <2>1, <2>2 DEF Attempts
  <2>4. Dropped # "stored" /\ (WithVideo(att.group) => Dropped # "none")
    BY DEF Dropped
  <2> QED
    BY <1>2, <1>11, <2>1, <2>2, <2>3, <2>4 DEF Uploading
<1>12. CASE pc' \in {"record", "aac", "ts"} \cup Keeping
  <2>1. pc' \notin Uploading
    BY <1>12 DEF Keeping, Uploading
  <2>2. att'.seen = att.seen \/ Return \/ \E s \in Sessions : KeepBegin(s) /\ pc' = "keep"
    <3> DEFINE Small == \/ \E s \in Sessions : KeepBegin(s) /\ pc' = "keep"
                        \/ UNCHANGED att
                        \/ Return
                        \/ \E x : att' = [att EXCEPT !.todo = x]
                        \/ \E x, y : \/ att' = [att EXCEPT !.todo = x, !.cur = y]
                                      \/ att' = [att EXCEPT !.todo = x, !.lost = y]
                        \/ \E x : att' = [att EXCEPT !.cur = x] \/ att' = [att EXCEPT !.got = x]
    <3> HIDE DEF Small
    <3>1. Small
      <4>1. CASE Converge \/ PutAudio \/ Fallback \/ RecordUpload \/ RemoveCapture \/ RemovePictures \/ Recorded
                 \/ KeepBuild \/ KeepVideo \/ KeepRename \/ KeepSave
        BY <1>12, <4>1 DEF Keeping, Converge, PutAudio, Fallback, CompleteGroup, RenameGroup, RecordUpload,
           RemoveCapture, RemovePictures, Recorded, KeepBuild, KeepVideo, KeepRename, KeepSave, Small
      <4>2. CASE UNCHANGED <<pc, att>>
        BY <4>2 DEF Small
      <4>0. pc' \in {"record", "aac", "ts", "keep", "keepvideo", "keepname", "keepsave"}
        BY <1>12 DEF Keeping
      <4>3. CASE SpaceForVideo \/ NoSpaceForVideo \/ NoVideoBuild \/ BuildVideo \/ BuildVideoFails \/ PutVideo
                 \/ PutDoc \/ HeadVideo \/ RemuxFails \/ Interrupted \/ Restart
        <5>1. CASE SpaceForVideo \/ NoSpaceForVideo \/ NoVideoBuild
          BY <4>0, <5>1 DEF SpaceForVideo, NoSpaceForVideo, NoVideoBuild, Return, Small
        <5>2. CASE BuildVideo \/ BuildVideoFails \/ PutVideo \/ PutDoc
          BY <4>0, <5>2 DEF BuildVideo, BuildVideoFails, PutVideo, PutDoc, Return, Small
        <5>3. CASE HeadVideo
          BY <4>0, <5>3 DEF HeadVideo, RenameGroup, Return, Small
        <5>4. CASE RemuxFails \/ Interrupted \/ Restart
          BY <4>0, <5>4 DEF RemuxFails, Interrupted, Restart, RenameGroup, Return, Small
        <5> QED
          BY <4>3, <5>1, <5>2, <5>3, <5>4
      <4>4. CASE \E s \in Sessions : Begin(s) \/ KeepBegin(s)
        <5>1. PICK s \in Sessions : Begin(s) \/ KeepBegin(s)
          BY <4>4
        <5>2. ~Begin(s)
          BY <4>0 DEF Begin, RenameGroup, Return
        <5>3. UNCHANGED att \/ pc' = "keep"
          BY <5>1, <5>2 DEF KeepBegin
        <5> QED
          BY <5>1, <5>2, <5>3 DEF Small
      <4>5. \/ UNCHANGED <<pc, att>> \/ AttemptStep \/ RemuxFails \/ Interrupted \/ Restart
            \/ \E s \in Sessions : Begin(s) \/ KeepBegin(s)
        BY DEF Next, vars, StartSession, Finalize, ForeignPut
      <4> QED
        BY <4>1, <4>2, <4>3, <4>4, <4>5 DEF AttemptStep
    <3> QED
      BY <1>k, <3>1 DEF Attempts, Small
  <2> QED
    BY <1>1, <1>4, <1>5, <2>1, <2>2 DEF PlanRight
<1>13. CASE pc' = "idle"
  <2>1. Return \/ UNCHANGED <<pc, att>>
    BY <1>13, IdleOnlyAfterReturn
  <2>2. pc = "idle" => ~PutVideo
    BY DEF PutVideo
  <2> QED
    BY <1>5, <1>6, <1>13, <2>1, <2>2
<1>14. CASE UNCHANGED <<pc, att>>
  <2>1. ~PutVideo
    BY <1>14 DEF PutVideo, Return
  <2> QED
    BY <1>6, <1>14, <2>1
<1>15. ASSUME pc' # "idle" PROVE \A s \in Sessions : Begin(s) => pc' \in {"converge", "headvideo", "build"}
  BY <1>15 DEF Begin, RenameGroup, Return
<1>16. CASE pc' # "idle" /\ pc' \notin {"record", "aac", "ts"} \cup Keeping /\ ~UNCHANGED <<pc, att>>
  <2>1. ~(\E s \in Sessions : StartSession(s) \/ Finalize(s) \/ KeepBegin(s)) /\ ~UNCHANGED vars
    BY <1>16 DEF vars, StartSession, Finalize, KeepBegin, Keeping
  <2>2. ~(ForeignPut \/ Interrupted \/ Restart \/ Converge \/ PutAudio \/ RecordUpload \/ RemoveCapture \/ RemovePictures
          \/ Recorded \/ KeepBuild \/ KeepVideo \/ KeepRename \/ KeepSave)
    BY <1>16 DEF ForeignPut, Interrupted, Restart, Converge, PutAudio, CompleteGroup, Return, RecordUpload,
       RemoveCapture, RemovePictures, Recorded, KeepBuild, KeepVideo, KeepRename, KeepSave, Keeping
  <2>3. Fallback => pc' = "doc"
    BY <1>16 DEF Fallback, RenameGroup, CompleteGroup, Return
  <2> QED
    BY <1>3, <1>7, <1>8, <1>9, <1>10, <1>11, <1>15, <1>16, <2>1, <2>2, <2>3 DEF Next, AttemptStep
<1> QED
  BY <1>12, <1>13, <1>14, <1>16

-----------------------------------------------------------------------------
\* The document.

LEMMA TargetPrefixes ==
  ASSUME Typed
  PROVE  /\ Len(att.remote) <= Len(Target) /\ SubSeq(Target, 1, Len(att.remote)) = att.remote
         /\ SubSeq(Target, 1, Len(Target)) = Target
<1> DEFINE a == att.remote
           T == Target
<1>1. a \in Seq(Sessions) /\ T \in Seq(Sessions) /\ Len(a) <= Len(T) /\ Len(a) \in Nat /\ Len(T) \in Nat
      /\ \A i \in 1 .. Len(a) : T[i] = a[i]
  BY TargetLists DEF Typed, Attempts, Base
<1> HIDE DEF a, T
<1>2. a = [i \in 1 .. Len(a) |-> a[i]] /\ T = [i \in 1 .. Len(T) |-> T[i]]
  BY <1>1
<1>3. SubSeq(T, 1, Len(a)) = [i \in 1 .. Len(a) |-> T[i]] /\ SubSeq(T, 1, Len(T)) = [i \in 1 .. Len(T) |-> T[i]]
  BY <1>1
<1>4. SubSeq(T, 1, Len(a)) = a
  BY <1>1, <1>2, <1>3
<1> QED
  BY <1>1, <1>2, <1>3, <1>4 DEF a, T

LEMMA DocSteps ==
  ASSUME Typed, [Next]_vars
  PROVE  \/ ~PutDoc /\ UNCHANGED doc
         \/ /\ PutDoc /\ pc' \in {"put", "idle"} /\ (pc' = "put" => UNCHANGED att)
            /\ \A g \in Gens \ {att.dest.gen} : doc'[g] = doc[g]
            /\ doc'[att.dest.gen].refused \/ doc'[att.dest.gen].parts = Target
<1>1. CASE PutDoc
  <2>1. doc \in [Gens -> Docs] /\ att.dest.gen \in Gens
    BY SequencesOfObjects DEF Typed
  <2>2. \/ doc' = [doc EXCEPT ![att.dest.gen] = Written]
        \/ doc' = [doc EXCEPT ![att.dest.gen].refused = TRUE]
    BY <1>1 DEF PutDoc
  <2>3. pc' \in {"put", "idle"} /\ (pc' = "put" => UNCHANGED att)
    BY <1>1 DEF PutDoc, Return
  <2> QED
    BY <1>1, <2>1, <2>2, <2>3 DEF Docs, Written
<1>2. CASE ~PutDoc
  BY <1>2 DEF Next, AttemptStep, vars, store, StartSession, Finalize, Begin, KeepBegin, Converge, PutAudio, PutVideo,
     HeadVideo, SpaceForVideo, NoSpaceForVideo, NoVideoBuild, BuildVideo, BuildVideoFails,
     Fallback, RecordUpload, RemoveCapture, RemovePictures, Recorded, KeepBuild, KeepVideo,
     KeepRename, KeepSave, RemuxFails, Interrupted, Restart, ForeignPut
<1> QED
  BY <1>1, <1>2

LEMMA DocAheadStep ==
  ASSUME Typed, DocAhead, [Next]_vars
  PROVE  DocAhead'
<1>1. pc' = "put" => UNCHANGED att /\ (PutDoc \/ pc = "put")
  <2> SUFFICES ASSUME pc' = "put" PROVE UNCHANGED att /\ (PutDoc \/ pc = "put")
    OBVIOUS
  <2>1. CASE Converge \/ PutAudio \/ PutVideo \/ PutDoc \/ Fallback \/ RecordUpload \/ RemoveCapture \/ RemovePictures
    BY <2>1 DEF Converge, PutAudio, PutVideo, PutDoc, Fallback, RecordUpload, RemoveCapture, RemovePictures,
       RenameGroup, CompleteGroup, Return
  <2>2. CASE \/ HeadVideo \/ SpaceForVideo \/ NoSpaceForVideo \/ NoVideoBuild \/ BuildVideo \/ BuildVideoFails
             \/ RemuxFails \/ Interrupted \/ Restart
    BY <2>2 DEF HeadVideo, SpaceForVideo, NoSpaceForVideo, NoVideoBuild, BuildVideo, BuildVideoFails, RemuxFails,
       Interrupted, Restart, RenameGroup, Return
  <2>3. CASE Recorded \/ KeepBuild \/ KeepVideo \/ KeepRename \/ KeepSave
    BY <2>3 DEF Recorded, KeepBuild, KeepVideo, KeepRename, KeepSave, Return
  <2>4. CASE \E s \in Sessions : Begin(s) \/ KeepBegin(s)
    BY <2>4 DEF Begin, KeepBegin, RenameGroup, Return
  <2>5. CASE UNCHANGED <<pc, att>>
    BY <2>5
  <2> QED
    BY <2>1, <2>2, <2>3, <2>4, <2>5 DEF Next, AttemptStep, vars, StartSession, Finalize, ForeignPut
<1>2. ASSUME pc' = "put" PROVE doc'[att.dest.gen].refused \/ doc'[att.dest.gen].parts = Target
  <2>1. CASE PutDoc
    BY <2>1, DocSteps
  <2>2. CASE ~PutDoc
    BY <1>1, <1>2, <2>2, DocSteps DEF DocAhead
  <2> QED
    BY <2>1, <2>2
<1> SUFFICES ASSUME pc' = "put" PROVE doc'[att'.dest.gen].refused \/ doc'[att'.dest.gen].parts = Target'
  BY DEF DocAhead, Target, InOrder
<1>3. att' = att
  BY <1>1
<1>4. Target' = Target
  BY <1>3 DEF Target, InOrder
<1> QED
  BY <1>2, <1>3, <1>4

LEMMA DocNeverBehindStep ==
  ASSUME Typed, KeyRemembered, DocAhead, DocNeverBehind, [Next]_vars
  PROVE  DocNeverBehind'
<1> SUFFICES ASSUME NEW g \in Gens, Ours(audio'[M4A(g)]), ~doc'[g].refused
             PROVE  /\ Len(audio'[M4A(g)].parts) <= Len(doc'[g].parts)
                    /\ audio'[M4A(g)].parts = SubSeq(doc'[g].parts, 1, Len(audio'[M4A(g)].parts))
  BY DEF DocNeverBehind, M4A, Ours
<1>k. /\ M4A(g) \in Keys /\ M4A(g).gen = g /\ M4A(g).raw = FALSE /\ att.dest \in Keys /\ att.key \in Keys
      /\ audio \in [Keys -> AudioObjects]
  BY SequencesOfObjects DEF M4A, Keys, Typed
<1>1. CASE audio'[M4A(g)] = audio[M4A(g)] /\ doc'[g] = doc[g]
  BY <1>1 DEF DocNeverBehind, M4A, Ours
<1>2. CASE PutAudio /\ audio'[M4A(g)] # audio[M4A(g)]
  <2>1. pc = "put" /\ audio' = [audio EXCEPT ![att.dest] = [by |-> "us", parts |-> Target]] /\ doc' = doc
    BY <1>2 DEF PutAudio
  <2>2. att.dest = M4A(g) /\ audio'[M4A(g)] = [by |-> "us", parts |-> Target]
    BY <1>2, <1>k, <2>1
  <2>3. doc'[g].parts = Target
    BY <1>k, <2>1, <2>2 DEF DocAhead
  <2>4. audio'[M4A(g)].parts = Target /\ Len(Target) <= Len(Target)
    BY <2>2, TargetLists DEF Typed
  <2> QED
    BY <2>3, <2>4, TargetPrefixes
<1>3. CASE PutDoc /\ doc'[g] # doc[g]
  <2>1. pc = "doc" /\ audio' = audio
    BY <1>3 DEF PutDoc
  <2>2. g = att.dest.gen /\ doc'[g].parts = Target
    BY <1>3, DocSteps
  <2>3. M4A(g) = att.key
    BY <1>k, <2>1, <2>2 DEF KeyRemembered, Uploading, M4A, Keys
  <2>4. audio'[M4A(g)].parts = att.remote
    BY <2>1, <2>3 DEF KeyRemembered, Uploading
  <2> QED
    BY <2>2, <2>4, TargetPrefixes
<1> QED
  BY <1>1, <1>2, <1>3, <1>k, DocSteps, HeldStays

-----------------------------------------------------------------------------
\* The theorems.

LEMMA InitIInv == Init => IInv
<1> SUFFICES ASSUME Init PROVE IInv
  OBVIOUS
<1> USE LimitsAssumption DEF Init
<1>1. Typed
  <2>1. BaseKey \in Keys /\ MaxFaults \in Nat /\ MaxBuildFailures \in Nat /\ MaxShort \in Nat
    BY DEF Keys, BaseKey, Gens
  <2>2. NoAudio \in AudioObjects /\ NoVideo \in VideoObjects /\ NoDoc \in Docs
    BY DEF AudioObjects, VideoObjects, Docs, Writers, NoAudio, NoVideo, NoDoc
  <2> DEFINE r == [state |-> "none", key |-> BaseKey, vup |-> FALSE, verr |-> FALSE, out |-> FALSE, vout |-> FALSE]
  <2>3. r \in SessionRecords
    BY <2>1 DEF SessionRecords, States
  <2>4. mem = [s \in Sessions |-> r]
    OBVIOUS
  <2> HIDE DEF r
  <2>5. mem \in [Sessions -> SessionRecords] /\ disk \in [Sessions -> SessionRecords]
    BY <2>3, <2>4
  <2>6. audio \in [Keys -> AudioObjects] /\ video \in [Gens -> VideoObjects] /\ doc \in [Gens -> Docs]
    BY <2>2
  <2>7. captured \in Captures /\ dir \in [Sessions -> SUBSET {"aac", "ts", "m4a", "mp4"}] /\ pc \in PCs
    BY DEF PCs
  <2>9. failures \in [Gens -> 0 .. MaxBuildFailures] /\ short \in [Gens -> 0 .. MaxShort]
    BY <2>1
  <2>10. disabled \in BOOLEAN /\ givenUp \subseteq Sessions /\ dropped \subseteq Sessions /\ left \in 0 .. MaxFaults
    <3>1. disabled = FALSE /\ givenUp = {} /\ dropped = {} /\ left = MaxFaults
      OBVIOUS
    <3> HIDE DEF Init
    <3>2. left \in 0 .. MaxFaults
      BY <2>1, <3>1
    <3>3. disabled \in BOOLEAN
      BY <3>1
    <3>4. givenUp \subseteq Sessions /\ dropped \subseteq Sessions
      BY <3>1
    <3> QED
      BY <3>2, <3>3, <3>4
  <2>8. att \in Attempts
    BY IdleTyped
  <2> QED
    BY <2>5, <2>6, <2>7, <2>8, <2>9, <2>10 DEF Typed, TypeOK
<1>2. AudioInv
  BY SessionsAssumption DEF AudioInv, FinishedKept, KeysRight, GroupFinished, PresentStored, KeyRemembered,
     RemovalRight, Done, Ours, NoAudio, Idle, BaseKey, Uploading, Keeping
<1>3. MarksRight /\ PlanRight /\ DocAhead /\ DocNeverBehind
  <2>1. \A k \in Keys : ~Ours(audio[k])
    BY DEF Ours, NoAudio
  <2> QED
    BY <2>1 DEF MarksRight, PlanRight, DocAhead, DocNeverBehind, Idle, NoVideo, Uploading, WithCompanion, Keys
<1> QED
  BY <1>1, <1>2, <1>3 DEF IInv

LEMMA IInvStep == IInv /\ [Next]_vars => IInv'
<1> SUFFICES ASSUME IInv, [Next]_vars PROVE IInv'
  OBVIOUS
<1>1. Typed /\ AudioInv /\ MarksRight /\ PlanRight /\ DocAhead /\ DocNeverBehind
  BY DEF IInv
<1>2. Typed'
  BY <1>1, TypeStep
<1>3. AudioInv'
  BY <1>1, FinishedKeptStep, KeysRightStep, GroupFinishedStep, PresentStoredStep, KeyRememberedStep, RemovalRightStep
     DEF AudioInv
<1>4. MarksRight' /\ PlanRight' /\ DocAhead'
  BY <1>1, MarksRightStep, PlanRightStep, DocAheadStep
<1>5. DocNeverBehind'
  BY <1>1, DocNeverBehindStep DEF AudioInv
<1> QED
  BY <1>2, <1>3, <1>4, <1>5 DEF IInv

THEOREM Invariance == Spec => []IInv
BY InitIInv, IInvStep, PTL DEF Spec

\* Records, files, objects and counters are always what the code can make them.
THEOREM TypeCorrect == Spec => []TypeOK
<1>1. IInv => TypeOK
  BY DEF IInv, Typed
<1> QED
  BY <1>1, Invariance, PTL

\* Whatever becomes of the .mp4, the document, the mode and sidecar writes, the
\* audio of a finished session is in its capture, in a .m4a its sidecar names
\* or in an object of this recorder.
THEOREM AudioKeptHolds == Spec => []AudioKept
<1>1. IInv => AudioKept
  BY DEF IInv, AudioInv, FinishedKept, AudioKept, Finished, Done, Kept, Stored, Held
<1> QED
  BY <1>1, Invariance, PTL

\* A sidecar that says "uploaded" accounts for the companion: the session is in
\* an .mp4 of this recorder, or the sidecar says why not.
THEOREM VideoAccountedHolds == Spec => []VideoAccounted
<1>1. IInv => VideoAccounted
  BY DEF IInv, MarksRight, InVideo, VideoAccounted
<1> QED
  BY <1>1, Invariance, PTL

\* The .json document never lists less than the .m4a it describes.
THEOREM DocNeverBehindHolds == Spec => []DocNeverBehind
<1>1. IInv => DocNeverBehind
  BY DEF IInv
<1> QED
  BY <1>1, Invariance, PTL

\* Where preconditions are enforced no step replaces another recorder's .mp4.
THEOREM ForeignVideoKeptHolds == ASSUME CondWrites = TRUE PROVE Spec => ForeignVideoKept
<1>1. IInv /\ [Next]_vars => [\A g \in Gens : video[g].by = "foreign" => video'[g] = video[g]]_vars
  <2> SUFFICES ASSUME IInv, [Next]_vars, NEW g \in Gens, video[g].by = "foreign", video'[g] # video[g] PROVE FALSE
    OBVIOUS
  <2>1. PutVideo /\ g = att.key.gen /\ MayPutVideo
    BY VideoSteps DEF IInv
  <2>2. pc = "putvideo" /\ VideoAt(att.key) = att.seen
    BY <2>1 DEF PutVideo, MayPutVideo
  <2>3. att.key.raw = FALSE /\ att.seen.by # "foreign"
    BY <2>2 DEF IInv, AudioInv, KeyRemembered, PlanRight, Uploading
  <2> QED
    BY <2>1, <2>2, <2>3 DEF VideoAt
<1> QED
  BY <1>1, Invariance, PTL DEF Spec, ForeignVideoKept

-----------------------------------------------------------------------------
\* Pictures.  What the two properties about TS files and stored pictures rest on.

Ordered(p) == \A i, j \in DOMAIN p : i < j => p[i] < p[j]

\* A session is finished in memory exactly when it is in its sidecar.
FinishedAlike == \A x \in Sessions : Done(mem[x]) <=> Done(disk[x])

\* Objects list finished sessions, in their order; one of nobody or of somebody
\* else shows nothing.
ListsRight ==
  /\ \A k \in Keys : Ordered(audio[k].parts) /\ \A x \in Parts(audio[k]) : Done(mem[x])
  /\ \A g \in Gens : /\ Ordered(video[g].parts) /\ \A x \in Parts(video[g]) : Done(mem[x])
                     /\ ~Ours(video[g]) => video[g].parts = <<>> /\ video[g].shown = {}
                     /\ Ours(video[g]) => video[g].parts # <<>>

PicturesFinished == \A x \in Sessions : "ts" \in dir[x] => captured[x] = "picture" /\ Done(mem[x])

\* What the attempt adds is waiting for it, after what is stored; a session that
\* came to the key since is in no object.
AttemptRight == pc \in Uploading =>
  /\ audio[att.key].parts = att.remote
  /\ pc # "converge" => att.add # {}
  /\ \A x \in att.add : x \in Waiting(att.key)
  /\ \A x \in Waiting(att.key) :
       x \in att.add \cup att.present \/ x \notin Parts(video[att.key.gen]) \cup Parts(audio[att.key])
  /\ \A i \in DOMAIN att.remote, y \in att.add : att.remote[i] < y

Rest == WithTS(IF att.plan = "extend" THEN att.add \ FirstOf(att.add, att.skip) ELSE att.add)
Extends(o) == \E n \in Prefixes : o.parts = SubSeq(Target, 1, n)

\* The stored .mp4 is the one the HEAD saw, and was rightly taken or left.
SeenRight == pc \in {"space", "build", "putvideo"} =>
  /\ att.plan = "fresh" =>
       /\ video[att.key.gen] = att.seen \/ video[att.key.gen].shown = {}
       /\ Ours(att.seen) => att.seen.parts # Target /\ (att.seen.shown # {} => ~Extends(att.seen))
  /\ att.plan = "extend" =>
       /\ video[att.key.gen] = att.seen
       /\ Base + att.skip \in Prefixes /\ att.seen.parts = SubSeq(Target, 1, Base + att.skip)
  /\ pc = "putvideo" =>
       /\ att.plan \in {"fresh", "extend"}
       /\ att.plan = "extend" => att.seen.shown \subseteq att.built.shown
       /\ Rest \subseteq att.built.shown

\* A session whose TS files are still there and that an .mp4 lists is shown in
\* it, was given up or dropped; one an audio object lists is in its .mp4.
PicturesHeld == \A g \in Gens : \A x \in WithTS(Parts(video[g])) :
  x \in video[g].shown \cup givenUp \cup dropped \/ givenUp \cap Parts(audio[M4A(g)]) # {}
AudioPictured == \A k \in Keys : \A x \in WithTS(Parts(audio[k])) :
  x \in givenUp \/ (k.raw = FALSE /\ x \in Parts(video[k.gen]))

\* Which mode an attempt runs in, and what a capture is removed for.
Removing == {"record", "aac", "ts"}
ModeRight ==
  /\ pc \in Uploading \cup {"record"} => ~disabled
  /\ pc \in Keeping => disabled
  /\ pc \in Removing /\ ~disabled => \A x \in att.todo : Held(mem[x].key, x)
  /\ pc \in {"aac", "ts"} => att.cur \in Sessions /\ (~disabled => Held(mem[att.cur].key, att.cur))
  /\ disabled /\ att.got = "stored" /\ pc \in {"keepname", "keepsave", "aac", "ts"} => "mp4" \in dir[att.cur]
  /\ disabled /\ pc = "ts" => att.got = "stored"
  /\ pc = "keep" => att.got = "none"

PictureInv == FinishedAlike /\ ListsRight /\ PicturesFinished /\ AttemptRight /\ SeenRight /\ PicturesHeld
              /\ AudioPictured /\ ModeRight

-----------------------------------------------------------------------------
\* Lists in order.

LEMMA SmallestOf ==
  ASSUME NEW T \in SUBSET Nat, T # {}
  PROVE  \E x \in T : \A y \in T : x <= y
<1> DEFINE Less == {p \in Nat \X Nat : p[1] < p[2]}
<1>1. IsWellFoundedOn(Less, Nat)
  BY NatLessThanWellFounded DEF OpToRel
<1>2. PICK x \in T : \A y \in T : <<y, x>> \notin Less
  <2> HIDE DEF Less
  <2> QED
    BY <1>1, WFMin
<1>3. ASSUME NEW y \in T PROVE x <= y
  <2>1. <<y, x>> \in Nat \X Nat /\ <<y, x>> \notin Less
    BY <1>2, <1>3
  <2>2. ~(y < x)
    BY <2>1
  <2> QED
    BY <2>2
<1> QED
  BY <1>3

\* InOrder is in order.
LEMMA InOrderOrdered ==
  ASSUME NEW S \in SUBSET Sessions
  PROVE  Ordered(InOrder(S))
<1> DEFINE s == InOrder(S)
           upto(x) == {y \in S : y <= x}
<1>1. /\ s \in Seq(Sessions) /\ DOMAIN s = 1 .. Len(s) /\ Len(s) \in Nat
      /\ \A i \in 1 .. Len(s) : s[i] \in S /\ Cardinality(upto(s[i])) = i
  BY InOrderLists
<1>2. S \subseteq Nat /\ IsFiniteSet(S)
  BY SessionsAssumption, FS_Subset
<1> HIDE DEF s
<1>3. ASSUME NEW i \in 1 .. Len(s), NEW j \in 1 .. Len(s), i < j PROVE s[i] < s[j]
  <2>0. s[i] \in Nat /\ s[j] \in Nat
    BY <1>1, <1>2
  <2> SUFFICES ASSUME s[j] <= s[i] PROVE FALSE
    BY <2>0
  <2> DEFINE a == s[i]
             b == s[j]
  <2>1. a \in Nat /\ b \in Nat /\ b <= a /\ Cardinality(upto(a)) = i /\ Cardinality(upto(b)) = j
    BY <1>1, <1>2
  <2> HIDE DEF a, b
  <2>2. upto(b) \subseteq upto(a) /\ upto(a) \subseteq S
    <3> SUFFICES ASSUME NEW y \in upto(b) PROVE y \in upto(a)
      OBVIOUS
    <3>1. y \in S /\ y \in Nat /\ y <= b
      BY <1>2
    <3>2. y <= a
      BY <2>1, <3>1
    <3> QED
      BY <3>1, <3>2
  <2>3. IsFiniteSet(upto(a))
    BY <1>2, <2>2, FS_Subset
  <2>4. Cardinality(upto(b)) <= Cardinality(upto(a))
    BY <2>2, <2>3, FS_Subset
  <2> QED
    BY <1>3, <2>1, <2>4
<1> QED
  BY <1>1, <1>3 DEF Ordered, s

\* What is added after the stored sessions keeps the order.
LEMMA TargetOrdered ==
  ASSUME att \in Attempts, Ordered(att.remote), \A i \in DOMAIN att.remote, y \in att.add : att.remote[i] < y
  PROVE  Ordered(Target)
<1> DEFINE n == Cardinality(att.add)
           b == InOrder(att.add)
           T == Target
<1>1. /\ T \in Seq(Sessions) /\ Base \in Nat /\ n \in Nat /\ Len(T) = Base + n
      /\ \A i \in 1 .. Base : T[i] = att.remote[i]
      /\ \A i \in 1 .. n : T[Base + i] = b[i]
  BY TargetLists
<1>2. DOMAIN att.remote = 1 .. Base
  BY DEF Attempts, Base
<1>3. att.add \in SUBSET Sessions
  BY DEF Attempts
<1>4. DOMAIN b = 1 .. n /\ \A i \in 1 .. n : b[i] \in att.add
  <2>1. b \in Seq(Sessions) /\ Len(b) = n /\ \A i \in 1 .. Len(b) : b[i] \in att.add
    BY <1>3, InOrderLists
  <2> HIDE DEF b, n
  <2> QED
    BY <2>1
<1>5. Ordered(b)
  BY <1>3, InOrderOrdered
<1> HIDE DEF n, b, T
<1>6. ASSUME NEW i \in 1 .. (Base + n), NEW j \in 1 .. (Base + n), i < j PROVE T[i] < T[j]
  <2>1. CASE j <= Base
    BY <1>1, <1>2, <1>6, <2>1 DEF Ordered
  <2>2. CASE i <= Base /\ j > Base
    <3>1. j - Base \in 1 .. n /\ j = Base + (j - Base) /\ i \in 1 .. Base
      BY <1>1, <1>6, <2>2
    <3>2. T[j] = b[j - Base] /\ b[j - Base] \in att.add /\ T[i] = att.remote[i]
      BY <1>1, <1>4, <3>1
    <3> QED
      BY <1>2, <3>1, <3>2
  <2>3. CASE i > Base
    <3>1. i - Base \in 1 .. n /\ j - Base \in 1 .. n /\ j = Base + (j - Base) /\ i = Base + (i - Base) /\ i - Base < j - Base
      BY <1>1, <1>6, <2>3
    <3>2. T[j] = b[j - Base] /\ T[i] = b[i - Base]
      BY <1>1, <3>1
    <3>3. b[i - Base] < b[j - Base]
      BY <1>4, <1>5, <3>1 DEF Ordered
    <3> QED
      BY <3>2, <3>3
  <2> QED
    BY <1>1, <2>1, <2>2, <2>3
<1>7. DOMAIN T = 1 .. (Base + n)
  BY <1>1
<1> QED
  BY <1>6, <1>7 DEF Ordered, T

\* A list in order that lacks nothing of another below its own end is a prefix of it.
LEMMA OrderedPrefix ==
  ASSUME NEW a \in Seq(Nat), NEW b \in Seq(Nat), Ordered(a), Ordered(b),
         \A i \in DOMAIN a : \E j \in DOMAIN b : b[j] = a[i],
         \A j \in DOMAIN b : (\E i \in DOMAIN a : a[i] = b[j]) \/ \A i \in DOMAIN a : a[i] < b[j]
  PROVE  Len(a) <= Len(b) /\ a = SubSeq(b, 1, Len(a))
<1>1. DOMAIN a = 1 .. Len(a) /\ DOMAIN b = 1 .. Len(b) /\ Len(a) \in Nat /\ Len(b) \in Nat
  OBVIOUS
<1>2. \A i \in 1 .. Len(a) : a[i] \in Nat
  OBVIOUS
<1>3. \A i \in 1 .. Len(b) : b[i] \in Nat
  OBVIOUS
<1> DEFINE Bad == {i \in 1 .. Len(a) : ~(i <= Len(b) /\ a[i] = b[i])}
<1>4. Bad = {}
  <2> SUFFICES ASSUME Bad # {} PROVE FALSE
    OBVIOUS
  <2>1. PICK i \in Bad : \A y \in Bad : i <= y
    <3>1. Bad \in SUBSET Nat
      OBVIOUS
    <3> HIDE DEF Bad
    <3> QED
      BY <3>1, SmallestOf
  <2>2. i \in 1 .. Len(a) /\ ~(i <= Len(b) /\ a[i] = b[i])
    OBVIOUS
  <2>3. \A p \in 1 .. (i - 1) : p <= Len(b) /\ a[p] = b[p]
    <3> SUFFICES ASSUME NEW p \in 1 .. (i - 1) PROVE p <= Len(b) /\ a[p] = b[p]
      OBVIOUS
    <3>1. p \in 1 .. Len(a) /\ p < i
      BY <1>1, <2>2
    <3>2. p \notin Bad
      BY <2>1, <2>2, <3>1
    <3> QED
      BY <3>1, <3>2
  <2> HIDE DEF Bad
  <2>4. PICK m \in 1 .. Len(b) : b[m] = a[i]
    BY <1>1, <2>2
  <2>5. m >= i
    <3> SUFFICES ASSUME m < i PROVE FALSE
      BY <2>2, <2>4
    <3>1. m \in 1 .. (i - 1) /\ m \in 1 .. Len(a)
      BY <1>1, <2>2, <2>4
    <3>2. a[m] = b[m] /\ a[m] < a[i]
      BY <1>1, <2>2, <2>3, <3>1 DEF Ordered
    <3> QED
      BY <1>2, <2>2, <2>4, <3>1, <3>2
  <2>6. m # i /\ i <= Len(b)
    BY <1>1, <2>2, <2>4, <2>5
  <2>7. i \in 1 .. Len(b) /\ b[i] < a[i]
    <3>1. i \in 1 .. Len(b) /\ i < m
      BY <1>1, <2>2, <2>4, <2>5, <2>6
    <3>2. i \in DOMAIN b /\ m \in DOMAIN b
      BY <1>1, <3>1
    <3>3. b[i] < b[m]
      BY <3>1, <3>2 DEF Ordered
    <3> QED
      BY <2>4, <3>1, <3>3
  <2>8. PICK p \in 1 .. Len(a) : a[p] = b[i]
    <3>1. a[i] \in Nat /\ b[i] \in Nat /\ i \in DOMAIN a
      BY <1>1, <1>2, <1>3, <2>2, <2>7
    <3>2. ~(a[i] < b[i])
      BY <2>7, <3>1
    <3>3. i \in DOMAIN b
      BY <1>1, <2>7
    <3>4. \/ \E p \in DOMAIN a : a[p] = b[i]
          \/ \A p \in DOMAIN a : a[p] < b[i]
      BY <3>3
    <3>5. \E p \in DOMAIN a : a[p] = b[i]
      BY <3>1, <3>2, <3>4
    <3> QED
      BY <1>1, <3>5
  <2>9. p < i
    <3> SUFFICES ASSUME p >= i PROVE FALSE
      BY <2>2, <2>8
    <3>1. p = i \/ a[i] < a[p]
      <4>1. p = i \/ i < p
        BY <1>1, <2>2, <2>8
      <4>2. i \in DOMAIN a /\ p \in DOMAIN a
        BY <1>1, <2>2, <2>8
      <4> QED
        BY <4>1, <4>2 DEF Ordered
    <3>2. a[i] \in Nat /\ b[i] \in Nat
      BY <1>2, <1>3, <2>2, <2>7
    <3>3. CASE p = i
      BY <2>7, <2>8, <3>2, <3>3
    <3>4. CASE a[i] < a[p]
      BY <2>7, <2>8, <3>2, <3>4
    <3> QED
      BY <3>1, <3>3, <3>4
  <2>10. p \in 1 .. Len(b) /\ a[p] = b[p] /\ b[p] < b[i]
    <3>1. p \in 1 .. (i - 1)
      BY <2>2, <2>8, <2>9
    <3>2. p <= Len(b) /\ a[p] = b[p]
      BY <2>3, <3>1
    <3>3. p \in 1 .. Len(b)
      BY <1>1, <2>8, <3>2
    <3> QED
      BY <1>1, <2>7, <2>9, <3>2, <3>3 DEF Ordered
  <2> QED
    BY <1>3, <2>7, <2>8, <2>10
<1>5. Len(a) <= Len(b)
  <2>1. CASE Len(a) = 0
    BY <1>1, <2>1
  <2>2. CASE Len(a) # 0
    <3>1. Len(a) \in 1 .. Len(a) /\ Len(a) \notin Bad
      BY <1>1, <1>4, <2>2
    <3> QED
      BY <3>1
  <2> QED
    BY <2>1, <2>2
<1>6. \A i \in 1 .. Len(a) : a[i] = b[i]
  BY <1>4
<1>7. a = [i \in 1 .. Len(a) |-> a[i]] /\ SubSeq(b, 1, Len(a)) = [i \in 1 .. Len(a) |-> b[i]]
  BY <1>1, <1>5
<1> QED
  BY <1>5, <1>6, <1>7

-----------------------------------------------------------------------------
\* Steps.

\* Sessions that have not finished change only in memory and sidecar alike.
LEMMA RecordsStep ==
  ASSUME Typed, GroupFinished, RemovalRight, [Next]_vars, ~Restart, NEW x \in Sessions
  PROVE  /\ mem'[x] = mem[x] \/ Done(mem[x]) \/ disk'[x] = mem'[x]
         /\ disk'[x] \in {disk[x], mem'[x]}
<1>t. /\ mem \in [Sessions -> SessionRecords] /\ disk \in [Sessions -> SessionRecords]
      /\ \A y \in att.group : Done(mem[y])
      /\ att.own \in Sessions => Done(mem[att.own])
      /\ att.add \cup att.present \subseteq att.group
  BY DEF Typed, TypeOK, GroupFinished
<1>s. ASSUME NEW S, disk' = Saved(S) PROVE disk'[x] \in {disk[x], mem'[x]}
  BY <1>s DEF Saved
<1>r. ASSUME NEW k, NEW group, NEW F, RenameGroup(k, group, F), \A y \in group \cup F : Done(mem[y])
      PROVE  (mem'[x] = mem[x] \/ Done(mem[x])) /\ disk'[x] \in {disk[x], mem'[x]}
  BY <1>r, <1>s DEF RenameGroup, Failing
<1>c. ASSUME NEW members, NEW k, NEW got, CompleteGroup(members, k, got), members \subseteq att.group
      PROVE  mem'[x] = mem[x] \/ Done(mem[x])
  BY <1>c, <1>t DEF CompleteGroup
<1>1. ASSUME NEW s \in Sessions, StartSession(s) \/ Finalize(s)
      PROVE  (mem'[x] = mem[x] \/ disk'[x] = mem'[x]) /\ disk'[x] \in {disk[x], mem'[x]}
  <2>1. /\ disk' = [disk EXCEPT ![s] = mem'[s]]
        /\ \E r : mem' = [mem EXCEPT ![s] = r]
    BY <1>1 DEF StartSession, Finalize
  <2> QED
    BY <1>t, <2>1
<1>2. ASSUME NEW s \in Sessions, Begin(s)
      PROVE  (mem'[x] = mem[x] \/ Done(mem[x])) /\ disk'[x] \in {disk[x], mem'[x]}
  <2> DEFINE k == mem[s].key
             failed == Waiting(k) \ (AddOf(k) \cup PresentOf(k))
  <2>1. \A y \in Waiting(k) : Done(mem[y])
    BY DEF Waiting, Done
  <2>2. \/ RenameGroup(k, Waiting(k), {}) \/ RenameGroup(k, Waiting(k), failed)
        \/ mem' = Failing(failed) /\ disk' = Saved(Waiting(k))
    BY <1>2 DEF Begin, AddOf, PresentOf
  <2> HIDE DEF k
  <2>3. \A y \in failed : Done(mem[y])
    BY <2>1
  <2> HIDE DEF failed
  <2>4. CASE mem' = Failing(failed) /\ disk' = Saved(Waiting(k))
    BY <1>s, <2>3, <2>4 DEF Failing
  <2>5. CASE RenameGroup(k, Waiting(k), {})
    BY <1>r, <2>1, <2>5
  <2>6. CASE RenameGroup(k, Waiting(k), failed)
    BY <1>r, <2>1, <2>3, <2>6
  <2> QED
    BY <2>2, <2>4, <2>5, <2>6
<1>3. CASE HeadVideo \/ RemuxFails \/ Fallback \/ Converge \/ PutAudio
  <2>1. \/ RenameGroup(att.key, att.group, {})
        \/ UNCHANGED <<mem, disk>>
        \/ UNCHANGED disk /\ \E members, k, got : CompleteGroup(members, k, got) /\ members \subseteq att.group
    BY <1>3, <1>t DEF HeadVideo, RemuxFails, Fallback, Converge, PutAudio
  <2>2. CASE RenameGroup(att.key, att.group, {})
    BY <1>r, <1>t, <2>2
  <2>3. CASE UNCHANGED disk /\ \E members, k, got : CompleteGroup(members, k, got) /\ members \subseteq att.group
    BY <1>c, <2>3
  <2> QED
    BY <2>1, <2>2, <2>3
<1>4. CASE RecordUpload
  BY <1>4, <1>t DEF RecordUpload
<1>5. CASE Recorded
  <2>1. \/ UNCHANGED mem \/ \E r : mem' = [mem EXCEPT ![att.own] = r]
    BY <1>5 DEF Recorded
  <2>2. \E S : disk' = Saved(S)
    BY <1>5 DEF Recorded
  <2> QED
    BY <1>s, <1>t, <2>1, <2>2
<1>6. ASSUME NEW s \in Sessions, KeepBegin(s)
      PROVE  (mem'[x] = mem[x] \/ Done(mem[x])) /\ disk'[x] \in {disk[x], mem'[x]}
  <2>1. Done(mem[s]) /\ (UNCHANGED <<mem, disk>> \/ \E r : mem' = [mem EXCEPT ![s] = r])
    BY <1>6 DEF KeepBegin, Done
  <2>2. UNCHANGED <<mem, disk>> \/ \E S : disk' = Saved(S)
    BY <1>6 DEF KeepBegin
  <2> QED
    BY <1>s, <1>t, <2>1, <2>2
<1>7. CASE KeepBuild \/ KeepSave
  <2>1. UNCHANGED mem \/ \E r : mem' = [mem EXCEPT ![att.own] = r]
    BY <1>7 DEF KeepBuild, KeepSave
  <2>2. UNCHANGED disk \/ \E S : disk' = Saved(S)
    BY <1>7 DEF KeepBuild, KeepSave
  <2>3. att.own \in Sessions
    BY <1>7 DEF KeepBuild, KeepSave, RemovalRight, Keeping
  <2> QED
    BY <1>s, <1>t, <2>1, <2>2, <2>3
<1>8. CASE UNCHANGED <<mem, disk>>
  BY <1>8
<1> QED
  BY <1>1, <1>2, <1>3, <1>4, <1>5, <1>6, <1>7, <1>8
     DEF Next, AttemptStep, vars, SpaceForVideo, NoSpaceForVideo, NoVideoBuild, BuildVideo, BuildVideoFails, PutVideo,
     PutDoc, RemoveCapture, RemovePictures, KeepVideo, KeepRename, Interrupted, ForeignPut

LEMMA FinishedAlikeStep ==
  ASSUME Typed, AudioInv, FinishedAlike, [Next]_vars
  PROVE  FinishedAlike' /\ \A x \in Sessions : Done(mem[x]) => Done(mem'[x])
<1> USE DEF AudioInv
<1> SUFFICES ASSUME NEW x \in Sessions
             PROVE  (Done(mem'[x]) <=> Done(disk'[x])) /\ (Done(mem[x]) => Done(mem'[x]))
  BY DEF FinishedAlike, Done
<1>0. Done(mem[x]) <=> Done(disk[x])
  BY DEF FinishedAlike
<1>1. CASE Restart
  <2> DEFINE m == Migrated(x)
             z == Recovered(x, disabled')
  <2>1. mem'[x] = [m EXCEPT !.state = z] /\ disk'[x] = m
    BY <1>1 DEF Restart
  <2>2. m \in SessionRecords /\ m.state = disk[x].state
    BY MigratedTyped
  <2>3. z \notin {"none", "recording"} <=> Done(disk[x])
    BY DEF Recovered, Done
  <2> HIDE DEF m, z
  <2>4. mem'[x].state = z /\ disk'[x].state = disk[x].state
    BY <2>1, <2>2 DEF SessionRecords
  <2> QED
    BY <1>0, <2>3, <2>4 DEF Done
<1>2. CASE ~Restart
  <2>1. Done(mem[x]) => Done(mem'[x])
    BY <1>2, DoneStays
  <2>2. /\ mem'[x] = mem[x] \/ Done(mem[x]) \/ disk'[x] = mem'[x]
        /\ disk'[x] = disk[x] \/ disk'[x] = mem'[x]
    BY <1>2, RecordsStep
  <2> QED
    BY <1>0, <2>1, <2>2
<1> QED
  BY <1>1, <1>2

\* What a step does to the lists of the objects.
LEMMA PartsSteps ==
  ASSUME Typed, ListsRight, [Next]_vars
  PROVE  /\ \A k \in Keys : \/ audio'[k].parts = audio[k].parts
                            \/ PutAudio /\ k = att.dest /\ audio'[k].parts = Target
         /\ \A g \in Gens :
              \/ video'[g] = video[g]
              \/ PutVideo /\ g = att.key.gen /\ video'[g] = att.built
                 /\ dropped' = dropped \cup (VideoAt(att.key).shown \ att.built.shown)
              \/ ForeignPut /\ video[g].by = "none" /\ video'[g].by = "foreign" /\ video'[g].parts = <<>> /\ video'[g].shown = {}
         /\ captured' = captured /\ givenUp \subseteq givenUp' /\ dropped \subseteq dropped'
<1>t. /\ audio \in [Keys -> AudioObjects] /\ video \in [Gens -> VideoObjects]
      /\ att.dest \in Keys /\ att.key.gen \in Gens
  BY SequencesOfObjects DEF Typed
<1>1. CASE PutAudio
  <2>1. \/ UNCHANGED audio
        \/ audio' = [audio EXCEPT ![att.dest] = [by |-> "us", parts |-> Target]]
    BY <1>1 DEF PutAudio
  <2>2. UNCHANGED <<captured, video, dropped>> /\ givenUp \subseteq givenUp'
    BY <1>1 DEF PutAudio
  <2> QED
    BY <1>t, <1>1, <2>1, <2>2
<1>2. CASE PutVideo
  <2>1. UNCHANGED <<captured, audio, givenUp>>
    BY <1>2 DEF PutVideo
  <2>2. \/ UNCHANGED <<video, dropped>>
        \/ /\ video' = [video EXCEPT ![att.key.gen] = att.built]
           /\ dropped' = dropped \cup (VideoAt(att.key).shown \ att.built.shown)
    BY <1>2 DEF PutVideo
  <2> QED
    BY <1>t, <1>2, <2>1, <2>2
<1>3. CASE ForeignPut
  <2>1. UNCHANGED <<captured, givenUp, dropped>>
    BY <1>3 DEF ForeignPut
  <2>2. \/ UNCHANGED audio
        \/ \E k : audio' = [audio EXCEPT ![k].by = "foreign"]
    BY <1>3 DEF ForeignPut
  <2>3. \A k \in Keys : audio'[k].parts = audio[k].parts
    BY <1>t, <2>2 DEF AudioObjects
  <2>4. \/ UNCHANGED video
        \/ \E h \in Gens : video[h].by = "none" /\ video' = [video EXCEPT ![h].by = "foreign"]
    BY <1>3 DEF ForeignPut
  <2>5. ASSUME NEW h \in Gens, video[h].by = "none", video' = [video EXCEPT ![h].by = "foreign"], NEW g \in Gens
        PROVE  \/ video'[g] = video[g]
               \/ video[g].by = "none" /\ video'[g].by = "foreign" /\ video'[g].parts = <<>> /\ video'[g].shown = {}
    <3>1. CASE g # h
      BY <1>t, <2>5, <3>1
    <3>2. CASE g = h
      <4>1. video[g].parts = <<>> /\ video[g].shown = {}
        BY <2>5, <3>2 DEF ListsRight, Ours
      <4>2. video'[g] = [video[g] EXCEPT !.by = "foreign"] /\ video[g] \in VideoObjects
        BY <1>t, <2>5, <3>2
      <4> QED
        BY <2>5, <3>2, <4>1, <4>2 DEF VideoObjects
    <3> QED
      BY <3>1, <3>2
  <2> QED
    BY <1>3, <2>1, <2>3, <2>4, <2>5
<1>4. CASE ~PutAudio /\ ~PutVideo /\ ~ForeignPut
  <2>1. UNCHANGED <<captured, audio, video, givenUp, dropped>>
    BY <1>4 DEF Next, AttemptStep, vars, store, StartSession, Finalize, Begin, KeepBegin, Converge,
       HeadVideo, SpaceForVideo, NoSpaceForVideo, NoVideoBuild, BuildVideo, BuildVideoFails,
       PutDoc, Fallback, RecordUpload, RemoveCapture, RemovePictures, Recorded, KeepBuild, KeepVideo,
       KeepRename, KeepSave, RemuxFails, Interrupted, Restart
  <2> QED
    BY <2>1
<1> QED
  BY <1>1, <1>2, <1>3, <1>4

\* TS files come with the end of a capture and go with RemovePictures.
LEMMA PictureFiles ==
  ASSUME Typed, [Next]_vars, NEW x \in Sessions
  PROVE  /\ "ts" \in dir'[x] => "ts" \in dir[x] \/ (~Done(mem[x]) /\ Done(mem'[x]) /\ captured[x] = "picture")
         /\ "ts" \in dir[x] /\ "ts" \notin dir'[x] => (RemovePictures /\ x = att.cur) \/ ~Done(mem[x])
         /\ "mp4" \in dir[x] => "mp4" \in dir'[x] \/ ~Done(mem[x])
<1>t. /\ dir \in [Sessions -> SUBSET {"aac", "ts", "m4a", "mp4"}]
      /\ mem \in [Sessions -> SessionRecords]
  BY DEF Typed, TypeOK
<1>1. ASSUME NEW s \in Sessions, Finalize(s), x = s
      PROVE  /\ ~Done(mem[x]) /\ Done(mem'[x])
             /\ "ts" \in dir'[x] => captured[x] = "picture"
  <2>1. mem[x].state = "recording" /\ mem' = [mem EXCEPT ![x].state = "waiting"]
        /\ dir' = [dir EXCEPT ![x] = IF captured[x] = "picture" THEN {"aac", "ts"} ELSE {"aac"}]
    BY <1>1 DEF Finalize
  <2> QED
    BY <1>t, <2>1 DEF Done, SessionRecords
<1>2. ASSUME NEW s \in Sessions, Finalize(s), x # s PROVE dir'[x] = dir[x]
  BY <1>2, <1>t DEF Finalize
<1>3. CASE RemoveCapture \/ KeepVideo \/ KeepRename
  BY <1>3, <1>t DEF RemoveCapture, KeepVideo, KeepRename
<1>4. CASE RemovePictures
  <2>1. dir' = [dir EXCEPT ![att.cur] = @ \ {"ts"}]
    BY <1>4 DEF RemovePictures
  <2> QED
    BY <1>4, <1>t, <2>1
<1>5. CASE UNCHANGED dir
  BY <1>5
<1> QED
  BY <1>1, <1>2, <1>3, <1>4, <1>5 DEF Next, AttemptStep, vars, StartSession, Begin, KeepBegin, Converge, HeadVideo,
     SpaceForVideo, NoSpaceForVideo, NoVideoBuild, BuildVideo, BuildVideoFails, PutVideo, PutDoc, PutAudio,
     Fallback, RecordUpload, Recorded, KeepBuild, KeepSave, RemuxFails, Interrupted, Restart, ForeignPut

\* A step within the uploading part of an attempt leaves the finished sessions
\* and what was fixed at its beginning alone.
Inside == /\ pc \in Uploading /\ ~PutAudio /\ disabled' = disabled /\ (pc = "converge" => pc' = pc)
          /\ att'.key = att.key /\ att'.group = att.group /\ att'.add = att.add
          /\ att'.present = att.present /\ att'.remote = att.remote
          /\ \A x \in Sessions : Done(mem[x]) => mem'[x] = mem[x] /\ dir'[x] = dir[x]

LEMMA AttemptInside ==
  ASSUME Typed, [Next]_vars, pc' \in Uploading
  PROVE  Inside \/ \E s \in Sessions : Begin(s) /\ pc' \in {"converge", "headvideo", "build"}
<1>t. /\ att \in Attempts /\ mem \in [Sessions -> SessionRecords]
      /\ dir \in [Sessions -> SUBSET {"aac", "ts", "m4a", "mp4"}]
  BY DEF Typed, TypeOK
<1>0. pc' \in {"converge", "headvideo", "space", "build", "fallback", "putvideo", "doc", "put"}
  BY DEF Uploading
<1>1. ASSUME pc \in Uploading, ~PutAudio, UNCHANGED <<mem, dir, disabled>>, pc = "converge" => pc' = pc,
             \/ UNCHANGED att
             \/ \E p, v, n : att' = [att EXCEPT !.plan = p, !.seen = v, !.skip = n]
             \/ \E p, v : att' = [att EXCEPT !.plan = p, !.seen = v] \/ att' = [att EXCEPT !.dest = p, !.got = v]
             \/ \E p : \/ att' = [att EXCEPT !.plan = p] \/ att' = [att EXCEPT !.got = p]
                       \/ att' = [att EXCEPT !.built = p]
      PROVE  Inside
  <2>1. /\ att'.key = att.key /\ att'.group = att.group /\ att'.add = att.add
        /\ att'.present = att.present /\ att'.remote = att.remote
    BY <1>1, <1>t DEF Attempts
  <2> QED
    BY <1>1, <2>1 DEF Inside
<1>2. ASSUME NEW s \in Sessions, Begin(s) PROVE pc' \in {"converge", "headvideo", "build"}
  BY <1>0, <1>2 DEF Begin, RenameGroup, Return
<1>3. CASE \E s \in Sessions : StartSession(s) \/ Finalize(s)
  <2>1. PICK s \in Sessions : StartSession(s) \/ Finalize(s)
    BY <1>3
  <2>2. /\ ~Done(mem[s]) /\ (\E r : mem' = [mem EXCEPT ![s] = r])
        /\ UNCHANGED dir \/ \E d : dir' = [dir EXCEPT ![s] = d]
        /\ UNCHANGED <<pc, att, disabled, audio>>
    BY <2>1 DEF StartSession, Finalize, Done, store
  <2>3. ~PutAudio
    BY <2>2, <1>0 DEF PutAudio, CompleteGroup, Return
  <2> QED
    BY <1>t, <2>2, <2>3 DEF Inside
<1>4. CASE HeadVideo
  <2>1. /\ pc = "headvideo" /\ UNCHANGED <<mem, dir, disabled>>
        /\ \/ \E p, v : att' = [att EXCEPT !.plan = p, !.seen = v]
           \/ \E p, v, n : att' = [att EXCEPT !.plan = p, !.seen = v, !.skip = n]
    BY <1>0, <1>4 DEF HeadVideo, RenameGroup, Return
  <2> QED
    BY <1>1, <2>1 DEF Uploading, PutAudio
<1>5. CASE RemuxFails
  <2>1. /\ pc = "build" /\ UNCHANGED <<mem, dir, disabled>> /\ att' = [att EXCEPT !.plan = "none"]
    BY <1>0, <1>5 DEF RemuxFails, RenameGroup, Return
  <2> QED
    BY <1>1, <2>1 DEF Uploading, PutAudio
<1>6. CASE Fallback
  <2>1. /\ pc = "fallback" /\ UNCHANGED <<mem, dir, disabled>>
        /\ \E k, g : att' = [att EXCEPT !.dest = k, !.got = g]
    BY <1>0, <1>6 DEF Fallback, RenameGroup, CompleteGroup, Return
  <2> QED
    BY <1>1, <2>1 DEF Uploading, PutAudio
<1>7. CASE SpaceForVideo \/ NoSpaceForVideo \/ NoVideoBuild \/ BuildVideo \/ BuildVideoFails \/ PutVideo \/ PutDoc
  <2>1. /\ pc \in {"space", "build", "putvideo", "doc"} /\ UNCHANGED <<mem, dir, disabled>>
        /\ UNCHANGED att \/ \E p : att' = [att EXCEPT !.got = p] \/ att' = [att EXCEPT !.built = p]
    BY <1>0, <1>7 DEF SpaceForVideo, NoSpaceForVideo, NoVideoBuild, BuildVideo, BuildVideoFails, PutVideo, PutDoc,
       Return
  <2> QED
    BY <1>1, <2>1 DEF Uploading, PutAudio
<1>8. CASE ForeignPut \/ UNCHANGED vars
  <2>1. UNCHANGED <<pc, att, mem, dir, disabled>>
    BY <1>8 DEF ForeignPut, vars
  <2>2. ~PutAudio
    BY <2>1, <1>0 DEF PutAudio, CompleteGroup, Return
  <2> QED
    BY <1>1, <2>1, <2>2
<1>9. CASE Converge \/ PutAudio \/ Interrupted \/ Restart \/ RecordUpload \/ RemoveCapture \/ RemovePictures
           \/ Recorded \/ KeepBuild \/ KeepVideo \/ KeepRename \/ KeepSave \/ \E s \in Sessions : KeepBegin(s)
  BY <1>0, <1>9 DEF Converge, PutAudio, CompleteGroup, Interrupted, Restart, RecordUpload, RemoveCapture, RemovePictures,
     Recorded, KeepBuild, KeepVideo, KeepRename, KeepSave, KeepBegin, Return
<1> QED
  BY <1>2, <1>3, <1>4, <1>5, <1>6, <1>7, <1>8, <1>9 DEF Next, AttemptStep

LEMMA TargetMembers ==
  ASSUME att \in Attempts, NEW i \in DOMAIN Target
  PROVE  Target[i] \in att.add \/ \E j \in DOMAIN att.remote : att.remote[j] = Target[i]
<1> DEFINE n == Cardinality(att.add)
           b == InOrder(att.add)
           T == Target
<1>1. /\ T \in Seq(Sessions) /\ Base \in Nat /\ n \in Nat /\ Len(T) = Base + n
      /\ \A j \in 1 .. Base : T[j] = att.remote[j]
      /\ \A j \in 1 .. n : T[Base + j] = b[j]
  BY TargetLists
<1>2. DOMAIN att.remote = 1 .. Base
  BY DEF Attempts, Base
<1>3. \A j \in 1 .. n : b[j] \in att.add
  <2>1. b \in Seq(Sessions) /\ Len(b) = n /\ \A j \in 1 .. Len(b) : b[j] \in att.add
    BY InOrderLists DEF Attempts
  <2> HIDE DEF b, n
  <2> QED
    BY <2>1
<1> HIDE DEF n, b
<1>4. i \in 1 .. (Base + n)
  BY <1>1
<1>5. CASE i <= Base
  BY <1>1, <1>2, <1>4, <1>5
<1>6. CASE i > Base
  <2>1. i - Base \in 1 .. n /\ i = Base + (i - Base)
    BY <1>1, <1>4, <1>6
  <2> QED
    BY <1>1, <1>3, <2>1
<1> QED
  BY <1>1, <1>4, <1>5, <1>6

\* What an attempt is about to store.
LEMMA TargetDone ==
  ASSUME Typed, GroupFinished, ListsRight, AttemptRight, pc \in Uploading
  PROVE  /\ Ordered(Target)
         /\ \A i \in DOMAIN Target : Target[i] \in Sessions /\ Done(mem[Target[i]])
<1>1. /\ att \in Attempts /\ att.key \in Keys /\ Target \in Seq(Sessions)
      /\ audio[att.key].parts = att.remote
  BY SequencesOfObjects DEF Typed, AttemptRight
<1>2. Ordered(att.remote) /\ \A x \in Parts(audio[att.key]) : Done(mem[x])
  BY <1>1 DEF ListsRight
<1>3. Ordered(Target)
  BY <1>1, <1>2, TargetOrdered DEF AttemptRight
<1>4. ASSUME NEW i \in DOMAIN Target PROVE Target[i] \in Sessions /\ Done(mem[Target[i]])
  <2>1. Target[i] \in att.add \/ Target[i] \in Parts(audio[att.key])
    BY <1>1, TargetMembers DEF Parts
  <2>2. Target[i] \in Sessions
    BY <1>1
  <2> QED
    BY <1>2, <2>1, <2>2 DEF GroupFinished
<1> QED
  BY <1>3, <1>4

LEMMA ListsRightStep ==
  ASSUME IInv, PictureInv, [Next]_vars
  PROVE  ListsRight'
<1> USE DEF IInv, PictureInv, AudioInv
<1>t. /\ audio \in [Keys -> AudioObjects] /\ video \in [Gens -> VideoObjects]
  BY DEF Typed
<1>d. \A x \in Sessions : Done(mem[x]) => Done(mem'[x])
  BY FinishedAlikeStep
<1>1. ASSUME NEW k \in Keys PROVE Ordered(audio'[k].parts) /\ \A x \in Parts(audio'[k]) : Done(mem'[x])
  <2>1. CASE audio'[k].parts = audio[k].parts
    <3>1. Parts(audio'[k]) = Parts(audio[k]) /\ Parts(audio[k]) \subseteq Sessions
      BY <1>t, <2>1 DEF Parts, AudioObjects
    <3> QED
      BY <1>d, <2>1, <3>1 DEF ListsRight
  <2>2. CASE PutAudio /\ audio'[k].parts = Target
    <3>1. pc \in Uploading
      BY <2>2 DEF PutAudio, Uploading
    <3>2. Ordered(Target) /\ \A i \in DOMAIN Target : Target[i] \in Sessions /\ Done(mem[Target[i]])
      BY <3>1, TargetDone
    <3> QED
      BY <1>d, <2>2, <3>2 DEF Parts
  <2> QED
    BY <2>1, <2>2, PartsSteps
<1>2. ASSUME NEW g \in Gens
      PROVE  /\ Ordered(video'[g].parts) /\ \A x \in Parts(video'[g]) : Done(mem'[x])
             /\ ~Ours(video'[g]) => video'[g].parts = <<>> /\ video'[g].shown = {}
             /\ Ours(video'[g]) => video'[g].parts # <<>>
  <2>1. CASE video'[g] = video[g]
    <3>1. Parts(video[g]) \subseteq Sessions
      BY <1>t DEF Parts, VideoObjects
    <3> QED
      BY <1>d, <2>1, <3>1 DEF ListsRight
  <2>2. CASE PutVideo /\ video'[g] = att.built
    <3>1. pc \in Uploading /\ pc = "putvideo"
      BY <2>2 DEF PutVideo, Uploading
    <3>2. Ordered(Target) /\ \A i \in DOMAIN Target : Target[i] \in Sessions /\ Done(mem[Target[i]])
      BY <3>1, TargetDone
    <3>3. video'[g].parts = Target /\ Ours(video'[g])
      BY <2>2, <3>1 DEF PlanRight, Ours
    <3>4. Target # <<>>
      <4>1. att.add # {}
        BY <3>1 DEF AttemptRight
      <4>2. \A x \in att.add : \E i \in 1 .. Len(Target) : Target[i] = x
        BY TargetHolds DEF Typed
      <4> QED
        BY <4>1, <4>2
    <3> QED
      BY <1>d, <3>2, <3>3, <3>4 DEF Parts
  <2>3. CASE video'[g].by = "foreign" /\ video'[g].parts = <<>> /\ video'[g].shown = {}
    BY <2>3 DEF Ordered, Parts, Ours
  <2> QED
    BY <2>1, <2>2, <2>3, PartsSteps
<1> QED
  BY <1>1, <1>2 DEF ListsRight, Ordered, Parts, Done, Ours

LEMMA PicturesFinishedStep ==
  ASSUME IInv, PictureInv, [Next]_vars
  PROVE  PicturesFinished'
<1> USE DEF IInv, PictureInv, AudioInv
<1> SUFFICES ASSUME NEW x \in Sessions, "ts" \in dir'[x] PROVE captured'[x] = "picture" /\ Done(mem'[x])
  BY DEF PicturesFinished, Done
<1>1. captured' = captured
  BY PartsSteps
<1>2. Done(mem[x]) => Done(mem'[x])
  BY FinishedAlikeStep
<1>3. "ts" \in dir[x] \/ (Done(mem'[x]) /\ captured[x] = "picture")
  BY PictureFiles
<1> QED
  BY <1>1, <1>2, <1>3 DEF PicturesFinished

\* What a beginning attempt leaves of its group, and in which order it stands.
LEMMA BeginOrders ==
  ASSUME Typed, KeysRight, NEW s \in Sessions, Begin(s), pc' \in {"converge", "headvideo", "build"},
         NEW k, k = mem[s].key
  PROVE  /\ mem' = Failing(Waiting(k) \ (AddOf(k) \cup PresentOf(k)))
         /\ \A i \in DOMAIN audio[k].parts, y \in AddOf(k) : audio[k].parts[i] < y
<1>1. ~Return
  BY DEF Return
<1>2. /\ mem' = Failing(Waiting(k) \ (AddOf(k) \cup PresentOf(k)))
      /\ Ours(audio[k]) /\ AddOf(k) # {} => ~\E x \in AddOf(k), y \in Parts(audio[k]) : x < y
  BY <1>1 DEF Begin, RenameGroup, PresentOf, AddOf
<1>3. ASSUME NEW i \in DOMAIN audio[k].parts, NEW y \in AddOf(k) PROVE audio[k].parts[i] < y
  <2> DEFINE x == audio[k].parts[i]
  <2>1. k \in Keys /\ audio[k] \in AudioObjects /\ audio[k].parts # <<>>
    BY <1>3 DEF Typed, TypeOK, SessionRecords
  <2>2. Ours(audio[k]) /\ x \in Parts(audio[k]) /\ x \in Sessions
    BY <2>1 DEF KeysRight, Parts, AudioObjects
  <2>3. y \in Waiting(k) /\ y \notin Parts(audio[k]) /\ y \in Sessions
    BY DEF AddOf, PresentOf, Waiting
  <2>4. ~(y < x)
    BY <1>2, <2>2
  <2>5. x # y
    BY <2>2, <2>3
  <2> HIDE DEF x
  <2>6. x \in Nat /\ y \in Nat
    BY <2>2, <2>3, SessionsAssumption
  <2>7. x < y
    BY <2>4, <2>5, <2>6
  <2> QED
    BY <2>7 DEF x
<1> QED
  BY <1>2, <1>3

\* Who waits under a key after the step.
WaitingNext(k) == {x \in Sessions : mem'[x].state = "waiting" /\ mem'[x].key = k}

LEMMA AttemptRightStep ==
  ASSUME IInv, PictureInv, [Next]_vars
  PROVE  AttemptRight'
<1> USE DEF IInv, PictureInv, AudioInv
<1> SUFFICES ASSUME pc' \in Uploading
             PROVE  /\ audio'[att'.key].parts = att'.remote
                    /\ pc' # "converge" => att'.add # {}
                    /\ \A x \in att'.add : x \in WaitingNext(att'.key)
                    /\ \A x \in WaitingNext(att'.key) :
                         x \in att'.add \cup att'.present \/ x \notin Parts(video'[att'.key.gen]) \cup Parts(audio'[att'.key])
                    /\ \A i \in DOMAIN att'.remote, y \in att'.add : att'.remote[i] < y
  BY DEF AttemptRight, Uploading, Waiting, WaitingNext, Parts
<1>t. /\ att \in Attempts /\ att.key \in Keys /\ att.key.gen \in Gens
  BY SequencesOfObjects DEF Typed
<1>1. CASE Inside
  <2>0. /\ pc \in Uploading /\ ~PutAudio
        /\ att'.key = att.key /\ att'.add = att.add /\ att'.present = att.present /\ att'.remote = att.remote
        /\ \A x \in Sessions : Done(mem[x]) => mem'[x] = mem[x]
    BY <1>1 DEF Inside
  <2> DEFINE k == att.key
             g == att.key.gen
  <2>1. audio'[k].parts = audio[k].parts /\ audio[k].parts = att.remote
    BY <1>t, <2>0, PartsSteps DEF AttemptRight
  <2>2. \A x \in att.add : x \in Waiting(k) /\ x \in Sessions /\ Done(mem[x])
    BY <2>0 DEF AttemptRight, Waiting, Done
  <2>3. \A x \in att.add : x \in WaitingNext(k)
    BY <2>0, <2>2 DEF Waiting, WaitingNext
  <2>4. Ordered(Target) /\ \A i \in DOMAIN Target : Target[i] \in Sessions /\ Done(mem[Target[i]])
    BY <2>0, TargetDone
  <2>5. ASSUME NEW x \in WaitingNext(k), x \notin att.add \cup att.present
        PROVE  x \notin Parts(video'[g]) \cup Parts(audio'[k])
    <3>1. x \in Sessions /\ (Done(mem[x]) => x \in Waiting(k))
      BY <2>0, <2>5 DEF Waiting, WaitingNext
    <3>2. x \notin Parts(video[g]) \cup Parts(audio[k])
      <4>1. CASE Done(mem[x])
        BY <2>0, <2>5, <3>1, <4>1 DEF AttemptRight
      <4>2. CASE ~Done(mem[x])
        BY <1>t, <4>2 DEF ListsRight
      <4> QED
        BY <4>1, <4>2
    <3>3. x \notin Parts(audio'[k])
      BY <2>1, <3>2 DEF Parts
    <3>4. x \notin Parts(video'[g])
      <4>1. CASE video'[g] = video[g]
        BY <3>2, <4>1
      <4>2. CASE PutVideo /\ video'[g] = att.built
        <5>1. video'[g].parts = Target
          BY <4>2 DEF PutVideo, PlanRight
        <5>2. \A i \in DOMAIN Target : Target[i] # x
          <6> SUFFICES ASSUME NEW i \in DOMAIN Target, Target[i] = x PROVE FALSE
            OBVIOUS
          <6>1. \E j \in DOMAIN att.remote : att.remote[j] = x
            BY <1>t, <2>5, TargetMembers
          <6> QED
            BY <2>1, <3>2, <6>1 DEF Parts
        <5> QED
          BY <5>1, <5>2 DEF Parts
      <4>3. CASE video'[g].parts = <<>>
        BY <4>3 DEF Parts
      <4> QED
        BY <1>t, <4>1, <4>2, <4>3, PartsSteps
    <3> QED
      BY <3>3, <3>4
  <2>6. /\ \A i \in DOMAIN att.remote, y \in att.add : att.remote[i] < y
        /\ pc' # "converge" => att.add # {}
    BY <1>1, <2>0 DEF AttemptRight, Inside
  <2> QED
    BY <2>0, <2>1, <2>3, <2>5, <2>6
<1>2. ASSUME NEW s \in Sessions, Begin(s), pc' \in {"converge", "headvideo", "build"} 
      PROVE  /\ audio'[att'.key].parts = att'.remote
             /\ pc' # "converge" => att'.add # {}
             /\ \A x \in att'.add : x \in WaitingNext(att'.key)
             /\ \A x \in WaitingNext(att'.key) :
                  x \in att'.add \cup att'.present \/ x \notin Parts(video'[att'.key.gen]) \cup Parts(audio'[att'.key])
             /\ \A i \in DOMAIN att'.remote, y \in att'.add : att'.remote[i] < y
  <2>0. PICK k : k = mem[s].key
    OBVIOUS
  <2>1. /\ att'.key = k /\ att'.add = AddOf(k) /\ att'.present = PresentOf(k) /\ att'.remote = audio[k].parts
    BY <1>2, <2>0, BegunFields
  <2>2. UNCHANGED <<audio, video>> /\ (pc' # "converge" => AddOf(k) # {})
    BY <1>2, <2>0, BeginFixes DEF store
  <2>3. /\ mem' = Failing(Waiting(k) \ (AddOf(k) \cup PresentOf(k)))
        /\ \A i \in DOMAIN audio[k].parts, y \in AddOf(k) : audio[k].parts[i] < y
    BY <1>2, <2>0, BeginOrders
  <2>4. \A x \in AddOf(k) : x \in WaitingNext(k)
    BY <2>3 DEF AddOf, Failing, Waiting, WaitingNext
  <2>5. \A x \in WaitingNext(k) : x \in AddOf(k) \cup PresentOf(k)
    <3> SUFFICES ASSUME NEW x \in Sessions, mem'[x].state = "waiting", mem'[x].key = k,
                        x \notin AddOf(k) \cup PresentOf(k)
                 PROVE  FALSE
      BY DEF WaitingNext
    <3>1. mem \in [Sessions -> SessionRecords]
      BY DEF Typed, TypeOK
    <3>2. CASE x \in Waiting(k)
      <4>1. mem'[x] = [mem[x] EXCEPT !.state = "failed"]
        BY <2>3, <3>2 DEF Failing
      <4>2. mem'[x].state = "failed"
        BY <3>1, <4>1 DEF SessionRecords
      <4> QED
        BY <4>2
    <3>3. CASE x \notin Waiting(k)
      <4>1. mem'[x] = mem[x]
        BY <2>3, <3>3 DEF Failing
      <4> QED
        BY <3>3, <4>1 DEF Waiting
    <3> QED
      BY <3>2, <3>3
  <2> QED
    BY <2>1, <2>2, <2>3, <2>4, <2>5
<1> QED
  BY <1>1, <1>2, AttemptInside

\* What the HEAD saw stays true while the attempt goes on.
LEMMA SeenCarried ==
  ASSUME SeenRight, pc \in {"space", "build", "putvideo"},
         att'.key = att.key, att'.remote = att.remote, att'.add = att.add,
         att'.plan = att.plan, att'.seen = att.seen, att'.skip = att.skip,
         \/ video'[att.key.gen] = video[att.key.gen]
         \/ ~Ours(video[att.key.gen]) /\ video'[att.key.gen].shown = {},
         att.plan = "extend" => Ours(video[att.key.gen]),
         pc' = "putvideo" => /\ att.plan \in {"fresh", "extend"}
                             /\ att.plan = "extend" => att.seen.shown \subseteq att'.built.shown
                             /\ Rest' \subseteq att'.built.shown
  PROVE  SeenRight'
<1>1. Target' = Target /\ Base' = Base
  BY DEF Target, Base
<1>2. Prefixes' = Prefixes
  BY <1>1 DEF Prefixes
<1>3. Extends(att.seen)' <=> Extends(att.seen)
  BY <1>1, <1>2 DEF Extends
<1>4. /\ att.plan = "fresh" =>
           /\ video[att.key.gen] = att.seen \/ video[att.key.gen].shown = {}
           /\ Ours(att.seen) => att.seen.parts # Target /\ (att.seen.shown # {} => ~Extends(att.seen))
      /\ att.plan = "extend" =>
           /\ video[att.key.gen] = att.seen
           /\ Base + att.skip \in Prefixes /\ att.seen.parts = SubSeq(Target, 1, Base + att.skip)
  BY DEF SeenRight
<1>5. att'.plan = "fresh" =>
       /\ video'[att'.key.gen] = att'.seen \/ video'[att'.key.gen].shown = {}
       /\ Ours(att.seen)' => att'.seen.parts # Target' /\ (att'.seen.shown # {} => ~Extends(att.seen)')
  BY <1>1, <1>3, <1>4 DEF Ours
<1>6. att'.plan = "extend" =>
       /\ video'[att'.key.gen] = att'.seen
       /\ Base' + att'.skip \in Prefixes' /\ att'.seen.parts = SubSeq(Target', 1, Base' + att'.skip)
  BY <1>1, <1>2, <1>4
<1>7. pc' = "putvideo" =>
       /\ att'.plan \in {"fresh", "extend"}
       /\ att'.plan = "extend" => att'.seen.shown \subseteq att'.built.shown
       /\ Rest' \subseteq att'.built.shown
  OBVIOUS
<1> QED
  BY <1>5, <1>6, <1>7 DEF SeenRight

LEMMA SeenRightStep ==
  ASSUME IInv, PictureInv, [Next]_vars
  PROVE  SeenRight'
<1> USE DEF IInv, PictureInv, AudioInv
<1> SUFFICES ASSUME pc' \in {"space", "build", "putvideo"} PROVE SeenRight'
  BY DEF SeenRight
<1>t. /\ att \in Attempts /\ att.key \in Keys /\ att.key.gen \in Gens /\ pc' \in Uploading
      /\ att.add \subseteq Sessions /\ \A x \in att.add : Done(mem[x])
  BY SequencesOfObjects DEF Typed, Uploading, GroupFinished, Attempts
<1> DEFINE g == att.key.gen
<1>o. pc \in {"space", "build", "putvideo"} => (att.plan = "extend" => Ours(video[g]))
  BY DEF PlanRight, Uploading, WithCompanion
<1>1. CASE Inside
  <2>0. /\ pc \in Uploading /\ ~PutAudio
        /\ att'.key = att.key /\ att'.add = att.add /\ att'.present = att.present /\ att'.remote = att.remote
        /\ \A x \in att.add : dir'[x] = dir[x]
    BY <1>1, <1>t DEF Inside
  <2>v. ~PutVideo => \/ video'[g] = video[g]
                     \/ ~Ours(video[g]) /\ video'[g].shown = {}
    BY <1>t, PartsSteps DEF Ours
  <2>r. WithTS(att.add)' = WithTS(att.add)
    BY <2>0 DEF WithTS
  <2>1. CASE UNCHANGED <<pc, att>>
    <3>1. ~PutVideo
      BY <2>1, <1>t DEF PutVideo, Return
    <3>2. Rest' = Rest
      BY <2>0, <2>1 DEF Rest, WithTS
    <3> QED
      BY <1>o, <2>0, <2>v, <2>1, <3>1, <3>2, SeenCarried DEF SeenRight
  <2>2. CASE HeadVideo
    <3>0. ~PutVideo /\ pc' # "putvideo" /\ UNCHANGED video /\ VideoAt(att.key) = video[g]
      BY <2>2, <1>t DEF HeadVideo, PutVideo, RenameGroup, Return, store, VideoAt, KeyRemembered, Uploading
    <3>1. \/ \E o : att' = [att EXCEPT !.plan = "reuse", !.seen = o]
          \/ \E n \in Prefixes : /\ video[g].parts = SubSeq(Target, 1, n)
                                 /\ att' = [att EXCEPT !.plan = "extend", !.seen = video[g], !.skip = n - Base]
          \/ /\ ~Ours(video[g]) \/ /\ video[g].parts # Target
                                   /\ video[g].shown # {} => \A n \in Prefixes : video[g].parts # SubSeq(Target, 1, n)
             /\ att' = [att EXCEPT !.plan = "fresh", !.seen = video[g]]
      BY <2>2, <3>0, <1>t DEF HeadVideo, RenameGroup, Return
    <3>2. Target' = Target /\ Base' = Base /\ Base \in Nat /\ Len(Target) \in Nat
      <4>1. Target' = Target /\ Base' = Base
        BY <2>0 DEF Target, Base
      <4>2. Base \in Nat /\ Target \in Seq(Sessions)
        BY <1>t, TargetLists
      <4> QED
        BY <4>1, <4>2
    <3>3. Prefixes' = Prefixes /\ \A n \in Prefixes : n \in Nat /\ n - Base \in Nat /\ Base + (n - Base) = n
      BY <3>2 DEF Prefixes
    <3>4. CASE \E o : att' = [att EXCEPT !.plan = "reuse", !.seen = o]
      <4>1. att'.plan = "reuse"
        BY <1>t, <3>4 DEF Attempts
      <4> QED
        BY <3>0, <4>1 DEF SeenRight
    <3>5. CASE \E n \in Prefixes : /\ video[g].parts = SubSeq(Target, 1, n)
                                   /\ att' = [att EXCEPT !.plan = "extend", !.seen = video[g], !.skip = n - Base]
      <4>1. PICK n \in Prefixes : /\ video[g].parts = SubSeq(Target, 1, n)
                                  /\ att' = [att EXCEPT !.plan = "extend", !.seen = video[g], !.skip = n - Base]
        BY <3>5
      <4>2. att'.plan = "extend" /\ att'.seen = video[g] /\ att'.skip = n - Base
        BY <1>t, <4>1 DEF Attempts
      <4>3. Base' + att'.skip \in Prefixes' /\ att'.seen.parts = SubSeq(Target', 1, Base' + att'.skip)
        BY <3>2, <3>3, <4>1, <4>2
      <4> QED
        BY <2>0, <3>0, <4>2, <4>3 DEF SeenRight
    <3>6. CASE /\ ~Ours(video[g]) \/ /\ video[g].parts # Target
                                     /\ video[g].shown # {} => \A n \in Prefixes : video[g].parts # SubSeq(Target, 1, n)
               /\ att' = [att EXCEPT !.plan = "fresh", !.seen = video[g]]
      <4>1. att'.plan = "fresh" /\ att'.seen = video[g]
        BY <1>t, <3>6 DEF Attempts
      <4>2. Ours(att.seen)' => att'.seen.parts # Target' /\ (att'.seen.shown # {} => ~Extends(att.seen)')
        BY <3>2, <3>3, <3>6, <4>1 DEF Extends, Ours
      <4> QED
        BY <2>0, <3>0, <4>1, <4>2 DEF SeenRight
    <3> QED
      BY <3>1, <3>4, <3>5, <3>6
  <2>3. CASE SpaceForVideo \/ NoSpaceForVideo
    <3>1. /\ pc = "space" /\ pc' # "putvideo" /\ ~PutVideo
          /\ UNCHANGED att \/ att' = [att EXCEPT !.got = "gaveup"]
      BY <2>3, <1>t DEF SpaceForVideo, NoSpaceForVideo, PutVideo, Return
    <3>2. att'.plan = att.plan /\ att'.seen = att.seen /\ att'.skip = att.skip
      BY <1>t, <3>1 DEF Attempts
    <3> QED
      BY <1>o, <2>0, <2>v, <3>1, <3>2, SeenCarried
  <2>4. CASE BuildVideo
    <3>1. /\ pc = "build" /\ ~PutVideo /\ att.plan \in {"fresh", "extend"}
          /\ att' = [att EXCEPT !.built = [by |-> "us", parts |-> Target, shown |-> ShownAfter]]
      BY <2>4, <1>t DEF BuildVideo, PutVideo, Return
    <3>2. /\ att'.plan = att.plan /\ att'.seen = att.seen /\ att'.skip = att.skip
          /\ att'.built = [by |-> "us", parts |-> Target, shown |-> ShownAfter]
      BY <1>t, <3>1 DEF Attempts
    <3>3. att'.built.shown = ShownAfter /\ UNCHANGED dir
      BY <2>4, <3>2 DEF BuildVideo
    <3>4. Rest' = Rest
      BY <2>0, <3>2, <3>3 DEF Rest, WithTS
    <3>5. Rest \subseteq ShownAfter /\ (att.plan = "extend" => att.seen.shown \subseteq ShownAfter)
      BY DEF Rest, ShownAfter
    <3> QED
      BY <1>o, <2>0, <2>v, <3>1, <3>2, <3>3, <3>4, <3>5, SeenCarried
  <2>5. CASE NoVideoBuild \/ BuildVideoFails \/ PutVideo \/ PutDoc \/ RemuxFails \/ Fallback \/ Converge \/ PutAudio
             \/ Interrupted \/ RecordUpload \/ RemoveCapture \/ RemovePictures \/ Recorded \/ KeepBuild \/ KeepVideo
             \/ KeepRename \/ KeepSave \/ Restart
    BY <2>5, <1>t DEF NoVideoBuild, BuildVideoFails, PutVideo, PutDoc, RemuxFails, Fallback, Converge, PutAudio,
       Interrupted, RecordUpload, RemoveCapture, RemovePictures, Recorded, KeepBuild, KeepVideo, KeepRename, KeepSave,
       Restart, RenameGroup, CompleteGroup, Return
  <2>6. CASE \E s \in Sessions : Begin(s) \/ KeepBegin(s)
    BY <2>0, <2>6 DEF Begin, KeepBegin, Uploading
  <2>7. CASE (\E s \in Sessions : StartSession(s) \/ Finalize(s)) \/ ForeignPut \/ UNCHANGED vars
    BY <2>1, <2>7 DEF StartSession, Finalize, ForeignPut, vars
  <2> QED
    BY <2>2, <2>3, <2>4, <2>5, <2>6, <2>7 DEF Next, AttemptStep
<1>2. ASSUME NEW s \in Sessions, Begin(s), pc' \in {"converge", "headvideo", "build"} PROVE SeenRight'
  <2>1. att'.plan = "none"
    BY <1>2, BegunFields
  <2> QED
    BY <1>2, <2>1 DEF SeenRight
<1> QED
  BY <1>1, <1>2, <1>t, AttemptInside

\* An .m4a keeps the sessions it lists.
LEMMA PartsStay ==
  ASSUME Typed, ListsRight, KeyRemembered, AttemptRight, [Next]_vars, NEW k \in Keys, k.raw = FALSE
  PROVE  Parts(audio[k]) \subseteq Parts(audio'[k])
<1>1. CASE audio'[k].parts = audio[k].parts
  BY <1>1 DEF Parts
<1>2. CASE PutAudio /\ k = att.dest /\ audio'[k].parts = Target
  <2>1. pc \in Uploading /\ pc # "converge" /\ att \in Attempts /\ att.key \in Keys
    BY <1>2, SequencesOfObjects DEF PutAudio, Uploading, Typed
  <2>2. k = att.key
    <3>1. att.dest # att.key => att.dest.raw = TRUE
      BY <2>1 DEF KeyRemembered, Keys
    <3> QED
      BY <1>2, <3>1
  <2>3. audio[k].parts = att.remote
    BY <2>1, <2>2 DEF AttemptRight
  <2>4. \A i \in DOMAIN att.remote : i \in DOMAIN Target /\ Target[i] = att.remote[i]
    BY <2>1, TargetHolds, TargetLists
  <2> QED
    BY <1>2, <2>3, <2>4 DEF Parts
<1> QED
  BY <1>1, <1>2, PartsSteps

LEMMA AudioPicturedStep ==
  ASSUME IInv, PictureInv, [Next]_vars
  PROVE  AudioPictured'
<1> USE DEF IInv, PictureInv, AudioInv
<1> SUFFICES ASSUME NEW k \in Keys, NEW x \in Sessions, x \in Parts(audio'[k]), "ts" \in dir'[x]
             PROVE  x \in givenUp' \/ (k.raw = FALSE /\ x \in Parts(video'[k.gen]))
  <2>1. audio' \in [Keys -> AudioObjects]
    BY TypeStep DEF Typed
  <2>2. \A k \in Keys : Parts(audio'[k]) \subseteq Sessions
    BY <2>1 DEF Parts, AudioObjects
  <2> QED
    BY <2>2 DEF AudioPictured, WithTS, Parts
<1>t. /\ att \in Attempts /\ att.key \in Keys /\ att.dest \in Keys /\ k.gen \in Gens
  BY SequencesOfObjects DEF Typed, Keys
<1>g. givenUp \subseteq givenUp'
  BY PartsSteps
<1>k. pc \in Uploading /\ pc # "converge" => /\ att.key.raw = FALSE
                                             /\ \A i \in DOMAIN att.remote : \E j \in DOMAIN Target : Target[j] = att.remote[i]
  BY <1>t, TargetHolds, TargetLists DEF KeyRemembered
<1>1. ASSUME x \in Parts(audio[k]) PROVE x \in givenUp \/ (k.raw = FALSE /\ x \in Parts(video'[k.gen]))
  <2>1. "ts" \in dir[x]
    BY <1>1, PictureFiles DEF ListsRight
  <2>2. x \in givenUp \/ (k.raw = FALSE /\ x \in Parts(video[k.gen]))
    BY <1>1, <2>1 DEF AudioPictured, WithTS
  <2>3. ASSUME k.raw = FALSE, x \in Parts(video[k.gen]) PROVE x \in Parts(video'[k.gen])
    <3>1. CASE video'[k.gen] = video[k.gen]
      BY <2>3, <3>1
    <3>2. CASE PutVideo /\ k.gen = att.key.gen /\ video'[k.gen] = att.built
      <4>1. pc \in Uploading /\ pc = "putvideo" /\ pc # "converge"
        BY <3>2 DEF PutVideo, Uploading
      <4>2. k = att.key
        BY <1>t, <1>k, <2>3, <3>2, <4>1 DEF Keys
      <4>3. audio[k].parts = att.remote /\ video'[k.gen].parts = Target
        BY <3>2, <4>1, <4>2 DEF AttemptRight, PlanRight
      <4> QED
        BY <1>1, <1>k, <4>1, <4>3 DEF Parts
    <3>3. CASE video[k.gen].by = "none"
      BY <1>t, <2>3, <3>3 DEF ListsRight, Ours, Parts
    <3> QED
      BY <1>t, <3>1, <3>2, <3>3, PartsSteps
  <2> QED
    BY <2>2, <2>3
<1>2. CASE audio'[k].parts = audio[k].parts
  BY <1>1, <1>2, <1>g DEF Parts
<1>3. CASE PutAudio /\ k = att.dest /\ audio'[k].parts = Target /\ audio'[k].parts # audio[k].parts
  <2>0. /\ pc = "put" /\ pc \in Uploading /\ UNCHANGED <<dir, video>>
        /\ givenUp' = IF att.got = "gaveup" THEN givenUp \cup (att.add \ VideoHeld) ELSE givenUp
    BY <1>3 DEF PutAudio, Uploading
  <2>1. /\ x \in att.add \/ \E i \in DOMAIN att.remote : att.remote[i] = x
    BY <1>t, <1>3, TargetMembers DEF Parts
  <2>2. CASE \E i \in DOMAIN att.remote : att.remote[i] = x
    <3>1. att.dest = att.key
      BY <2>0, <2>2 DEF KeyRemembered
    <3>2. x \in Parts(audio[k])
      BY <1>3, <2>0, <2>2, <3>1 DEF AttemptRight, Parts
    <3> QED
      BY <1>1, <1>g, <3>2
  <2>3. CASE x \in att.add
    <3>1. x \in att.group /\ captured[x] # "off"
      BY <2>0, <2>3 DEF GroupFinished, PicturesFinished
    <3>2. att.got # "none"
      BY <2>0, <3>1 DEF PlanRight, WithVideo
    <3>3. CASE att.got = "stored"
      <4>1. video[att.key.gen].parts = Target /\ k = att.key
        BY <1>3, <2>0, <3>3 DEF PlanRight
      <4>2. k.raw = FALSE
        BY <1>k, <2>0, <4>1
      <4> QED
        BY <1>3, <2>0, <4>1, <4>2 DEF Parts
    <3>4. CASE att.got = "gaveup"
      <4>1. x \in givenUp' \/ x \in VideoHeld
        BY <2>0, <2>3, <3>4
      <4>2. CASE x \in VideoHeld
        <5>1. att.plan = "extend"
          BY <4>2 DEF VideoHeld
        <5>2. k = att.key /\ k.raw = FALSE
          BY <1>3, <1>k, <2>0, <5>1 DEF KeyRemembered
        <5>3. x \in Parts(video[k.gen])
          BY <2>0, <3>4, <4>2, <5>1, <5>2 DEF PlanRight
        <5> QED
          BY <2>0, <5>2, <5>3
      <4> QED
        BY <4>1, <4>2
    <3>5. att.got \in {"none", "stored", "gaveup"}
      BY <1>t DEF Attempts
    <3> QED
      BY <3>2, <3>3, <3>4, <3>5
  <2> QED
    BY <2>1, <2>2, <2>3
<1> QED
  BY <1>2, <1>3, PartsSteps

LEMMA PicturesHeldStep ==
  ASSUME IInv, PictureInv, [Next]_vars
  PROVE  PicturesHeld'
<1> USE DEF IInv, PictureInv, AudioInv
<1> SUFFICES ASSUME NEW g \in Gens, NEW x \in Sessions, x \in Parts(video'[g]), "ts" \in dir'[x]
             PROVE  x \in video'[g].shown \cup givenUp' \cup dropped' \/ givenUp' \cap Parts(audio'[M4A(g)]) # {}
  <2>1. video' \in [Gens -> VideoObjects]
    BY TypeStep DEF Typed
  <2>2. \A h \in Gens : Parts(video'[h]) \subseteq Sessions
    BY <2>1 DEF Parts, VideoObjects
  <2> QED
    BY <2>2 DEF PicturesHeld, WithTS, Parts
<1>t. /\ att \in Attempts /\ att.key \in Keys /\ M4A(g) \in Keys /\ M4A(g).raw = FALSE
  BY SequencesOfObjects DEF Typed, Keys, M4A
<1>g. givenUp \subseteq givenUp' /\ dropped \subseteq dropped'
  BY PartsSteps
<1>p. givenUp \cap Parts(audio[M4A(g)]) # {} => givenUp' \cap Parts(audio'[M4A(g)]) # {}
  BY <1>t, <1>g, PartsStay
<1>1. ASSUME x \in Parts(video[g])
      PROVE  \/ x \in video[g].shown
             \/ x \in givenUp' \cup dropped' \/ givenUp' \cap Parts(audio'[M4A(g)]) # {}
  <2>1. "ts" \in dir[x]
    BY <1>1, PictureFiles DEF ListsRight
  <2> QED
    BY <1>1, <1>g, <1>p, <2>1 DEF PicturesHeld, WithTS
<1>2. CASE video'[g] = video[g]
  BY <1>1, <1>2
<1>3. CASE /\ PutVideo /\ g = att.key.gen /\ video'[g] = att.built
           /\ dropped' = dropped \cup (VideoAt(att.key).shown \ att.built.shown)
  <2>0. pc = "putvideo" /\ pc \in Uploading /\ UNCHANGED dir
    BY <1>3 DEF PutVideo, Uploading
  <2>1. att.key.raw = FALSE /\ VideoAt(att.key) = video[g] /\ M4A(g) = att.key
    BY <1>t, <1>3, <2>0 DEF KeyRemembered, VideoAt, M4A, Keys
  <2>2. video'[g].parts = Target /\ Rest \subseteq video'[g].shown
    BY <1>3, <2>0 DEF PlanRight, SeenRight
  <2>3. x \in video[g].shown => x \in video'[g].shown \cup dropped'
    BY <1>3, <2>1
  <2>4. x \in Parts(video[g]) => \/ x \in video'[g].shown \cup givenUp' \cup dropped'
                                 \/ givenUp' \cap Parts(audio'[M4A(g)]) # {}
    BY <1>1, <2>3
  <2>5. x \in att.add \/ \E i \in DOMAIN att.remote : att.remote[i] = x
    BY <1>t, <2>2, TargetMembers DEF Parts
  <2>6. CASE \E i \in DOMAIN att.remote : att.remote[i] = x
    <3>1. x \in Parts(audio[att.key])
      BY <2>0, <2>6 DEF AttemptRight, Parts
    <3>2. x \in givenUp \/ x \in Parts(video[g])
      BY <1>t, <1>3, <2>0, <3>1 DEF AudioPictured, WithTS
    <3> QED
      BY <1>g, <2>4, <3>2
  <2>7. CASE x \in att.add
    <3>1. CASE att.plan = "extend" /\ x \in FirstOf(att.add, att.skip)
      <4>1. /\ video[g] = att.seen /\ Base + att.skip \in Prefixes
            /\ att.seen.parts = SubSeq(Target, 1, Base + att.skip)
        BY <1>3, <2>0, <3>1 DEF SeenRight
      <4>2. att.skip \in Nat /\ Base \in Nat /\ (Base + att.skip) - Base = att.skip
        BY <1>t, TargetLists DEF Attempts
      <4>3. x \in Parts(att.seen)
        <5> DEFINE n == Base + att.skip
        <5>1. n \in Prefixes /\ att.seen.parts = SubSeq(Target, 1, n) /\ n - Base = att.skip
          BY <4>1, <4>2
        <5> HIDE DEF n
        <5>2. att.present \cup FirstOf(att.add, n - Base) \subseteq Parts(att.seen)
          BY <5>1, HeldByPrefix
        <5> QED
          BY <3>1, <5>1, <5>2
      <4> QED
        BY <2>4, <4>1, <4>3
    <3>2. CASE ~(att.plan = "extend" /\ x \in FirstOf(att.add, att.skip))
      <4>1. x \in Rest
        BY <2>0, <2>7, <3>2 DEF Rest, WithTS
      <4> QED
        BY <2>2, <4>1
    <3> QED
      BY <3>1, <3>2
  <2> QED
    BY <2>5, <2>6, <2>7
<1>4. CASE video'[g].parts = <<>>
  BY <1>4 DEF Parts
<1> QED
  BY <1>2, <1>3, <1>4, PartsSteps

\* In either mode, a capture goes for what stands in its place.
LEMMA ModeRightStep ==
  ASSUME IInv, PictureInv, [Next]_vars
  PROVE  ModeRight'
<1> USE DEF IInv, PictureInv, AudioInv
<1>t. /\ att \in Attempts /\ mem \in [Sessions -> SessionRecords]
      /\ dir \in [Sessions -> SUBSET {"aac", "ts", "m4a", "mp4"}]
      /\ att.todo \subseteq Sessions /\ \A x \in att.todo : Done(mem[x])
      /\ att.cur \in Sessions => Done(mem[att.cur])
  BY DEF Typed, TypeOK, GroupFinished, Attempts
<1>h. ASSUME NEW x \in Sessions, Held(mem[x].key, x), mem'[x].key = mem[x].key PROVE Ours(audio'[mem'[x].key]) /\ x \in Parts(audio'[mem'[x].key])
  <2>1. PICK k \in Keys : k = mem[x].key
    BY <1>t DEF SessionRecords
  <2>2. Held(k, x)'
    BY <1>h, <2>1, HeldStays
  <2> QED
    BY <1>h, <2>1, <2>2 DEF Held, Ours, Parts
<1>1. CASE pc' \in Uploading
  <2>1. ~disabled'
    <3>1. ASSUME NEW s \in Sessions, Begin(s) PROVE ~disabled'
      BY <3>1 DEF Begin
    <3> QED
      BY <1>1, <3>1, AttemptInside DEF Inside, ModeRight
  <2> QED
    BY <1>1, <2>1 DEF ModeRight, Uploading, Keeping, Removing
<1>2. CASE pc' = "idle"
  BY <1>2 DEF ModeRight, Uploading, Keeping, Removing
<1>3. CASE UNCHANGED <<pc, att, disabled>> /\ pc \in Removing \cup Keeping
           /\ \A x \in Sessions : Done(mem[x]) => mem'[x] = mem[x] /\ dir'[x] = dir[x]
  <2>1. \A x \in att.todo : Held(mem[x].key, x) => Ours(audio'[mem'[x].key]) /\ x \in Parts(audio'[mem'[x].key])
    BY <1>3, <1>t, <1>h
  <2>2. att.cur \in Sessions /\ Held(mem[att.cur].key, att.cur) =>
          Ours(audio'[mem'[att.cur].key]) /\ att.cur \in Parts(audio'[mem'[att.cur].key])
    BY <1>3, <1>t, <1>h
  <2>3. pc \in {"keepname", "keepsave", "aac", "ts"} => att.cur \in Sessions
    BY DEF ModeRight, RemovalRight, Keeping
  <2>4. att.cur \in Sessions => dir'[att.cur] = dir[att.cur]
    BY <1>3, <1>t
  <2> QED
    BY <1>3, <2>1, <2>2, <2>3, <2>4 DEF ModeRight, Held, Ours, Parts, Uploading, Keeping, Removing
<1>4. CASE (\E s \in Sessions : StartSession(s) \/ Finalize(s)) \/ ForeignPut \/ UNCHANGED vars
  <2>1. \/ UNCHANGED <<mem, dir>>
        \/ \E s \in Sessions : /\ ~Done(mem[s]) /\ (\E r : mem' = [mem EXCEPT ![s] = r])
                               /\ UNCHANGED dir \/ \E d : dir' = [dir EXCEPT ![s] = d]
    <3>1. ASSUME NEW s \in Sessions, StartSession(s) \/ Finalize(s)
          PROVE  /\ ~Done(mem[s]) /\ (\E r : mem' = [mem EXCEPT ![s] = r])
                 /\ UNCHANGED dir \/ \E d : dir' = [dir EXCEPT ![s] = d]
      BY <3>1 DEF StartSession, Finalize, Done
    <3> QED
      BY <1>4, <3>1 DEF ForeignPut, vars
  <2>2. \A x \in Sessions : Done(mem[x]) => mem'[x] = mem[x] /\ dir'[x] = dir[x]
    BY <1>t, <2>1
  <2>3. UNCHANGED <<pc, att, disabled>>
    BY <1>4 DEF StartSession, Finalize, ForeignPut, vars
  <2>4. pc \in Removing \cup Keeping \cup Uploading \cup {"idle"}
    BY DEF Typed, TypeOK, PCs, Removing, Keeping, Uploading
  <2> QED
    BY <1>1, <1>2, <1>3, <2>2, <2>3, <2>4
<1>5. CASE (Converge \/ PutAudio \/ Fallback) /\ pc' = "record"
  <2>0. ~disabled /\ UNCHANGED disabled
    BY <1>5 DEF Converge, PutAudio, Fallback, ModeRight, Uploading
  <2>1. ConvergeFinishes \/ PutFinishes \/ FallbackFinishes
    BY <1>5 DEF Converge, PutAudio, Fallback, ConvergeFinishes, PutFinishes, FallbackFinishes, Finishing, Converged,
       Dropped, RawKey, RenameGroup, Return
  <2>2. PICK members \in SUBSET att.group, k \in Keys, got \in Verdicts :
          Finishing(members, k, got) /\ \A x \in members : Held(k, x)'
    BY <2>1, FinishedAreHeld
  <2>3. att'.todo = members /\ members \subseteq Sessions
    BY <1>t, <2>2 DEF Finishing, CompleteGroup, Attempts
  <2>4. ASSUME NEW x \in members PROVE Ours(audio'[mem'[x].key]) /\ x \in Parts(audio'[mem'[x].key])
    <3>1. mem'[x].key = k
      BY <2>2, <2>3, CompletedTyped DEF Finishing, CompleteGroup
    <3> QED
      BY <2>2, <3>1 DEF Held, Ours, Parts
  <2> QED
    BY <1>5, <2>0, <2>3, <2>4 DEF ModeRight, Held, Ours, Parts, Uploading, Keeping, Removing
<1>6. CASE RecordUpload
  <2>0. ~disabled /\ UNCHANGED <<disabled, mem, audio>> /\ pc = "record" /\ pc' \in {"record", "aac"}
    BY <1>6 DEF RecordUpload, ModeRight, store
  <2>1. PICK x \in att.todo : \/ att' = [att EXCEPT !.todo = att.todo \ {x}, !.cur = x]
                              \/ att' = [att EXCEPT !.todo = att.todo \ {x}, !.lost = TRUE] /\ pc' = "record"
    BY <1>6 DEF RecordUpload
  <2>2. att'.todo \subseteq att.todo /\ (pc' = "aac" => att'.cur = x)
    <3>1. CASE att' = [att EXCEPT !.todo = att.todo \ {x}, !.cur = x]
      BY <1>t, <3>1 DEF Attempts
    <3>2. CASE att' = [att EXCEPT !.todo = att.todo \ {x}, !.lost = TRUE] /\ pc' = "record"
      <4>1. att'.todo = att.todo \ {x}
        BY <1>t, <3>2 DEF Attempts
      <4> QED
        BY <3>2, <4>1
    <3> QED
      BY <2>1, <3>1, <3>2
  <2>3. \A y \in att.todo : y \in Sessions /\ Held(mem[y].key, y)
    BY <1>t, <2>0 DEF ModeRight, Removing
  <2> QED
    BY <2>0, <2>2, <2>3 DEF ModeRight, Held, Ours, Parts, Uploading, Keeping, Removing
<1>7. CASE RemoveCapture /\ pc' = "ts"
  <2>0. UNCHANGED <<disabled, mem, audio, att>> /\ pc = "aac" /\ (disabled => att.got = "stored")
    BY <1>7 DEF RemoveCapture, Return, store
  <2>1. att.cur \in Sessions
    BY <2>0 DEF ModeRight
  <2>2. "mp4" \in dir[att.cur] => "mp4" \in dir'[att.cur]
    BY <1>7, <1>t, <2>1 DEF RemoveCapture
  <2> QED
    BY <1>7, <2>0, <2>1, <2>2 DEF ModeRight, Held, Ours, Parts, Uploading, Keeping, Removing
<1>8. CASE RemovePictures /\ pc' = "record"
  <2>0. UNCHANGED <<disabled, mem, audio>> /\ pc = "ts" /\ ~disabled /\ att' = [att EXCEPT !.cur = Nobody]
    BY <1>8 DEF RemovePictures, Return, store
  <2>1. att'.todo = att.todo
    BY <1>t, <2>0 DEF Attempts
  <2> QED
    BY <1>8, <2>0, <2>1 DEF ModeRight, Held, Ours, Parts, Uploading, Keeping, Removing
<1>9. ASSUME NEW s \in Sessions, KeepBegin(s) PROVE ModeRight'
  <2>0. disabled /\ UNCHANGED disabled /\ pc = "idle"
    BY <1>9 DEF KeepBegin
  <2>1. CASE pc' = "keep"
    <3>1. att' = [Idle EXCEPT !.own = s, !.cur = s]
      BY <1>9, <2>0, <2>1 DEF KeepBegin
    <3>2. Idle \in Attempts /\ Idle.got = "none"
      BY IdleTyped DEF Idle
    <3>3. att'.got = "none"
      BY <3>1, <3>2 DEF Attempts
    <3> QED
      BY <2>0, <2>1, <3>3 DEF ModeRight, Uploading, Keeping, Removing
  <2>2. CASE pc' = "idle"
    BY <1>2, <2>2
  <2> QED
    BY <1>9, <2>0, <2>1, <2>2 DEF KeepBegin
<1>10. CASE KeepBuild /\ pc' # "idle"
  BY <1>10 DEF KeepBuild, Return, ModeRight, Uploading, Keeping, Removing
<1>11. CASE KeepVideo \/ KeepRename
  <2>0. disabled /\ UNCHANGED disabled /\ att.cur = att.own /\ att.own \in Sessions
    BY <1>11 DEF KeepVideo, KeepRename, ModeRight, Keeping, RemovalRight
  <2>1. att'.cur = att.cur
    BY <1>11, <1>t DEF KeepVideo, KeepRename, Attempts
  <2>2. CASE KeepVideo
    <3>1. \/ "mp4" \in dir'[att.cur]
          \/ att' = [att EXCEPT !.got = "gaveup"]
      BY <1>t, <2>0, <2>2 DEF KeepVideo
    <3>2. "mp4" \in dir'[att.cur] \/ att'.got # "stored"
      BY <1>t, <3>1 DEF Attempts
    <3> QED
      BY <2>0, <2>1, <2>2, <3>2 DEF KeepVideo, ModeRight, Uploading, Keeping, Removing
  <2>3. CASE KeepRename
    <3>1. "mp4" \in dir[att.cur] => "mp4" \in dir'[att.cur]
      BY <1>t, <2>0, <2>3 DEF KeepRename
    <3> QED
      BY <2>0, <2>3, <3>1 DEF KeepRename, ModeRight, Uploading, Keeping, Removing
  <2> QED
    BY <1>11, <2>2, <2>3
<1>12. CASE KeepSave /\ pc' # "idle"
  <2>0. disabled /\ UNCHANGED <<disabled, dir, att>> /\ pc = "keepsave" /\ pc' = "aac" /\ att.cur \in Sessions
    BY <1>12 DEF KeepSave, Return, ModeRight, Keeping, RemovalRight
  <2> QED
    BY <2>0 DEF ModeRight, Uploading, Keeping, Removing
<1>13. CASE pc' # "idle" /\ pc' \notin Uploading
            /\ (\/ \E s \in Sessions : Begin(s)
                \/ Converge \/ PutAudio \/ Fallback \/ RemoveCapture \/ RemovePictures \/ Recorded \/ Interrupted \/ Restart
                \/ HeadVideo \/ SpaceForVideo \/ NoSpaceForVideo \/ NoVideoBuild \/ BuildVideo \/ BuildVideoFails
                \/ PutVideo \/ PutDoc \/ RemuxFails)
  <2>1. \/ (Converge \/ PutAudio \/ Fallback) /\ pc' = "record"
        \/ RemoveCapture /\ pc' = "ts"
        \/ RemovePictures /\ pc' = "record"
    BY <1>13 DEF Begin, Converge, PutAudio, Fallback, RemoveCapture, RemovePictures, Recorded, Interrupted, Restart,
       HeadVideo, SpaceForVideo, NoSpaceForVideo, NoVideoBuild, BuildVideo, BuildVideoFails, PutVideo, PutDoc,
       RemuxFails, Return, RenameGroup, CompleteGroup, Uploading
  <2> QED
    BY <1>5, <1>7, <1>8, <2>1
<1> QED
  BY <1>1, <1>2, <1>4, <1>6, <1>9, <1>10, <1>11, <1>12, <1>13 DEF Next, AttemptStep

LEMMA InitPictureInv == Init => PictureInv
<1> SUFFICES ASSUME Init PROVE PictureInv
  OBVIOUS
<1> USE DEF Init
<1>1. /\ FinishedAlike
      /\ PicturesFinished
      /\ \A k \in Keys : Parts(audio[k]) = {} /\ audio[k].parts = <<>>
      /\ \A g \in Gens : Parts(video[g]) = {} /\ video[g] = NoVideo
  BY DEF FinishedAlike, PicturesFinished, Parts, NoAudio, NoVideo
<1>2. ListsRight /\ PicturesHeld /\ AudioPictured
  BY <1>1 DEF ListsRight, PicturesHeld, AudioPictured, WithTS, Ordered, NoVideo, Ours
<1>3. AttemptRight /\ SeenRight /\ ModeRight
  BY DEF AttemptRight, SeenRight, ModeRight, Uploading, Keeping, Removing
<1> QED
  BY <1>1, <1>2, <1>3 DEF PictureInv

LEMMA PictureInvStep == IInv /\ PictureInv /\ [Next]_vars => PictureInv'
<1> SUFFICES ASSUME IInv, PictureInv, [Next]_vars PROVE PictureInv'
  OBVIOUS
<1>1. FinishedAlike'
  BY FinishedAlikeStep DEF IInv, PictureInv
<1>2. ListsRight' /\ PicturesFinished' /\ AttemptRight' /\ SeenRight'
  BY ListsRightStep, PicturesFinishedStep, AttemptRightStep, SeenRightStep
<1>3. PicturesHeld' /\ AudioPictured' /\ ModeRight'
  BY PicturesHeldStep, AudioPicturedStep, ModeRightStep
<1> QED
  BY <1>1, <1>2, <1>3 DEF PictureInv

\* The strengthened invariant of the pictures: stored lists, TS files, what the
\* attempt knows of the .mp4 and which mode it runs in.
THEOREM PictureInvariance == Spec => [](IInv /\ PictureInv)
BY InitIInv, IInvStep, InitPictureInv, PictureInvStep, PTL DEF Spec

\* Whatever fails, and however often: removeVideoFiles takes TS files only for
\* a picture that was stored, kept, given up or dropped.
THEOREM PicturesRemovedRightlyHolds == Spec => PicturesRemovedRightly
<1> DEFINE Rightly(s) == "ts" \in dir[s] /\ "ts" \notin dir'[s] =>
                           \/ s \in VideoAt(mem[s].key).shown \/ "mp4" \in dir[s]
                           \/ s \in givenUp \/ givenUp \cap Parts(audio[mem[s].key]) # {}
                           \/ s \in dropped
<1>1. IInv /\ PictureInv /\ [Next]_vars => [\A s \in Sessions : Rightly(s)]_vars
  <2> SUFFICES ASSUME IInv, PictureInv, [Next]_vars, NEW s \in Sessions, "ts" \in dir[s], "ts" \notin dir'[s]
               PROVE  \/ s \in VideoAt(mem[s].key).shown \/ "mp4" \in dir[s]
                      \/ s \in givenUp \/ givenUp \cap Parts(audio[mem[s].key]) # {}
                      \/ s \in dropped
    OBVIOUS
  <2> USE DEF IInv, PictureInv, AudioInv
  <2>1. RemovePictures /\ s = att.cur /\ pc = "ts"
    <3>1. Done(mem[s])
      BY DEF PicturesFinished
    <3> QED
      BY <3>1, PictureFiles DEF RemovePictures
  <2>2. CASE disabled
    BY <2>1, <2>2 DEF ModeRight
  <2>3. CASE ~disabled
    <3>1. PICK k \in Keys : k = mem[s].key
      BY DEF Typed, TypeOK, SessionRecords
    <3>2. Held(k, s)
      BY <2>1, <2>3, <3>1 DEF ModeRight
    <3>3. s \in givenUp \/ (k.raw = FALSE /\ s \in Parts(video[k.gen]))
      BY <3>2 DEF AudioPictured, WithTS, Held
    <3>4. CASE k.raw = FALSE /\ s \in Parts(video[k.gen])
      <4>1. k.gen \in Gens /\ k = M4A(k.gen) /\ VideoAt(k) = video[k.gen]
        BY <3>4 DEF Keys, M4A, VideoAt
      <4>2. \/ s \in video[k.gen].shown \cup givenUp \cup dropped
            \/ givenUp \cap Parts(audio[k]) # {}
        BY <3>4, <4>1 DEF PicturesHeld, WithTS
      <4> QED
        BY <3>1, <4>1, <4>2
    <3> QED
      BY <3>3, <3>4
  <2> QED
    BY <2>2, <2>3
<1> QED
  BY <1>1, PictureInvariance, PTL DEF Spec, PicturesRemovedRightly

\* An .mp4 that lists what the .m4a lists, and otherwise only sessions about to
\* be added, none of them past one it misses, is the HEAD's to extend.
LEMMA StoredIsExtended ==
  ASSUME IInv, PictureInv, pc = "putvideo", NEW g \in Gens, g = att.key.gen,
         ~Lags(g), ~Deserted(g), ~Overtaken(g), Ours(video[g])
  PROVE  video[g].parts = Target \/ Extends(video[g])
<1> USE DEF IInv, PictureInv, AudioInv
<1> DEFINE k == att.key
           a == video[g].parts
           b == Target
<1>1. /\ att \in Attempts /\ k \in Keys /\ k.raw = FALSE /\ k = [gen |-> g, raw |-> FALSE] /\ pc \in Uploading
  BY SequencesOfObjects DEF Typed, Keys, KeyRemembered, Uploading
<1>2. /\ b \in Seq(Sessions) /\ Base \in Nat /\ Base <= Len(b) /\ audio[k].parts = att.remote
      /\ \A i \in 1 .. Base : b[i] = att.remote[i]
      /\ DOMAIN att.remote = 1 .. Base
  BY <1>1, TargetLists DEF AttemptRight, Base, Attempts
<1>3. a \in Seq(Sessions) /\ a # <<>> /\ Ordered(a)
  BY DEF Typed, VideoObjects, ListsRight
<1>4. Ordered(b)
  BY <1>1, TargetDone
<1>5. a \in Seq(Nat) /\ b \in Seq(Nat)
  <2>1. ASSUME NEW p \in Seq(Sessions) PROVE p \in Seq(Nat)
    <3>1. Len(p) \in Nat /\ p \in [1 .. Len(p) -> Sessions]
      OBVIOUS
    <3>2. p \in [1 .. Len(p) -> Nat]
      BY <3>1, SessionsAssumption
    <3> QED
      BY <3>1, <3>2
  <2> HIDE DEF a, b
  <2> QED
    BY <1>2, <1>3, <2>1
<1>6. \A x \in Parts(audio[k]) : x \in Parts(video[g])
  BY <1>1 DEF Lags
<1>7. ASSUME NEW i \in DOMAIN a PROVE \E j \in DOMAIN b : b[j] = a[i]
  <2>1. a[i] \in Parts(video[g]) /\ a[i] \in Sessions
    BY <1>3 DEF Parts
  <2>2. a[i] \in Parts(audio[k]) \/ a[i] \in Waiting(k)
    BY <1>1, <2>1 DEF Deserted, Waiting
  <2>3. CASE a[i] \in Parts(audio[k])
    <3>1. \E j \in 1 .. Base : att.remote[j] = a[i]
      BY <1>2, <2>3 DEF Parts
    <3> QED
      BY <1>2, <3>1
  <2>4. CASE a[i] \in Waiting(k)
    <3>1. a[i] \in att.add \cup att.present
      BY <1>1, <2>1, <2>4 DEF AttemptRight
    <3> QED
      BY <1>1, <3>1, TargetCovers
  <2> QED
    BY <2>2, <2>3, <2>4
<1>8. ASSUME NEW j \in DOMAIN b PROVE (\E i \in DOMAIN a : a[i] = b[j]) \/ \A i \in DOMAIN a : a[i] < b[j]
  <2>1. b[j] \in att.add \/ \E i \in DOMAIN att.remote : att.remote[i] = b[j]
    BY <1>1, TargetMembers
  <2>2. CASE b[j] \in Parts(video[g])
    BY <2>2 DEF Parts
  <2>3. CASE b[j] \in att.add /\ b[j] \notin Parts(video[g])
    <3>1. b[j] \in Waiting([gen |-> g, raw |-> FALSE])
      BY <1>1, <2>3 DEF AttemptRight
    <3>2. ASSUME NEW i \in DOMAIN a PROVE a[i] < b[j]
      <4>1. a[i] \in Parts(video[g])
        BY DEF Parts
      <4>2. ~(b[j] < a[i]) /\ a[i] # b[j]
        BY <2>3, <3>1, <4>1 DEF Overtaken
      <4>3. a[i] \in Nat /\ b[j] \in Nat
        <5> HIDE DEF a, b
        <5> QED
          BY <1>5
      <4> QED
        BY <4>2, <4>3
    <3> QED
      BY <3>2
  <2>4. CASE \E i \in DOMAIN att.remote : att.remote[i] = b[j]
    BY <1>2, <1>6, <2>2, <2>4 DEF Parts
  <2> QED
    BY <2>1, <2>2, <2>3, <2>4
<1>9. Len(a) <= Len(b) /\ a = SubSeq(b, 1, Len(a))
  <2> HIDE DEF a, b
  <2> QED
    BY <1>3, <1>4, <1>5, <1>7, <1>8, OrderedPrefix
<1>10. ASSUME Len(a) < Base PROVE FALSE
  <2> DEFINE n == Len(a) + 1
  <2>1. n \in 1 .. Base /\ n \in 1 .. Len(b) /\ n \in DOMAIN att.remote
    BY <1>2, <1>3, <1>10
  <2>2. b[n] \in Parts(audio[k])
    BY <1>2, <2>1 DEF Parts
  <2>3. PICK i \in DOMAIN a : a[i] = b[n]
    BY <1>6, <2>2 DEF Parts
  <2>4. i \in 1 .. Len(a) /\ i \in 1 .. Len(b) /\ i < n /\ i \in Nat
    <3> HIDE DEF a, b
    <3> QED
      BY <1>3, <1>2, <1>9, <2>3 DEF n
  <2>5. a[i] = b[i]
    <3> HIDE DEF a, b
    <3>1. SubSeq(b, 1, Len(a))[i] = b[i]
      BY <1>2, <1>3, <1>9, <2>4
    <3> QED
      BY <1>9, <3>1
  <2>6. b[i] < b[n]
    BY <1>2, <1>4, <2>1, <2>4 DEF Ordered
  <2> HIDE DEF n
  <2>7. b[i] = b[n] /\ b[n] \in Nat
    BY <1>5, <2>1, <2>3, <2>5
  <2> QED
    BY <2>6, <2>7
<1>11. CASE Len(a) = Len(b)
  BY <1>1, <1>9, <1>11, TargetPrefixes DEF Typed
<1>12. CASE Len(a) # Len(b)
  <2>1. Len(a) \in Nat /\ Len(a) > 0 /\ Len(b) \in Nat
    <3> HIDE DEF a, b
    <3> QED
      BY <1>2, <1>3
  <2>2. Len(a) \in Prefixes
    BY <1>2, <1>9, <1>10, <1>12, <2>1 DEF Prefixes
  <2> QED
    BY <1>9, <2>2 DEF Extends
<1> QED
  BY <1>11, <1>12

\* Whatever fails, and however often: putVideo never costs a stored picture
\* unless the .mp4 and the .m4a disagree in one of three ways.
THEOREM StoredPicturesStayHolds == Spec => StoredPicturesStay
<1> DEFINE Stays(g) == video[g].shown \subseteq video'[g].shown \/ Lags(g) \/ Deserted(g) \/ Overtaken(g)
<1>1. IInv /\ PictureInv /\ [Next]_vars => [\A g \in Gens : Stays(g)]_vars
  <2> SUFFICES ASSUME IInv, PictureInv, [Next]_vars, NEW g \in Gens, ~Lags(g), ~Deserted(g), ~Overtaken(g)
               PROVE  video[g].shown \subseteq video'[g].shown
    OBVIOUS
  <2> USE DEF IInv, PictureInv, AudioInv
  <2>1. CASE video'[g] = video[g]
    BY <2>1
  <2>2. CASE video[g].by = "none"
    BY <2>2 DEF ListsRight, Ours
  <2>3. CASE PutVideo /\ g = att.key.gen /\ video'[g] = att.built
    <3>1. pc = "putvideo"
      BY <2>3 DEF PutVideo
    <3>2. CASE att.plan = "extend"
      BY <2>3, <3>1, <3>2 DEF SeenRight
    <3>3. CASE att.plan = "fresh"
      <4>1. video[g] = att.seen \/ video[g].shown = {}
        BY <2>3, <3>1, <3>3 DEF SeenRight
      <4>2. CASE video[g] = att.seen /\ video[g].shown # {}
        <5>1. Ours(video[g])
          BY <4>2 DEF ListsRight
        <5>2. video[g].parts # Target /\ ~Extends(video[g])
          BY <3>1, <3>3, <4>2, <5>1 DEF SeenRight
        <5> QED
          BY <2>3, <3>1, <5>1, <5>2, StoredIsExtended
      <4> QED
        BY <4>1, <4>2
    <3> QED
      BY <3>1, <3>2, <3>3 DEF SeenRight
  <2> QED
    BY <2>1, <2>2, <2>3, PartsSteps
<1> QED
  BY <1>1, PictureInvariance, PTL DEF Spec, StoredPicturesStay
=============================================================================
