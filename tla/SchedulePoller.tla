--------------------------- MODULE SchedulePoller ---------------------------
(***************************************************************************)
(* Where Manager.sched comes from: the fetcher with its ETag, the parser   *)
(* and the cache file (internal/schedule/schedule.go), and the poller that *)
(* puts the result in force (internal/recorder/poller.go).  What Lifecycle *)
(* does as one step, Fetch, is here a request, an answer, the parsing with *)
(* the ETag and the cache file, and the hand-over; the server may publish, *)
(* and the process end, between any two of them.                           *)
(*                                                                         *)
(* A document is what the server sends, entry by entry.  Of an entry the   *)
(* model keeps what decides about others: its id, its start (earlier or    *)
(* later), its object key, and whether parseItem accepts it.               *)
(***************************************************************************)
EXTENDS Integers, Sequences

CONSTANTS Ids, Urls, Documents,
          NoId,          \* of an entry whose id cannot be read
          Malformed,     \* a document that is not JSON, or no list
          NoSchedule, NoTag, NoAnswer,
          Faults,        \* bounds: cache files that cannot be written, crashes
          MaxVersions    \* bound: documents a URL serves

FaultKinds == {"cache", "crash"}

\* A key is its number of leading slashes; all keys have the same name.
NoKey == -1
Keys == Nat \cup {NoKey}

Entries == [id : Ids \cup {NoId}, start : {1, 2}, key : Keys, ok : BOOLEAN]

ASSUME DocumentsAssumption ==
  /\ Documents \subseteq Seq(Entries) \cup {Malformed}
  /\ \A d \in Documents \ {Malformed} : \A i \in DOMAIN d : d[i].ok => d[i].id # NoId
ASSUME NoneAssumption   == NoTag \notin Nat /\ NoId \notin Ids
ASSUME FaultsAssumption == Faults \in [FaultKinds -> Nat] /\ MaxVersions \in Nat

VARIABLES url,      \* SCHEDULE_URL of this process
          served,   \* the documents each URL has served, the last is the current one
          etag,     \* Fetcher.etag
          sched,    \* Manager.sched
          cache,    \* schedule.cache.json: a set, empty without the file
          pc,       \* the poller: start, idle, asked, answered, stored
          answer,   \* the document that was received
          faults    \* events left, by kind

vars == <<url, served, etag, sched, cache, pc, answer, faults>>

-----------------------------------------------------------------------------
\* Parsing.

\* strings.TrimPrefix(key, "/"): one slash.
TrimmedKey(k) == IF k > 0 THEN k - 1 ELSE k

\* Item, and parseItem.
Items == [id : Ids, start : {1, 2}, key : Keys]

ParsedItem(e) == [id |-> e.id, start |-> e.start, key |-> TrimmedKey(e.key)]

Conflict(x, y) == x.id = y.id \/ (x.key = y.key /\ x.key # NoKey)

\* The items that start at st, in the order of the list.
StartingAt(st, items) ==
  LET first[i \in 0 .. Len(items)] ==  \* of the first i items
        IF i = 0 THEN <<>>
        ELSE IF items[i].start = st THEN Append(first[i - 1], items[i]) ELSE first[i - 1]
  IN first[Len(items)]

\* sort.SliceStable by start.
ByStart(items) == StartingAt(1, items) \o StartingAt(2, items)

\* A round of Parse's loop takes an entry unless parseItem refuses it, or an item taken
\* before it has its id or key.
Round(e) ==
  [p \in [items : Seq(Items), invalid : SUBSET (Ids \cup {NoId})] |->
     IF e.ok /\ \A k \in DOMAIN p.items : ~Conflict(p.items[k], ParsedItem(e))
       THEN [p EXCEPT !.items = Append(@, ParsedItem(e))]
       ELSE [p EXCEPT !.invalid = @ \cup {e.id}]]

\* Parse: the items and the ids of the rejected entries.
Parsed(doc) ==
  LET first[i \in 0 .. Len(doc)] ==  \* the first i entries
        IF i = 0 THEN [items |-> <<>>, invalid |-> {}] ELSE Round(doc[i])[first[i - 1]]
      p == first[Len(doc)]
  IN [items |-> ByStart(p.items), invalid |-> p.invalid \ {NoId}]

\* A document whose entries are all invalid is an error, an empty one is not.
Parses(doc) == doc # Malformed /\ (doc = <<>> \/ Parsed(doc).items # <<>>)

\* A parsed document with its FetchedAt, of which only the order matters.
Schedule(version, p) == [version |-> version, items |-> p.items, invalid |-> p.invalid]

-----------------------------------------------------------------------------
\* The cache file.

\* Mutant: rejected ids are not kept.
CachedBare(s) == [url |-> url, version |-> s.version, items |-> s.items, invalid |-> {}]

\* saveCache.
Cached(s) == [url |-> url, version |-> s.version, items |-> s.items, invalid |-> s.invalid]

\* LoadCache reads the items as a document again.
AsEntries(items) == [i \in DOMAIN items |-> [id |-> items[i].id, start |-> items[i].start,
                                             key |-> items[i].key, ok |-> TRUE]]

Usable(c) == c.url = url /\ Parses(AsEntries(c.items))

Loaded(c) == LET p == Parsed(AsEntries(c.items))
             IN Schedule(c.version, [p EXCEPT !.invalid = @ \cup c.invalid])

-----------------------------------------------------------------------------
Happens(kind) == /\ faults[kind] > 0
                 /\ faults' = [faults EXCEPT ![kind] = @ - 1]

Init == /\ url \in Urls
        /\ served \in [Urls -> {<<d>> : d \in Documents}]
        /\ etag = NoTag
        /\ sched = NoSchedule /\ cache = {}
        /\ pc = "start" /\ answer = NoAnswer
        /\ faults = Faults

\* RunSchedulePoller before its first poll.
LoadCache ==
  /\ pc = "start"
  /\ \/ \E c \in cache : Usable(c) /\ sched' = Loaded(c)
     \/ (\A c \in cache : ~Usable(c)) /\ UNCHANGED sched
  /\ pc' = "idle"
  /\ UNCHANGED <<url, served, etag, cache, answer, faults>>

\* pollOnce: the request, with If-None-Match when there is an ETag.
Ask ==
  /\ pc = "idle"
  /\ pc' = "asked"
  /\ UNCHANGED <<url, served, etag, sched, cache, answer, faults>>

\* No answer, a status other than 2xx, a body that is cut or too long.
FetchFails ==
  /\ pc = "asked"
  /\ pc' = "idle"
  /\ UNCHANGED <<url, served, etag, sched, cache, answer, faults>>

\* 304: only a request with an ETag may be answered so.
NotModified ==
  /\ pc = "asked"
  /\ etag # NoTag /\ etag = Len(served[url])
  /\ pc' = "idle"
  /\ UNCHANGED <<url, served, etag, sched, cache, answer, faults>>

\* Mutant: the ETag counts before the document is parsed.
AnsweredTagged ==
  /\ pc = "asked"
  /\ \E tagged \in BOOLEAN :
       /\ answer' = [version |-> Len(served[url]), doc |-> served[url][Len(served[url])], tagged |-> tagged]
       /\ etag' = IF tagged THEN Len(served[url]) ELSE NoTag
  /\ pc' = "answered"
  /\ UNCHANGED <<url, served, sched, cache, faults>>

\* 200, with or without an ETag; a server may ignore If-None-Match.
Answered ==
  /\ pc = "asked"
  /\ \E tagged \in BOOLEAN :
       answer' = [version |-> Len(served[url]), doc |-> served[url][Len(served[url])], tagged |-> tagged]
  /\ pc' = "answered"
  /\ UNCHANGED <<url, served, etag, sched, cache, faults>>

Tag == IF answer.tagged THEN answer.version ELSE NoTag

Rejected ==
  /\ pc = "answered"
  /\ ~Parses(answer.doc)
  /\ pc' = "idle" /\ answer' = NoAnswer
  /\ UNCHANGED <<url, served, etag, sched, cache, faults>>

\* Mutant: a cache file that cannot be written fails the fetch.
StoredStrictly ==
  /\ pc = "answered"
  /\ Parses(answer.doc)
  /\ etag' = Tag
  /\ \/ /\ cache' = {Cached(Schedule(answer.version, Parsed(answer.doc)))}
        /\ pc' = "stored"
        /\ UNCHANGED <<faults, answer>>
     \/ /\ Happens("cache")
        /\ pc' = "idle" /\ answer' = NoAnswer
        /\ UNCHANGED cache
  /\ UNCHANGED <<url, served, sched>>

\* Mutant: a schedule without an ETag is not cached.
StoredIfTagged ==
  /\ pc = "answered"
  /\ Parses(answer.doc)
  /\ etag' = Tag
  /\ \/ /\ cache' = IF answer.tagged THEN {Cached(Schedule(answer.version, Parsed(answer.doc)))} ELSE cache
        /\ UNCHANGED faults
     \/ Happens("cache") /\ UNCHANGED cache
  /\ pc' = "stored"
  /\ UNCHANGED <<url, served, sched, answer>>

\* The rest of Fetch: the ETag counts only now; CacheError is no failure.
Stored ==
  /\ pc = "answered"
  /\ Parses(answer.doc)
  /\ etag' = Tag
  /\ \/ /\ cache' = {Cached(Schedule(answer.version, Parsed(answer.doc)))}
        /\ UNCHANGED faults
     \/ Happens("cache") /\ UNCHANGED cache
  /\ pc' = "stored"
  /\ UNCHANGED <<url, served, sched, answer>>

\* pollOnce: applyScheduleLocked.
Apply ==
  /\ pc = "stored"
  /\ sched' = Schedule(answer.version, Parsed(answer.doc))
  /\ pc' = "idle" /\ answer' = NoAnswer
  /\ UNCHANGED <<url, served, etag, cache, faults>>

\* The process ends, at will or not, and is started again, perhaps with another URL.
Restart ==
  /\ Happens("crash")
  /\ url' \in Urls
  /\ etag' = NoTag /\ sched' = NoSchedule
  /\ pc' = "start" /\ answer' = NoAnswer
  /\ UNCHANGED <<served, cache>>

Publish(u, d) ==
  /\ Len(served[u]) < MaxVersions
  /\ served' = [served EXCEPT ![u] = Append(@, d)]
  /\ UNCHANGED <<url, etag, sched, cache, pc, answer, faults>>

Poll == LoadCache \/ Ask \/ FetchFails \/ NotModified \/ Answered \/ Rejected \/ Stored \/ Apply

Next == Poll \/ Restart \/ \E u \in Urls, d \in Documents : Publish(u, d)

Spec == Init /\ [][Next]_vars

\* The poller's timer fires again and again; an outage ends, so a server that is
\* asked for ever answers at last.
FairSpec == Spec /\ WF_vars(Poll) /\ SF_vars(NotModified \/ Answered)

-----------------------------------------------------------------------------
\* Properties.

Schedules == [version : Nat, items : Seq(Items), invalid : SUBSET Ids]

\* Every variable keeps its type.
TypeOK ==
  /\ url \in Urls
  /\ served \in [Urls -> Seq(Documents)]
  /\ etag \in Nat \cup {NoTag}
  /\ sched = NoSchedule \/ sched \in Schedules
  /\ cache \subseteq [url : Urls, version : Nat, items : Seq(Items), invalid : SUBSET Ids]
  /\ pc \in {"start", "idle", "asked", "answered", "stored"}
  /\ answer = NoAnswer \/ answer \in [version : Nat, doc : Documents, tagged : BOOLEAN]
  /\ faults \in [FaultKinds -> Nat]

\* The schedule of the n-th document of the URL.
Version(n) == Schedule(n, Parsed(served[url][n]))

\* Whenever the next request carries an ETag, the document it names is in force: a 304
\* changes nothing, so an ETag that runs ahead would keep an old schedule for ever.
UnmodifiedIsCurrent ==
  pc \in {"idle", "asked"} /\ etag # NoTag => sched = Version(etag)

\* What a schedule says of a document, in the README's words: an invalid entry is
\* reported and the rest is applied, of entries with one id or key the first wins, an
\* id vanishes only when it is absent.
IsScheduleOf(s, doc) ==
  LET taken(i) == doc[i].ok /\ \E k \in DOMAIN s.items : s.items[k] = ParsedItem(doc[i])
  IN /\ doc # Malformed
     /\ doc # <<>> => s.items # <<>>
     /\ \A k \in DOMAIN s.items :
          /\ \E i \in DOMAIN doc : taken(i) /\ s.items[k] = ParsedItem(doc[i])
          /\ \A l \in 1 .. k - 1 : ~Conflict(s.items[k], s.items[l]) /\ s.items[l].start <= s.items[k].start
     /\ \A i \in DOMAIN doc : doc[i].ok /\ ~taken(i) =>
          \E j \in 1 .. i - 1 : taken(j) /\ Conflict(ParsedItem(doc[i]), ParsedItem(doc[j]))
     /\ \A i \in DOMAIN doc : doc[i].id # NoId =>
          doc[i].id \in s.invalid \cup {s.items[k].id : k \in DOMAIN s.items}

\* parseItem takes one slash off a key, and the cache is parsed once more: a second
\* slash is lost in a restart.
SingleSlashes(doc) == \A i \in DOMAIN doc : doc[i].key <= 1

\* The schedule in force is a right reading of a document that the configured URL has
\* served, also when it comes from the cache file: no item is invented, none that is
\* still listed is stopped as removed.
InForceWasServed ==
  sched # NoSchedule =>
    /\ sched.version \in 1 .. Len(served[url])
    /\ LET doc == served[url][sched.version]
       IN SingleSlashes(doc) => IsScheduleOf(sched, doc)

\* A restart falls back to nothing older than what was in force, as long as the cache
\* could be written.
CacheCurrent ==
  faults["cache"] = Faults["cache"] /\ sched # NoSchedule =>
    \E c \in cache : c.url = url /\ c.version >= sched.version

\* If from some time on what the server offers can be parsed, its last document is in
\* force in the end.
Converges ==
  <>[]Parses(served[url][Len(served[url])]) => <>[](sched = Version(Len(served[url])))
=============================================================================
