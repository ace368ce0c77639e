--------------------------- MODULE CaptureFile_proof ---------------------------
(***************************************************************************)
(* For any cap of the table, length of a trusted chain, bounds and number  *)
(* of faults: frames are counted to the run that recorded them, ranges of  *)
(* runs do not overlap, no torn frame that can be recognised is buried and *)
(* a record has the video of all of its runs or of none.                   *)
(*                                                                         *)
(* A position of the file is firm when no trim will ever cut in front of   *)
(* it.  The offset of every record, of the sidecar too, is firm, and so is *)
(* the end of a record that was closed while no write failed; with the     *)
(* offsets in order, and the sidecar listing what the table lists, that    *)
(* carries every property through crashes, trims and failed saves.         *)
(***************************************************************************)
EXTENDS CaptureFile, SequenceTheorems, WellFoundedInduction, TLAPS

Settled(f) == ~(EndsPartially(f) /\ Trusted(f))
Firm(f, p) == p \in 0 .. Len(f) /\ Settled(SubSeq(f, 1, p))

Last(table) == table[Len(table)]
EndOf(r) == r.offset + r.bytes

TableOK(f, table) ==
  /\ table \in Seq(Records)
  /\ \A i \in 1 .. Len(table) - 1 : ~table[i].open
  /\ \A i, j \in 1 .. Len(table) : i <= j => table[i].offset <= table[j].offset
  /\ \A i \in 1 .. Len(table) : Firm(f, table[i].offset) /\ table[i].files \in {{}, table[i].covers}

RangesOK(f, table) ==
  /\ \A i \in 1 .. Len(table) - 1 : EndOf(table[i]) <= table[i + 1].offset
  /\ table # <<>> /\ ~Last(table).open => Firm(f, EndOf(Last(table)))

Same(t, u) == /\ Len(t) = Len(u)
              /\ \A i \in 1 .. Len(t) : t[i].offset = u[i].offset /\ t[i].covers = u[i].covers

\* What Owner chooses from.
Owns(table, pos, k) == /\ \A j \in 2 .. k : pos >= table[j].offset
                       /\ k = Len(table) \/ pos < table[k + 1].offset

Counted(f, table) ==
  \A i \in 1 .. Len(f) : f[i].kind = "frame" =>
    /\ table # <<>>
    /\ \A k \in 1 .. Len(table) : Owns(table, i - 1, k) => f[i].run \in table[k].covers

\* The run of ffmpeg, from its begin to the end of its record.
Running == pc \in {"run", "flushed"}

RunOK ==
  /\ pc \notin {"down", "measured"} => bytes = Len(file)
  /\ pc = "top" /\ ~restart => file = <<>>
  /\ Running => /\ run.n >= 1
                /\ run.offset + run.bytes = Len(file)
                /\ Firm(file, run.offset)
                /\ \A i \in 1 .. Len(runs) : runs[i].offset <= run.offset
                /\ run.werr => ~NoneFailed("write")
  /\ pc = "run" => /\ ~run.werr => Settled(file)
                   /\ ~run.started => run.bytes = 0
                   /\ NoneFailed("write") /\ ~run.started /\ runs # <<>> => EndOf(Last(runs)) <= run.offset
  /\ pc = "flushed" /\ NoneFailed("write") => Firm(file, run.offset + run.endBytes)

RecordOK ==
  /\ pc = "down" => runs = disk
  /\ pc # "down" /\ HasOpenRun(runs) => Running /\ run.started
  /\ Running /\ run.started => /\ HasOpenRun(runs)
                               /\ Last(runs).offset = run.offset /\ Last(runs).covers = {run.n}
                               /\ Last(runs).bytes <= run.bytes

LengthsOK ==
  /\ NoneFailed("write") /\ pc # "measured" => RangesOK(file, runs)
  /\ NoneFailed("write") => RangesOK(file, disk)
  /\ pc = "measured" => RangesDisjoint

CountsOK == NoneFailed("save") => Same(runs, disk) /\ Counted(file, runs)

FaultsOK == \A kind \in FaultKinds : faults[kind] <= Faults[kind]

IInv ==
  /\ TypeOK /\ FaultsOK
  /\ NoBuriedPart
  /\ TableOK(file, runs) /\ TableOK(file, disk)
  /\ RunOK /\ RecordOK /\ LengthsOK /\ CountsOK

-----------------------------------------------------------------------------
\* The smallest of a set of numbers: what the CHOOSEs of the model rest on.
LEMMA SmallestOf ==
  ASSUME NEW T \in SUBSET Nat, T # {}
  PROVE  \E x \in T : \A y \in T : x <= y
<1> DEFINE Less == {p \in Nat \X Nat : p[1] < p[2]}
<1>1. IsWellFoundedOn(Less, Nat)
  BY NatLessThanWellFounded DEF OpToRel
<1>2. PICK x \in T : \A y \in T : <<y, x>> \notin Less
  <2> HIDE DEF Less
  <2> QED
    BY <1>1, WFMin
<1>3. ASSUME NEW y \in T PROVE x <= y
  <2>1. <<y, x>> \in Nat \X Nat /\ <<y, x>> \notin Less
    BY <1>2, <1>3
  <2>2. ~(y < x)
    BY <2>1
  <2> QED
    BY <2>2
<1> QED
  BY <1>3

\* A tail is trimmed behind a complete frame only.
LEMMA ChainExists ==
  ASSUME NEW f \in Seq(Pieces), f # <<>>
  PROVE  /\ ChainLength(f) \in 0 .. Len(f) - 1
         /\ ChainLength(f) >= 1 => f[Len(f) - 1].kind # "part"
<1> DEFINE Stops == {k \in 0 .. Len(f) - 1 : k = Len(f) - 1 \/ f[Len(f) - 1 - k].kind = "part"}
<1>1. Len(f) \in Nat /\ Len(f) >= 1
  OBVIOUS
<1>2. Stops \in SUBSET Nat /\ Len(f) - 1 \in Stops
  BY <1>1
<1>3. PICK k \in Stops : \A j \in Stops : k <= j
  <2> HIDE DEF Stops
  <2> QED
    BY <1>2, SmallestOf
<1>4. ASSUME NEW i \in Len(f) - k .. Len(f) - 1 PROVE f[i].kind # "part"
  <2>1. Len(f) - 1 - i \in 0 .. Len(f) - 1 /\ Len(f) - 1 - i < k /\ Len(f) - 1 - (Len(f) - 1 - i) = i
    BY <1>1, <1>3
  <2>2. Len(f) - 1 - i \notin Stops
    BY <1>3, <2>1
  <2> QED
    BY <2>1, <2>2
<1>5. \E c \in 0 .. Len(f) - 1 :
        /\ \A i \in Len(f) - c .. Len(f) - 1 : f[i].kind # "part"
        /\ c = Len(f) - 1 \/ f[Len(f) - 1 - c].kind = "part"
  BY <1>3, <1>4
<1>6. /\ ChainLength(f) \in 0 .. Len(f) - 1
      /\ \A i \in Len(f) - ChainLength(f) .. Len(f) - 1 : f[i].kind # "part"
  BY <1>5 DEF ChainLength
<1>7. ChainLength(f) >= 1 => Len(f) - 1 \in Len(f) - ChainLength(f) .. Len(f) - 1
  BY <1>1, <1>6
<1> QED
  BY <1>6, <1>7

LEMMA TrustedNeedsFrame ==
  ASSUME NEW f \in Seq(Pieces), f # <<>>, Trusted(f)
  PROVE  Len(f) >= 2 /\ f[Len(f) - 1].kind # "part"
<1>1. ChainLength(f) \in 0 .. Len(f) - 1 /\ ChainLength(f) >= 1
  BY ChainExists, ChainAssumption DEF Trusted
<1> QED
  BY <1>1, ChainExists

-----------------------------------------------------------------------------
\* Prefixes, trims and firm positions.
LEMMA Prefixes ==
  ASSUME NEW f \in Seq(Pieces)
  PROVE  /\ SubSeq(f, 1, Len(f)) = f
         /\ \A p \in 0 .. Len(f) : /\ SubSeq(f, 1, p) \in Seq(Pieces)
                                   /\ Len(SubSeq(f, 1, p)) = p
                                   /\ \A i \in 1 .. p : SubSeq(f, 1, p)[i] = f[i]
         /\ \A n \in 0 .. Len(f) : \A p \in 0 .. n : SubSeq(SubSeq(f, 1, n), 1, p) = SubSeq(f, 1, p)
         /\ \A x \in Pieces, p \in 0 .. Len(f) : SubSeq(Append(f, x), 1, p) = SubSeq(f, 1, p)
<1>1. SubSeq(f, 1, Len(f)) = f
  OBVIOUS
<1>2. ASSUME NEW p \in 0 .. Len(f)
      PROVE  /\ SubSeq(f, 1, p) \in Seq(Pieces)
             /\ Len(SubSeq(f, 1, p)) = p
             /\ \A i \in 1 .. p : SubSeq(f, 1, p)[i] = f[i]
  OBVIOUS
<1>3. ASSUME NEW n \in 0 .. Len(f), NEW p \in 0 .. n
      PROVE  SubSeq(SubSeq(f, 1, n), 1, p) = SubSeq(f, 1, p)
  OBVIOUS
<1>4. ASSUME NEW x \in Pieces, NEW p \in 0 .. Len(f)
      PROVE  SubSeq(Append(f, x), 1, p) = SubSeq(f, 1, p)
  OBVIOUS
<1> QED
  BY <1>1, <1>2, <1>3, <1>4

LEMMA SettledPrefix ==
  ASSUME NEW f \in Seq(Pieces), NEW p \in 1 .. Len(f)
  PROVE  Settled(SubSeq(f, 1, p)) <=> (f[p].kind = "part" => ~Trusted(SubSeq(f, 1, p)))
<1>1. p \in 0 .. Len(f) /\ p \in 1 .. p
  OBVIOUS
<1>2. Len(SubSeq(f, 1, p)) = p /\ SubSeq(f, 1, p)[p] = f[p]
  BY <1>1, Prefixes
<1>3. SubSeq(f, 1, p) # <<>>
  BY <1>2
<1> QED
  BY <1>2, <1>3 DEF Settled, EndsPartially

LEMMA FirmEnd ==
  ASSUME NEW f \in Seq(Pieces)
  PROVE  Firm(f, Len(f)) <=> Settled(f)
<1>1. Len(f) \in 0 .. Len(f)
  OBVIOUS
<1> QED
  BY <1>1, Prefixes DEF Firm

\* NoBuriedPart, of any file.
NoneBuried(f) == \A p \in 1 .. Len(f) - 1 : Settled(SubSeq(f, 1, p))

LEMMA BuriedMeans ==
  ASSUME NEW f \in Seq(Pieces)
  PROVE  NoneBuried(f) <=> \A i \in 1 .. Len(f) - 1 : f[i].kind = "part" => ~Trusted(SubSeq(f, 1, i))
<1>1. \A p \in 1 .. Len(f) - 1 : p \in 1 .. Len(f)
  OBVIOUS
<1> QED
  BY <1>1, SettledPrefix DEF NoneBuried

\* g keeps what is firm in f, and buries nothing.
Keeps(f, g) == /\ g \in Seq(Pieces)
               /\ \A p \in Nat : Firm(f, p) => Firm(g, p)
               /\ NoneBuried(f) => NoneBuried(g)

LEMMA AppendKeeps ==
  ASSUME NEW f \in Seq(Pieces), NEW x \in Pieces, Settled(f)
  PROVE  Keeps(f, Append(f, x)) /\ Len(Append(f, x)) = Len(f) + 1
<1>1. Append(f, x) \in Seq(Pieces) /\ Len(Append(f, x)) = Len(f) + 1
  OBVIOUS
<1>2. ASSUME NEW p \in Nat, Firm(f, p) PROVE Firm(Append(f, x), p)
  <2>1. p \in 0 .. Len(f) /\ p \in 0 .. Len(Append(f, x))
    BY <1>1, <1>2 DEF Firm
  <2> QED
    BY <1>2, <2>1, Prefixes DEF Firm
<1>3. ASSUME NoneBuried(f), NEW p \in 1 .. Len(Append(f, x)) - 1
      PROVE  Settled(SubSeq(Append(f, x), 1, p))
  <2>1. p \in 0 .. Len(f) /\ (p = Len(f) \/ p \in 1 .. Len(f) - 1)
    BY <1>1
  <2>2. Settled(SubSeq(f, 1, p))
    BY <1>3, <2>1, Prefixes DEF NoneBuried
  <2> QED
    BY <2>1, <2>2, Prefixes
<1> QED
  BY <1>1, <1>2, <1>3 DEF Keeps, NoneBuried

LEMMA TrimmedIsPrefix ==
  ASSUME NEW f \in Seq(Pieces)
  PROVE  /\ Len(Trimmed(f)) \in {Len(f), Len(f) - 1} \cap Nat
         /\ Trimmed(f) = SubSeq(f, 1, Len(Trimmed(f)))
         /\ Settled(f) <=> Trimmed(f) = f
         /\ Settled(Trimmed(f))
<1>1. CASE Settled(f)
  BY <1>1, Prefixes DEF Settled, Trimmed
<1>2. CASE ~Settled(f)
  <2>1. Trimmed(f) = SubSeq(f, 1, Len(f) - 1) /\ f # <<>> /\ Trusted(f)
    BY <1>2 DEF Settled, Trimmed, EndsPartially
  <2>2. Len(f) >= 2 /\ f[Len(f) - 1].kind # "part"
    BY <2>1, TrustedNeedsFrame
  <2>3. Len(f) - 1 \in 0 .. Len(f) /\ Len(f) - 1 \in 1 .. Len(f)
    BY <2>2
  <2>4. Len(Trimmed(f)) = Len(f) - 1
    BY <2>1, <2>3, Prefixes
  <2>5. Settled(Trimmed(f))
    BY <2>1, <2>2, <2>3, SettledPrefix
  <2>6. Trimmed(f) # f /\ Len(f) - 1 \in Nat
    BY <2>2, <2>4
  <2>7. Trimmed(f) = SubSeq(f, 1, Len(Trimmed(f)))
    BY <2>1, <2>4
  <2> QED
    BY <1>2, <2>4, <2>5, <2>6, <2>7
<1> QED
  BY <1>1, <1>2

LEMMA TrimKeeps ==
  ASSUME NEW f \in Seq(Pieces)
  PROVE  /\ Keeps(f, Trimmed(f)) /\ Settled(Trimmed(f))
         /\ Len(Trimmed(f)) <= Len(f)
         /\ \A i \in 1 .. Len(Trimmed(f)) : Trimmed(f)[i] = f[i]
<1> DEFINE n == Len(Trimmed(f))
<1>1. n \in 0 .. Len(f) /\ n >= Len(f) - 1 /\ Trimmed(f) = SubSeq(f, 1, n) /\ Settled(Trimmed(f))
  BY TrimmedIsPrefix
<1>2. Trimmed(f) \in Seq(Pieces) /\ \A i \in 1 .. n : Trimmed(f)[i] = f[i]
  BY <1>1, Prefixes
<1>3. \A p \in 0 .. n : SubSeq(Trimmed(f), 1, p) = SubSeq(f, 1, p)
  BY <1>1, Prefixes
<1>4. ASSUME NEW p \in Nat, Firm(f, p) PROVE Firm(Trimmed(f), p)
  <2>1. p \in 0 .. Len(f) /\ Settled(SubSeq(f, 1, p))
    BY <1>4 DEF Firm
  <2>2. CASE p = Len(f)
    <3>1. Trimmed(f) = f
      BY <2>1, <2>2, Prefixes, TrimmedIsPrefix
    <3> QED
      BY <1>4, <3>1
  <2>3. CASE p # Len(f)
    <3>1. p \in 0 .. n
      BY <1>1, <2>1, <2>3
    <3> QED
      BY <1>3, <2>1, <3>1 DEF Firm
  <2> QED
    BY <2>2, <2>3
<1>5. ASSUME NoneBuried(f) PROVE NoneBuried(Trimmed(f))
  <2>1. \A p \in 1 .. n - 1 : p \in 1 .. Len(f) - 1 /\ p \in 0 .. n
    BY <1>1
  <2> QED
    BY <1>3, <1>5, <2>1 DEF NoneBuried
<1> QED
  BY <1>1, <1>2, <1>4, <1>5 DEF Keeps

-----------------------------------------------------------------------------
\* Tables.
LEMMA RecordTypes ==
  ASSUME NEW t \in Seq(Records), NEW i \in 1 .. Len(t)
  PROVE  /\ t[i] \in Records
         /\ t[i].offset \in Nat /\ t[i].bytes \in Nat /\ EndOf(t[i]) \in Nat
         /\ t[i].covers \in SUBSET RunNumbers /\ t[i].files \in SUBSET RunNumbers
<1>1. t[i] \in Records
  OBVIOUS
<1>2. t[i].offset \in Nat /\ t[i].bytes \in Nat
  BY <1>1 DEF Records
<1> QED
  BY <1>1, <1>2 DEF EndOf, Records

LEMMA KeptTable ==
  ASSUME NEW f \in Seq(Pieces), NEW g, Keeps(f, g), NEW table \in Seq(Records)
  PROVE  /\ TableOK(f, table) => TableOK(g, table)
         /\ RangesOK(f, table) => RangesOK(g, table)
<1>1. \A i \in 1 .. Len(table) : table[i].offset \in Nat /\ EndOf(table[i]) \in Nat
  BY RecordTypes
<1>2. table # <<>> => Len(table) \in 1 .. Len(table)
  OBVIOUS
<1> QED
  BY <1>1, <1>2 DEF Keeps, TableOK, RangesOK, Last

\* u is the table t with other lengths.
Rewritten(t, u) ==
  /\ u \in Seq(Records)
  /\ Same(t, u)
  /\ \A i \in 1 .. Len(u) - 1 : ~u[i].open
  /\ \A i \in 1 .. Len(u) : u[i].files \in {{}, u[i].covers}

LEMMA RewrittenTable ==
  ASSUME NEW f, NEW t \in Seq(Records), NEW u, TableOK(f, t), Rewritten(t, u)
  PROVE  TableOK(f, u)
BY DEF TableOK, Rewritten, Same

\* Only the last record changes, and not where it begins or whose it is.
LastChanged(t, u) ==
  /\ u \in Seq(Records) /\ Len(u) = Len(t) /\ t # <<>>
  /\ \A i \in 1 .. Len(t) - 1 : u[i] = t[i]
  /\ Last(u).offset = Last(t).offset /\ Last(u).covers = Last(t).covers
  /\ Last(u).files \in {{}, Last(u).covers}

LEMMA LastChangedTable ==
  ASSUME NEW f, NEW t \in Seq(Records), NEW u, TableOK(f, t), LastChanged(t, u)
  PROVE  /\ Rewritten(t, u) /\ TableOK(f, u)
         /\ RangesOK(f, t) /\ (Last(u).open \/ Firm(f, EndOf(Last(u)))) => RangesOK(f, u)
<1>1. Len(t) \in Nat /\ Len(t) >= 1 /\ u # <<>>
  BY DEF LastChanged
<1>2. \A i \in 1 .. Len(t) : i \in 1 .. Len(t) - 1 \/ i = Len(t)
  BY <1>1
<1>3. \A i \in 1 .. Len(t) - 1 : i \in 1 .. Len(t) /\ i + 1 \in 1 .. Len(t)
  BY <1>1
<1>4. \A i \in 1 .. Len(t) : u[i].offset = t[i].offset /\ u[i].covers = t[i].covers
  BY <1>2 DEF LastChanged, Last
<1>5. Rewritten(t, u)
  <2>1. \A i \in 1 .. Len(u) - 1 : ~u[i].open
    BY <1>3 DEF LastChanged, TableOK
  <2>2. \A i \in 1 .. Len(u) : u[i].files \in {{}, u[i].covers}
    BY <1>2 DEF LastChanged, TableOK, Last
  <2> QED
    BY <1>4, <2>1, <2>2 DEF Rewritten, Same, LastChanged
<1>6. RangesOK(f, t) /\ (Last(u).open \/ Firm(f, EndOf(Last(u)))) => RangesOK(f, u)
  BY <1>3, <1>4 DEF RangesOK, LastChanged, EndOf
<1> QED
  BY <1>5, <1>6, RewrittenTable

LEMMA SameCounts ==
  ASSUME NEW f, NEW t, NEW u, Same(t, u), Len(t) \in Nat, Counted(f, t), t # <<>> => u # <<>>
  PROVE  Counted(f, u)
<1>1. \A k \in 1 .. Len(t) : \A pos : Owns(u, pos, k) => Owns(t, pos, k)
  <2> SUFFICES ASSUME NEW k \in 1 .. Len(t), NEW pos, Owns(u, pos, k) PROVE Owns(t, pos, k)
    OBVIOUS
  <2>1. \A j \in 2 .. k : j \in 1 .. Len(t)
    OBVIOUS
  <2>2. k # Len(t) => k + 1 \in 1 .. Len(t)
    OBVIOUS
  <2> QED
    BY <2>1, <2>2 DEF Owns, Same
<1> QED
  BY <1>1 DEF Counted, Same

\* c is the table t with the records i and i + 1 made one.
Merges(t, c, i) ==
  LET a == t[i]
      b == t[i + 1]
  IN /\ i \in 1 .. Len(t) - 2
     /\ c \in Seq(Records) /\ Len(c) = Len(t) - 1
     /\ \A k \in 1 .. i - 1 : c[k] = t[k]
     /\ \A k \in i + 1 .. Len(c) : c[k] = t[k + 1]
     /\ c[i].offset = a.offset /\ c[i].bytes = a.bytes + b.bytes
     /\ c[i].covers = a.covers \cup b.covers /\ ~c[i].open
     /\ c[i].files = {} \/ (Alike(a, b) /\ c[i].files = a.files \cup b.files)

\* c is t with m in place of the records i and i + 1.
Replaces(t, c, i, m) ==
  /\ c \in Seq(Records) /\ Len(c) = Len(t) - 1
  /\ \A k \in 1 .. i - 1 : c[k] = t[k]
  /\ c[i] = m
  /\ \A k \in i + 1 .. Len(c) : c[k] = t[k + 1]

LEMMA Spliced ==
  ASSUME NEW t \in Seq(Records), NEW i \in 1 .. Len(t) - 2, NEW m \in Records,
         NEW c, c = SubSeq(t, 1, i - 1) \o <<m>> \o SubSeq(t, i + 2, Len(t))
  PROVE  Replaces(t, c, i, m)
<1> DEFINE x == SubSeq(t, 1, i - 1)
           y == SubSeq(t, i + 2, Len(t))
<1>1. x \in Seq(Records) /\ Len(x) = i - 1 /\ \A k \in 1 .. i - 1 : x[k] = t[k]
  OBVIOUS
<1>2. y \in Seq(Records) /\ Len(y) = Len(t) - i - 1 /\ \A k \in 1 .. Len(t) - i - 1 : y[k] = t[k + i + 1]
  OBVIOUS
<1>3. c = (x \o <<m>>) \o y
  OBVIOUS
<1> HIDE DEF x, y
<1> DEFINE z == x \o <<m>>
<1>4. z \in Seq(Records) /\ Len(z) = i /\ z[i] = m /\ \A k \in 1 .. i - 1 : z[k] = t[k]
  <2>1. <<m>> \in Seq(Records) /\ Len(<<m>>) = 1 /\ <<m>>[1] = m
    OBVIOUS
  <2>2. /\ z \in Seq(Records) /\ Len(z) = i
        /\ \A k \in 1 .. i : z[k] = IF k <= i - 1 THEN x[k] ELSE <<m>>[k - (i - 1)]
    BY <1>1, <2>1, ConcatProperties
  <2>3. i \in 1 .. i /\ ~(i <= i - 1) /\ i - (i - 1) = 1
    OBVIOUS
  <2>4. z[i] = m
    BY <2>1, <2>2, <2>3
  <2>5. \A k \in 1 .. i - 1 : k \in 1 .. i /\ k <= i - 1
    OBVIOUS
  <2> QED
    BY <1>1, <2>2, <2>4, <2>5
<1>5. c = z \o y
  BY <1>3
<1> HIDE DEF z
<1>6. /\ c \in Seq(Records) /\ Len(c) = Len(t) - 1
      /\ \A k \in 1 .. Len(c) : c[k] = IF k <= i THEN z[k] ELSE y[k - i]
  <2>0. z \in Seq(Records) /\ y \in Seq(Records)
    BY <1>2, <1>4
  <2>1. /\ c \in Seq(Records) /\ Len(c) = Len(z) + Len(y)
        /\ \A k \in 1 .. Len(z) + Len(y) : c[k] = IF k <= Len(z) THEN z[k] ELSE y[k - Len(z)]
    <3>1. /\ z \o y \in Seq(Records) /\ Len(z \o y) = Len(z) + Len(y)
          /\ \A k \in 1 .. Len(z) + Len(y) : (z \o y)[k] = IF k <= Len(z) THEN z[k] ELSE y[k - Len(z)]
      BY <2>0, ConcatProperties
    <3> QED
      BY <1>5, <3>1
  <2>2. Len(z) + Len(y) = Len(t) - 1 /\ Len(z) = i
    BY <1>2, <1>4
  <2> QED
    BY <2>1, <2>2
<1>7. \A k \in 1 .. i : c[k] = z[k]
  BY <1>6
<1>8. ASSUME NEW k \in i + 1 .. Len(c) PROVE c[k] = t[k + 1]
  <2>1. k - i \in 1 .. Len(t) - i - 1 /\ (k - i) + i + 1 = k + 1 /\ k \in 1 .. Len(c) /\ ~(k <= i)
    BY <1>6
  <2> QED
    BY <1>2, <1>6, <2>1
<1>9. i \in 1 .. i /\ \A k \in 1 .. i - 1 : k \in 1 .. i
  OBVIOUS
<1>10. c[i] = m /\ \A k \in 1 .. i - 1 : c[k] = t[k]
  BY <1>4, <1>7, <1>9
<1> QED
  BY <1>6, <1>8, <1>10 DEF Replaces

LEMMA Coalesces ==
  ASSUME NEW t \in Seq(Records), Len(t) >= 3
  PROVE  \E i \in Nat : Merges(t, Coalesced(t), i)
<1> DEFINE pairs == {j \in 1 .. Len(t) - 2 : Alike(t[j], t[j + 1])}
           i == IF pairs = {} THEN 1 ELSE CHOOSE j \in pairs : \A k \in pairs : j <= k
           a == t[i]
           b == t[i + 1]
           m == [covers |-> a.covers \cup b.covers, offset |-> a.offset, bytes |-> a.bytes + b.bytes, open |-> FALSE,
                 files  |-> IF pairs = {} THEN {} ELSE a.files \cup b.files]
<1>1. i \in 1 .. Len(t) - 2 /\ (pairs = {} \/ Alike(a, b))
  <2>1. pairs \in SUBSET Nat /\ \A j \in pairs : j \in 1 .. Len(t) - 2 /\ Alike(t[j], t[j + 1])
    OBVIOUS
  <2> HIDE DEF pairs
  <2>2. pairs # {} => \E j \in pairs : \A k \in pairs : j <= k
    BY <2>1, SmallestOf
  <2>3. CASE pairs # {}
    <3>1. i \in pairs
      BY <2>2, <2>3
    <3> HIDE DEF i
    <3> QED
      BY <2>1, <3>1
  <2>4. CASE pairs = {}
    <3>1. i = 1
      BY <2>4
    <3> QED
      BY <2>4, <3>1
  <2> QED
    BY <2>3, <2>4
<1>2. Coalesced(t) = SubSeq(t, 1, i - 1) \o <<m>> \o SubSeq(t, i + 2, Len(t))
  BY DEF Coalesced
<1> HIDE DEF i, pairs
<1>3. a \in Records /\ b \in Records
  BY <1>1
<1>4. m \in Records
  <2>1. /\ a.covers \in SUBSET RunNumbers /\ b.covers \in SUBSET RunNumbers
        /\ a.files \in SUBSET RunNumbers /\ b.files \in SUBSET RunNumbers
        /\ a.bytes \in Nat /\ b.bytes \in Nat /\ a.offset \in Nat
    <3> HIDE DEF a, b
    <3> QED
      BY <1>3 DEF Records
  <2> HIDE DEF a, b
  <2>2. /\ a.covers \cup b.covers \in SUBSET RunNumbers
        /\ (IF pairs = {} THEN {} ELSE a.files \cup b.files) \in SUBSET RunNumbers
        /\ a.bytes + b.bytes \in Nat
    BY <2>1
  <2> QED
    BY <2>1, <2>2 DEF Records
<1>5. /\ m.offset = a.offset /\ m.bytes = a.bytes + b.bytes /\ m.covers = a.covers \cup b.covers /\ ~m.open
      /\ m.files = {} \/ (Alike(a, b) /\ m.files = a.files \cup b.files)
  BY <1>1
<1> HIDE DEF m
<1>6. Replaces(t, Coalesced(t), i, m)
  <2> HIDE DEF a, b
  <2> QED
    BY <1>1, <1>2, <1>4, Spliced
<1>7. Merges(t, Coalesced(t), i)
  BY <1>1, <1>5, <1>6 DEF Merges, Replaces
<1> QED
  BY <1>1, <1>7

LEMMA MergedTable ==
  ASSUME NEW f, NEW t \in Seq(Records), NEW c, NEW i \in Nat, Merges(t, c, i), TableOK(f, t)
  PROVE  /\ TableOK(f, c)
         /\ RangesOK(f, t) => RangesOK(f, c)
         /\ Counted(f, t) => Counted(f, c)
<1>1. /\ i \in 1 .. Len(t) - 2 /\ Len(c) = Len(t) - 1 /\ Len(t) \in Nat /\ c \in Seq(Records)
      /\ c # <<>> /\ t # <<>>
  BY DEF Merges
<1> DEFINE Was(k) == IF k <= i THEN k ELSE k + 1
<1>3. \A k \in 1 .. Len(c) : k # i => c[k] = t[Was(k)]
  BY <1>1 DEF Merges
<1>2. \A k \in 1 .. Len(c) : Was(k) \in 1 .. Len(t) /\ c[k].offset = t[Was(k)].offset
  <2> SUFFICES ASSUME NEW k \in 1 .. Len(c) PROVE Was(k) \in 1 .. Len(t) /\ c[k].offset = t[Was(k)].offset
    OBVIOUS
  <2>1. Was(k) \in 1 .. Len(t)
    BY <1>1
  <2>2. k = i => c[k].offset = t[k].offset /\ Was(k) = k
    BY <1>1 DEF Merges
  <2> QED
    BY <1>3, <2>1, <2>2
<1>4. TableOK(f, c)
  <2>1. \A k \in 1 .. Len(c) - 1 : ~c[k].open
    <3> SUFFICES ASSUME NEW k \in 1 .. Len(c) - 1 PROVE ~c[k].open
      OBVIOUS
    <3>1. k # i => Was(k) \in 1 .. Len(t) - 1 /\ c[k] = t[Was(k)]
      BY <1>1, <1>3
    <3> QED
      BY <3>1 DEF TableOK, Merges
  <2>2. \A k, j \in 1 .. Len(c) : k <= j => c[k].offset <= c[j].offset
    <3> SUFFICES ASSUME NEW k \in 1 .. Len(c), NEW j \in 1 .. Len(c), k <= j PROVE c[k].offset <= c[j].offset
      OBVIOUS
    <3>1. Was(k) <= Was(j)
      BY <1>1
    <3> QED
      BY <1>2, <3>1 DEF TableOK
  <2>3. \A k \in 1 .. Len(c) : Firm(f, c[k].offset)
    BY <1>2 DEF TableOK
  <2>4. \A k \in 1 .. Len(c) : c[k].files \in {{}, c[k].covers}
    <3> SUFFICES ASSUME NEW k \in 1 .. Len(c) PROVE c[k].files \in {{}, c[k].covers}
      OBVIOUS
    <3>1. CASE k # i
      BY <1>2, <1>3, <3>1 DEF TableOK
    <3>2. CASE k = i
      <4>1. i \in 1 .. Len(t) /\ i + 1 \in 1 .. Len(t)
        BY <1>1
      <4> QED
        BY <3>2, <4>1 DEF Merges, TableOK, Alike
    <3> QED
      BY <3>1, <3>2
  <2> QED
    BY <1>1, <2>1, <2>2, <2>3, <2>4 DEF TableOK
<1>5. ASSUME RangesOK(f, t) PROVE RangesOK(f, c)
  <2>1. Last(c) = Last(t)
    BY <1>1, <1>3 DEF Last
  <2>2. ASSUME NEW k \in 1 .. Len(c) - 1 PROVE EndOf(c[k]) <= c[k + 1].offset
    <3>1. CASE k < i
      <4>1. /\ k \in 1 .. Len(t) - 1 /\ k + 1 \in 1 .. Len(c)
            /\ Was(k) = k /\ Was(k + 1) = k + 1 /\ k \in 1 .. Len(c) /\ k # i
        BY <1>1, <3>1
      <4>2. c[k] = t[k] /\ c[k + 1].offset = t[k + 1].offset
        <5> HIDE DEF Was
        <5> QED
          BY <1>2, <1>3, <4>1
      <4> QED
        BY <1>5, <4>1, <4>2 DEF RangesOK
    <3>2. CASE k = i
      <4>1. /\ i \in 1 .. Len(t) - 1 /\ i + 1 \in 1 .. Len(t) - 1 /\ i \in 1 .. Len(t) /\ i + 1 \in 1 .. Len(t)
            /\ c[k + 1] = t[i + 1 + 1]
        BY <1>1, <3>2 DEF Merges
      <4>2. t[i] \in Records /\ t[i + 1] \in Records /\ t[i + 1 + 1] \in Records
        BY <1>1, <4>1
      <4>3. /\ t[i].offset + t[i].bytes <= t[i + 1].offset
            /\ t[i + 1].offset + t[i + 1].bytes <= t[i + 1 + 1].offset
            /\ c[i].offset = t[i].offset /\ c[i].bytes = t[i].bytes + t[i + 1].bytes
        BY <1>5, <4>1 DEF RangesOK, EndOf, Merges
      <4>4. /\ t[i].offset \in Nat /\ t[i].bytes \in Nat /\ t[i + 1].offset \in Nat /\ t[i + 1].bytes \in Nat
            /\ t[i + 1 + 1].offset \in Nat
        BY <4>2 DEF Records
      <4>5. EndOf(c[k]) = t[i].offset + (t[i].bytes + t[i + 1].bytes) /\ c[k + 1].offset = t[i + 1 + 1].offset
        BY <3>2, <4>1, <4>3 DEF EndOf
      <4>6. t[i].offset + (t[i].bytes + t[i + 1].bytes) <= t[i + 1 + 1].offset
        <5> DEFINE v == t[i].offset
                   w == t[i].bytes
                   x == t[i + 1].offset
                   y == t[i + 1].bytes
                   z == t[i + 1 + 1].offset
        <5>1. v + w <= x /\ x + y <= z /\ v \in Nat /\ w \in Nat /\ x \in Nat /\ y \in Nat /\ z \in Nat
          BY <4>3, <4>4
        <5> HIDE DEF v, w, x, y, z
        <5>2. v + (w + y) <= z
          BY <5>1
        <5> QED
          BY <5>2 DEF v, w, y, z
      <4> QED
        BY <4>5, <4>6
    <3>3. CASE k > i
      <4>1. k + 1 \in 1 .. Len(t) - 1 /\ k + 1 \in i + 1 .. Len(c) /\ k \in i + 1 .. Len(c)
        BY <1>1, <3>3
      <4>2. c[k] = t[k + 1] /\ c[k + 1] = t[k + 1 + 1]
        BY <4>1 DEF Merges
      <4> QED
        BY <1>5, <4>1, <4>2 DEF RangesOK
    <3> QED
      BY <1>1, <3>1, <3>2, <3>3
  <2> QED
    BY <1>1, <1>5, <2>1, <2>2 DEF RangesOK
<1>6. ASSUME Counted(f, t), NEW p \in 1 .. Len(f), f[p].kind = "frame"
      PROVE  /\ c # <<>>
             /\ \A k \in 1 .. Len(c) : Owns(c, p - 1, k) => f[p].run \in c[k].covers
  <2> SUFFICES ASSUME NEW k \in 1 .. Len(c), Owns(c, p - 1, k) PROVE f[p].run \in c[k].covers
    BY <1>1
  <2>0. \A j \in 2 .. k : p - 1 >= c[j].offset
    BY DEF Owns
  <2>1. CASE k < i
    <3>1. k \in 1 .. Len(t) /\ k \in 1 .. i - 1 /\ k + 1 \in 1 .. Len(c) /\ Was(k + 1) = k + 1 /\ k # Len(c)
      BY <1>1, <2>1
    <3>2. c[k] = t[k] /\ c[k + 1].offset = t[k + 1].offset
      <4> HIDE DEF Was
      <4> QED
        BY <1>2, <3>1 DEF Merges
    <3>3. \A j \in 2 .. k : j \in 1 .. i - 1
      BY <3>1
    <3>4. \A j \in 2 .. k : c[j] = t[j]
      BY <3>3 DEF Merges
    <3>5. Owns(t, p - 1, k)
      BY <2>0, <3>1, <3>2, <3>4 DEF Owns
    <3> QED
      BY <1>6, <3>1, <3>2, <3>5 DEF Counted
  <2>2. CASE k = i
    <3>1. i \in 1 .. Len(t) /\ i + 1 \in 1 .. Len(t) /\ i + 1 # Len(t) /\ i # Len(t)
      BY <1>1
    <3>2. c[i].covers = t[i].covers \cup t[i + 1].covers
      BY DEF Merges
    <3>3. \A j \in 2 .. i : p - 1 >= t[j].offset
      <4> SUFFICES ASSUME NEW j \in 2 .. i PROVE p - 1 >= t[j].offset
        OBVIOUS
      <4>1. j \in 1 .. Len(c) /\ Was(j) = j
        BY <1>1
      <4>2. c[j].offset = t[j].offset
        <5> HIDE DEF Was
        <5> QED
          BY <1>2, <4>1
      <4> QED
        BY <2>0, <2>2, <4>2
    <3>4. t[i + 1].offset \in Int
      <4>1. t[i + 1] \in Records
        BY <3>1
      <4> QED
        BY <4>1 DEF Records
    <3>5. CASE p - 1 < t[i + 1].offset
      <4>1. Owns(t, p - 1, i)
        BY <3>3, <3>5 DEF Owns
      <4> QED
        BY <1>6, <2>2, <3>1, <3>2, <4>1 DEF Counted
    <3>6. CASE p - 1 >= t[i + 1].offset
      <4>1. \A j \in 2 .. i + 1 : j \in 2 .. i \/ j = i + 1
        OBVIOUS
      <4>2. \A j \in 2 .. i + 1 : p - 1 >= t[j].offset
        BY <3>3, <3>6, <4>1
      <4>3. p - 1 < t[i + 1 + 1].offset
        <5>1. i + 1 \in i + 1 .. Len(c) /\ i # Len(c)
          BY <1>1
        <5>2. c[i + 1] = t[i + 1 + 1]
          BY <5>1 DEF Merges
        <5> QED
          BY <2>2, <5>1, <5>2 DEF Owns
      <4>4. Owns(t, p - 1, i + 1)
        BY <1>1, <4>2, <4>3 DEF Owns
      <4> QED
        BY <1>6, <2>2, <3>1, <3>2, <4>4 DEF Counted
    <3> QED
      BY <3>4, <3>5, <3>6
  <2>3. CASE k > i
    <3>1. k + 1 \in 1 .. Len(t) /\ k \in i + 1 .. Len(c) /\ i + 1 \in i + 1 .. Len(c) /\ i + 1 \in 2 .. k
      BY <1>1, <2>3
    <3>2. c[k] = t[k + 1] /\ c[i + 1] = t[i + 1 + 1]
      BY <3>1 DEF Merges
    <3>3. ASSUME NEW j \in 2 .. k + 1 PROVE p - 1 >= t[j].offset
      <4>1. CASE j <= i
        <5>1. j \in 1 .. Len(c) /\ Was(j) = j /\ j \in 2 .. k
          BY <1>1, <2>3, <4>1
        <5>2. c[j].offset = t[j].offset
          <6> HIDE DEF Was
          <6> QED
            BY <1>2, <5>1
        <5> QED
          BY <2>0, <5>1, <5>2
      <4>2. CASE j = i + 1
        <5>1. i + 1 \in 1 .. Len(t) /\ i + 1 + 1 \in 1 .. Len(t) /\ i + 1 <= i + 1 + 1
          BY <1>1
        <5>2. t[i + 1].offset <= t[i + 1 + 1].offset
          BY <5>1 DEF TableOK
        <5>3. p - 1 >= t[i + 1 + 1].offset
          BY <2>0, <3>1, <3>2
        <5>5. t[i + 1].offset \in Int /\ t[i + 1 + 1].offset \in Int
          BY <5>1, RecordTypes
        <5> QED
          BY <4>2, <5>2, <5>3, <5>5
      <4>3. CASE j > i + 1
        <5>1. j - 1 \in 2 .. k /\ j - 1 \in i + 1 .. Len(c) /\ j - 1 + 1 = j
          BY <1>1, <4>3
        <5>2. c[j - 1] = t[j]
          BY <5>1 DEF Merges
        <5> QED
          BY <2>0, <5>1, <5>2
      <4> QED
        BY <4>1, <4>2, <4>3
    <3>4. k + 1 = Len(t) \/ p - 1 < t[k + 1 + 1].offset
      <4> SUFFICES ASSUME k # Len(c) PROVE p - 1 < t[k + 1 + 1].offset
        BY <1>1
      <4>1. k + 1 \in i + 1 .. Len(c)
        BY <3>1
      <4>2. c[k + 1] = t[k + 1 + 1]
        BY <4>1 DEF Merges
      <4> QED
        BY <4>2 DEF Owns
    <3> QED
      BY <1>6, <3>1, <3>2, <3>3, <3>4 DEF Counted, Owns
  <2> QED
    BY <1>1, <2>1, <2>2, <2>3
<1>7. Counted(f, t) => Counted(f, c)
  BY <1>6 DEF Counted
<1> QED
  BY <1>4, <1>5, <1>7

LEMMA Appended ==
  ASSUME NEW t \in Seq(Records), NEW r \in Records, NEW u, u = Append(t, r)
  PROVE  /\ u \in Seq(Records) /\ Len(u) = Len(t) + 1 /\ Len(t) \in Nat /\ u # <<>>
         /\ u[Len(t) + 1] = r /\ \A i \in 1 .. Len(t) : u[i] = t[i]
<1>1. u \in Seq(Records) /\ Len(u) = Len(t) + 1 /\ Len(t) \in Nat
  BY AppendProperties
<1>2. u # <<>>
  BY <1>1
<1> QED
  BY <1>1, <1>2, AppendProperties

\* A table with one more record at its end.
LEMMA GrownTable ==
  ASSUME NEW f \in Seq(Pieces), NEW t \in Seq(Records), NEW r \in Records, TableOK(f, t),
         t = <<>> \/ ~Last(t).open,
         Firm(f, r.offset), \A i \in 1 .. Len(t) : t[i].offset <= r.offset, r.files \in {{}, r.covers}
  PROVE  /\ TableOK(f, Append(t, r))
         /\ RangesOK(f, t) /\ r.open /\ (t # <<>> => EndOf(Last(t)) <= r.offset) => RangesOK(f, Append(t, r))
         /\ Counted(f, t) /\ r.offset = Len(f) => Counted(f, Append(t, r))
<1> DEFINE u == Append(t, r)
<1>0. u = Append(t, r)
  OBVIOUS
<1> HIDE DEF u
<1>1. /\ u \in Seq(Records) /\ Len(u) = Len(t) + 1 /\ Len(t) \in Nat /\ u # <<>>
      /\ u[Len(t) + 1] = r /\ \A i \in 1 .. Len(t) : u[i] = t[i]
  BY <1>0, Appended
<1>2. r.offset \in Nat
  BY DEF Records
<1>3. \A i \in 1 .. Len(u) : i \in 1 .. Len(t) \/ i = Len(t) + 1
  BY <1>1
<1>4. t # <<>> => Len(t) >= 1
  BY <1>1
<1>5. TableOK(f, u)
  <2>1. \A i \in 1 .. Len(u) - 1 : ~u[i].open
    <3> SUFFICES ASSUME NEW i \in 1 .. Len(u) - 1 PROVE ~u[i].open
      OBVIOUS
    <3>1. i \in 1 .. Len(t) /\ (i = Len(t) \/ i \in 1 .. Len(t) - 1) /\ t # <<>>
      BY <1>1
    <3> QED
      BY <1>1, <3>1 DEF TableOK, Last
  <2>2. \A i, j \in 1 .. Len(u) : i <= j => u[i].offset <= u[j].offset
    <3> SUFFICES ASSUME NEW i \in 1 .. Len(u), NEW j \in 1 .. Len(u), i <= j PROVE u[i].offset <= u[j].offset
      OBVIOUS
    <3>1. CASE j \in 1 .. Len(t)
      <4>1. i \in 1 .. Len(t)
        BY <1>1, <3>1
      <4> QED
        BY <1>1, <3>1, <4>1 DEF TableOK
    <3>2. CASE j = Len(t) + 1
      BY <1>1, <1>2, <1>3, <3>2
    <3> QED
      BY <1>3, <3>1, <3>2
  <2>3. \A i \in 1 .. Len(u) : Firm(f, u[i].offset) /\ u[i].files \in {{}, u[i].covers}
    BY <1>1, <1>3 DEF TableOK
  <2> QED
    BY <1>1, <2>1, <2>2, <2>3 DEF TableOK
<1>6. ASSUME RangesOK(f, t), r.open, t # <<>> => EndOf(Last(t)) <= r.offset PROVE RangesOK(f, u)
  <2>1. ASSUME NEW i \in 1 .. Len(u) - 1 PROVE EndOf(u[i]) <= u[i + 1].offset
    <3>1. i \in 1 .. Len(t) /\ t # <<>>
      BY <1>1
    <3>2. CASE i = Len(t)
      BY <1>1, <1>6, <3>1, <3>2 DEF Last
    <3>3. CASE i # Len(t)
      <4>1. i \in 1 .. Len(t) - 1 /\ i + 1 \in 1 .. Len(t)
        BY <3>1, <3>3
      <4> QED
        BY <1>1, <1>6, <3>1, <4>1 DEF RangesOK
    <3> QED
      BY <3>2, <3>3
  <2>2. Last(u).open
    BY <1>1, <1>6 DEF Last
  <2> QED
    BY <2>1, <2>2 DEF RangesOK
<1>7. ASSUME Counted(f, t), r.offset = Len(f) PROVE Counted(f, u)
  <2> SUFFICES ASSUME NEW p \in 1 .. Len(f), f[p].kind = "frame", NEW k \in 1 .. Len(u), Owns(u, p - 1, k)
               PROVE  f[p].run \in u[k].covers
    BY <1>1 DEF Counted
  <2>1. t # <<>> /\ Len(t) >= 1 /\ p - 1 < r.offset
    BY <1>4, <1>7 DEF Counted
  <2>2. k # Len(t) + 1
    <3> SUFFICES ASSUME k = Len(t) + 1 PROVE FALSE
      OBVIOUS
    <3>1. k \in 2 .. k
      BY <1>1, <2>1
    <3>2. p - 1 >= u[k].offset
      BY <3>1 DEF Owns
    <3> QED
      BY <1>1, <1>2, <2>1, <3>2
  <2>3. k \in 1 .. Len(t) /\ k # Len(u)
    BY <1>1, <1>3, <2>2
  <2>4. Owns(t, p - 1, k)
    <3>1. \A j \in 2 .. k : j \in 1 .. Len(t)
      BY <2>3
    <3>2. k # Len(t) => k + 1 \in 1 .. Len(t)
      BY <2>3
    <3> QED
      BY <1>1, <2>3, <3>1, <3>2 DEF Owns
  <2> QED
    BY <1>1, <1>7, <2>3, <2>4 DEF Counted
<1> QED
  BY <1>5, <1>6, <1>7 DEF u

LEMMA RunAppended ==
  ASSUME NEW f \in Seq(Pieces), NEW t \in Seq(Records), NEW r \in Records, TableOK(f, t), Len(t) <= MaxRuns,
         t = <<>> \/ ~Last(t).open,
         Firm(f, r.offset), \A i \in 1 .. Len(t) : t[i].offset <= r.offset, r.files \in {{}, r.covers}, r.open
  PROVE  LET u == AppendRun(t, r)
         IN /\ TableOK(f, u) /\ Len(u) \in 1 .. MaxRuns /\ u # <<>> /\ Last(u) = r
            /\ RangesOK(f, t) /\ (t # <<>> => EndOf(Last(t)) <= r.offset) => RangesOK(f, u)
            /\ Counted(f, t) /\ r.offset = Len(f) => Counted(f, u)
<1> DEFINE g == Append(t, r)
<1>1. g \in Seq(Records) /\ Len(g) = Len(t) + 1 /\ Len(t) \in Nat /\ g[Len(g)] = r /\ g # <<>>
  BY Appended
<1>2. /\ TableOK(f, g)
      /\ RangesOK(f, t) /\ (t # <<>> => EndOf(Last(t)) <= r.offset) => RangesOK(f, g)
      /\ Counted(f, t) /\ r.offset = Len(f) => Counted(f, g)
  BY GrownTable
<1> HIDE DEF g
<1>3. CASE Len(t) < MaxRuns
  <2>1. AppendRun(t, r) = g
    BY <1>3 DEF AppendRun, g
  <2>2. Last(g) = r /\ Len(g) \in 1 .. MaxRuns
    BY <1>1, <1>3, MaxRunsAssumption DEF Last
  <2> QED
    BY <1>1, <1>2, <2>1, <2>2
<1>4. CASE ~(Len(t) < MaxRuns)
  <2>1. AppendRun(t, r) = Coalesced(g)
    BY <1>4 DEF AppendRun, g
  <2>2. Len(g) >= 3 /\ Len(g) - 1 \in 1 .. MaxRuns
    BY <1>1, <1>4, MaxRunsAssumption
  <2>3. PICK i \in Nat : Merges(g, Coalesced(g), i)
    BY <1>1, <2>2, Coalesces
  <2>4. /\ TableOK(f, Coalesced(g))
        /\ RangesOK(f, g) => RangesOK(f, Coalesced(g))
        /\ Counted(f, g) => Counted(f, Coalesced(g))
    BY <1>1, <1>2, <2>3, MergedTable
  <2>5. /\ Len(Coalesced(g)) = Len(g) - 1
        /\ Len(Coalesced(g)) \in i + 1 .. Len(Coalesced(g))
    BY <1>1, <2>3 DEF Merges
  <2>6. Last(Coalesced(g)) = r /\ Coalesced(g) # <<>>
    <3>1. Coalesced(g)[Len(Coalesced(g))] = g[Len(Coalesced(g)) + 1]
      BY <2>3, <2>5 DEF Merges
    <3> QED
      BY <1>1, <2>2, <2>5, <3>1 DEF Last
  <2> QED
    BY <1>2, <2>1, <2>2, <2>4, <2>5, <2>6
<1> QED
  BY <1>3, <1>4

\* The Owner of a position exists, and every owner is right about a frame.
LEMMA OwnerRight ==
  ASSUME NEW t \in Seq(Records), t # <<>>, NEW pos \in Nat
  PROVE  Owner(t, pos) \in 1 .. Len(t) /\ Owns(t, pos, Owner(t, pos))
<1> DEFINE Ends == {k \in 1 .. Len(t) : k = Len(t) \/ pos < t[k + 1].offset}
<1>1. Len(t) \in Nat /\ Len(t) >= 1 /\ DOMAIN t = 1 .. Len(t)
  OBVIOUS
<1>2. Ends \in SUBSET Nat /\ Len(t) \in Ends
  BY <1>1
<1>3. PICK k \in Ends : \A j \in Ends : k <= j
  <2> HIDE DEF Ends
  <2> QED
    BY <1>2, SmallestOf
<1>4. k \in 1 .. Len(t) /\ (k = Len(t) \/ pos < t[k + 1].offset)
  BY <1>3
<1>5. ASSUME NEW j \in 2 .. k PROVE pos >= t[j].offset
  <2>1. j - 1 \in 1 .. Len(t) /\ j - 1 < k /\ j - 1 + 1 = j /\ j \in 1 .. Len(t)
    BY <1>1, <1>4
  <2>2. j - 1 \notin Ends
    <3>1. k \in Nat /\ j - 1 \in Nat
      BY <1>4, <2>1
    <3> HIDE DEF Ends
    <3> QED
      BY <1>3, <2>1, <3>1
  <2>3. t[j].offset \in Nat
    BY <2>1, RecordTypes
  <2> QED
    BY <2>1, <2>2, <2>3
<1>6. \E o \in DOMAIN t :
        /\ \A j \in 2 .. o : pos >= t[j].offset
        /\ o = Len(t) \/ pos < t[o + 1].offset
  BY <1>1, <1>4, <1>5
<1>7. /\ Owner(t, pos) \in DOMAIN t
      /\ \A j \in 2 .. Owner(t, pos) : pos >= t[j].offset
      /\ Owner(t, pos) = Len(t) \/ pos < t[Owner(t, pos) + 1].offset
  BY <1>6, Zenon DEF Owner
<1> QED
  BY <1>1, <1>7 DEF Owns

LEMMA CountedKept ==
  ASSUME NEW f, NEW g, NEW t, Counted(f, t),
         \A i \in 1 .. Len(g) : g[i].kind = "frame" => i \in 1 .. Len(f) /\ f[i] = g[i]
  PROVE  Counted(g, t)
BY DEF Counted

-----------------------------------------------------------------------------
\* What the invariant says of the properties.
LEMMA InvCounts == IInv => CountedRight
<1> SUFFICES ASSUME IInv, NoneFailed("save"), NEW i \in DOMAIN file, file[i].kind = "frame"
             PROVE  runs # <<>> /\ file[i].run \in runs[Owner(runs, i - 1)].covers
  BY DEF CountedRight
<1>1. file \in Seq(Pieces) /\ runs \in Seq(Records)
  BY DEF IInv, TypeOK
<1>2. i \in 1 .. Len(file) /\ i - 1 \in Nat
  BY <1>1
<1>3. /\ runs # <<>>
      /\ \A k \in 1 .. Len(runs) : Owns(runs, i - 1, k) => file[i].run \in runs[k].covers
  BY <1>2 DEF IInv, CountsOK, Counted
<1> QED
  BY <1>1, <1>2, <1>3, OwnerRight

LEMMA InvRanges == IInv => RangesDisjoint
<1> SUFFICES ASSUME IInv, NoneFailed("write"), Up, NEW i \in DOMAIN runs
             PROVE  runs[i].offset + runs[i].bytes <= IF i < Len(runs) THEN runs[i + 1].offset ELSE Len(file)
  BY DEF RangesDisjoint, IInv, LengthsOK
<1>1. file \in Seq(Pieces) /\ runs \in Seq(Records)
  BY DEF IInv, TypeOK
<1>2. i \in 1 .. Len(runs) /\ runs # <<>> /\ Len(file) \in Nat
  BY <1>1
<1>3. RangesOK(file, runs)
  BY DEF IInv, LengthsOK, Up
<1>4. CASE i < Len(runs)
  <2>1. i \in 1 .. Len(runs) - 1
    BY <1>2, <1>4
  <2> QED
    BY <1>3, <1>4, <2>1 DEF RangesOK, EndOf
<1>5. CASE i = Len(runs) /\ ~Last(runs).open
  BY <1>2, <1>3, <1>5 DEF RangesOK, EndOf, Last, Firm
<1>6. CASE i = Len(runs) /\ Last(runs).open
  <2>1. HasOpenRun(runs) /\ pc # "down"
    BY <1>2, <1>6 DEF HasOpenRun, Last, Up
  <2>2. Running /\ run.started
    BY <2>1 DEF IInv, RecordOK
  <2>3. Last(runs).offset = run.offset /\ Last(runs).bytes <= run.bytes /\ run.offset + run.bytes = Len(file)
    BY <2>2 DEF IInv, RecordOK, RunOK
  <2>4. run.offset \in Nat /\ run.bytes \in Nat
    BY DEF IInv, TypeOK
  <2>5. Last(runs).offset \in Nat /\ Last(runs).bytes \in Nat
    BY <1>1, <1>2, <1>6, RecordTypes DEF Last
  <2>6. Last(runs).offset + Last(runs).bytes <= Len(file)
    BY <2>3, <2>4, <2>5
  <2> QED
    BY <1>6, <2>6 DEF Last
<1> QED
  BY <1>2, <1>4, <1>5, <1>6

LEMMA InvVideo == IInv => VideoComplete
<1> SUFFICES ASSUME IInv PROVE VideoComplete
  OBVIOUS
<1>1. DOMAIN runs = 1 .. Len(runs)
  BY DEF IInv, TypeOK
<1> QED
  BY <1>1 DEF VideoComplete, IInv, TableOK

-----------------------------------------------------------------------------
\* The steps.

LEMMA FaultStep ==
  ASSUME TypeOK, FaultsOK, faults' = faults \/ \E kind \in FaultKinds : Happens(kind)
  PROVE  /\ faults' \in [FaultKinds -> Nat] /\ FaultsOK'
         /\ \A kind \in FaultKinds : NoneFailed(kind)' => NoneFailed(kind)
         /\ \A kind \in FaultKinds : Happens(kind) => ~NoneFailed(kind)'
<1>1. faults \in [FaultKinds -> Nat] /\ Faults \in [FaultKinds -> Nat]
  BY FaultsAssumption DEF TypeOK
<1>2. \A kind \in FaultKinds : faults[kind] \in Nat /\ Faults[kind] \in Nat /\ faults[kind] <= Faults[kind]
  BY <1>1 DEF FaultsOK
<1>3. CASE faults' = faults
  BY <1>1, <1>2, <1>3 DEF FaultsOK, NoneFailed, Happens
<1>4. ASSUME NEW kind \in FaultKinds, Happens(kind)
      PROVE  /\ faults' \in [FaultKinds -> Nat] /\ faults'[kind] = faults[kind] - 1 /\ faults'[kind] # Faults[kind]
             /\ \A other \in FaultKinds \ {kind} : faults'[other] = faults[other]
             /\ \A any \in FaultKinds : faults'[any] <= Faults[any]
  BY <1>1, <1>2, <1>4 DEF Happens
<1>5. CASE \E kind \in FaultKinds : Happens(kind)
  BY <1>4, <1>5 DEF FaultsOK, NoneFailed
<1> QED
  BY <1>3, <1>5

LEMMA Kinds == "write" \in FaultKinds /\ "save" \in FaultKinds /\ "crash" \in FaultKinds
BY DEF FaultKinds

LEMMA NothingKeeps ==
  ASSUME NEW f \in Seq(Pieces)
  PROVE  Keeps(f, f)
BY DEF Keeps

\* What every step but those that write tables needs to say of them.
LEMMA FileStep ==
  ASSUME IInv, Keeps(file, file'), UNCHANGED <<runs, disk>>
  PROVE  /\ NoBuriedPart'
         /\ TableOK(file, runs)' /\ TableOK(file, disk)'
         /\ RangesOK(file, runs) => RangesOK(file, runs)'
         /\ RangesOK(file, disk) => RangesOK(file, disk)'
<1>1. file \in Seq(Pieces) /\ file' \in Seq(Pieces) /\ runs \in Seq(Records) /\ disk \in Seq(Records)
  BY DEF IInv, TypeOK, Keeps
<1>2. NoneBuried(file)
  BY <1>1, BuriedMeans DEF IInv, NoBuriedPart
<1>3. NoneBuried(file')
  BY <1>2 DEF Keeps
<1>4. NoBuriedPart'
  BY <1>1, <1>3, BuriedMeans DEF NoBuriedPart
<1> QED
  BY <1>1, <1>4, KeptTable DEF IInv

LEMMA BeginStep == IInv /\ Begin => IInv'
<1> SUFFICES ASSUME IInv, Begin PROVE IInv'
  OBVIOUS
<1>1. TypeOK /\ file \in Seq(Pieces) /\ pc = "top" /\ runs \in Seq(Records) /\ UNCHANGED <<runs, disk, restart, faults>>
      /\ pc' = "run" /\ split' = NewSplit /\ run.n < RunBound /\ run.n \in 0 .. RunBound
  BY DEF IInv, TypeOK, Begin
<1>2. /\ Keeps(file, file') /\ Settled(file') /\ Len(file') <= Len(file)
      /\ \A i \in 1 .. Len(file') : file'[i] = file[i]
  <2>1. CASE restart
    BY <1>1, <2>1, TrimKeeps DEF Begin
  <2>2. CASE ~restart
    <3>1. file' = file /\ file = <<>>
      BY <1>1, <2>2 DEF Begin, IInv, RunOK
    <3>2. Settled(file)
      BY <3>1 DEF Settled, EndsPartially
    <3>3. Keeps(file, file) /\ Len(file) \in Nat
      BY <1>1, NothingKeeps
    <3> QED
      BY <3>1, <3>2, <3>3
  <2> QED
    BY <2>1, <2>2
<1>3. file' \in Seq(Pieces) /\ Len(file') \in Nat /\ bytes' = Len(file')
  BY <1>1, <1>2 DEF Keeps, Begin, IInv, RunOK
<1>4. PICK video \in BOOLEAN : run' = NewRun(run.n + 1, bytes', video)
  BY DEF Begin
<1>5. /\ run'.n = run.n + 1 /\ run'.offset = Len(file') /\ run'.bytes = 0 /\ run'.endBytes = 0
      /\ ~run'.started /\ ~run'.werr
      /\ run' \in [n : 0 .. RunBound, offset : Nat, bytes : Nat, endBytes : Nat, started : BOOLEAN, werr : BOOLEAN,
                   video : BOOLEAN]
  BY <1>1, <1>3, <1>4, BoundsAssumption DEF NewRun
<1>6. /\ NoBuriedPart' /\ TableOK(file, runs)' /\ TableOK(file, disk)'
      /\ RangesOK(file, runs) => RangesOK(file, runs)'
      /\ RangesOK(file, disk) => RangesOK(file, disk)'
  BY <1>1, <1>2, FileStep
<1>7. TypeOK'
  BY <1>1, <1>3, <1>5 DEF TypeOK, NewSplit
<1>8. FaultsOK' /\ \A kind \in FaultKinds : NoneFailed(kind)' <=> NoneFailed(kind)
  BY <1>1 DEF IInv, FaultsOK, NoneFailed
<1>9. ~HasOpenRun(runs)
  BY <1>1 DEF IInv, RecordOK, Running
<1>10. Firm(file', Len(file')) /\ \A i \in 1 .. Len(runs) : runs[i].offset <= Len(file')
  <2>1. Firm(file', Len(file'))
    BY <1>2, <1>3, FirmEnd
  <2>2. TableOK(file', runs)
    BY <1>1, <1>6
  <2>3. \A i \in 1 .. Len(runs) : runs[i].offset \in 0 .. Len(file')
    BY <2>2 DEF TableOK, Firm
  <2> QED
    BY <1>3, <2>1, <2>3
<1>11. NoneFailed("write") /\ runs # <<>> => EndOf(Last(runs)) <= Len(file')
  BY <1>1, <1>6, <1>9 DEF IInv, LengthsOK, RangesOK, HasOpenRun, Last, Firm
<1>12. RunOK'
  BY <1>1, <1>2, <1>3, <1>5, <1>8, <1>10, <1>11, Kinds DEF RunOK, Running
<1>13. RecordOK'
  BY <1>1, <1>5, <1>9 DEF RecordOK, Running, HasOpenRun
<1>14. LengthsOK'
  BY <1>1, <1>6, <1>8, Kinds DEF IInv, LengthsOK
<1>15. CountsOK'
  <2>1. Counted(file, runs) => Counted(file', runs)
    BY <1>2, <1>3, CountedKept
  <2> QED
    BY <1>1, <1>8, <2>1, Kinds DEF IInv, CountsOK
<1> QED
  BY <1>6, <1>7, <1>8, <1>12, <1>13, <1>14, <1>15 DEF IInv

LEMMA FeedStep == IInv /\ (FeedFrame \/ FeedPart) => IInv'
<1> SUFFICES ASSUME IInv, FeedFrame \/ FeedPart PROVE IInv'
  OBVIOUS
<1>1. UNCHANGED <<file, bytes, runs, disk, pc, restart, run, faults>>
  BY DEF FeedFrame, FeedPart
<1> DEFINE Splits == [synced : BOOLEAN, held : {"none", "frame", "part"}, ready : 0 .. 2]
<1>2. split' \in Splits
  <2>1. split \in Splits
    BY DEF IInv, TypeOK
  <2>2. \A h \in {"none", "frame", "part"}, r \in 0 .. 2 :
          /\ [split EXCEPT !.held = h, !.ready = r] \in Splits
          /\ [split EXCEPT !.held = h] \in Splits
          /\ [synced |-> TRUE, held |-> h, ready |-> r] \in Splits
    BY <2>1
  <2>3. {"none", "frame", "part"} = {"none", "frame"} \cup {"part"} /\ 1 \in 0 .. 2 /\ 2 \in 0 .. 2
    OBVIOUS
  <2> HIDE DEF Splits
  <2>4. CASE FeedFrame
    <3>1. \/ split' = [split EXCEPT !.held = "none", !.ready = 1]
          \/ split' = [synced |-> TRUE, held |-> "none", ready |-> 2]
          \/ split' = [split EXCEPT !.held = "frame"]
      BY <2>4 DEF FeedFrame
    <3> QED
      BY <2>2, <2>3, <3>1
  <2>5. CASE FeedPart
    <3>1. \/ split' = [synced |-> TRUE, held |-> "part", ready |-> 1]
          \/ split' = [split EXCEPT !.held = "part"]
      BY <2>5 DEF FeedPart
    <3> QED
      BY <2>2, <2>3, <3>1
  <2> QED
    BY <2>4, <2>5
<1>3. TypeOK'
  BY <1>1, <1>2 DEF IInv, TypeOK
<1>4. LengthsOK'
  BY <1>1 DEF IInv, LengthsOK, NoneFailed, RangesDisjoint, Up
<1> QED
  BY <1>1, <1>3, <1>4 DEF IInv, FaultsOK, NoneFailed, NoBuriedPart, RunOK, RecordOK, CountsOK, Running, HasOpenRun

RunStates == [n : 0 .. RunBound, offset : Nat, bytes : Nat, endBytes : Nat, started : BOOLEAN, werr : BOOLEAN,
              video : BOOLEAN]

LEMMA SaveStep ==
  ASSUME TypeOK, FaultsOK, SaveOrFail
  PROVE  /\ faults' \in [FaultKinds -> Nat] /\ FaultsOK'
         /\ \A kind \in FaultKinds : NoneFailed(kind)' => NoneFailed(kind)
         /\ disk' \in {disk, runs'}
         /\ NoneFailed("save")' => disk' = runs'
<1>1. \/ disk' = runs' /\ faults' = faults
      \/ disk' = disk /\ Happens("save")
  BY DEF SaveOrFail
<1> QED
  BY <1>1, FaultStep, Kinds

LEMMA SameIsReflexive == \A t : Same(t, t)
BY DEF Same

LEMMA OpenRecordStep == IInv /\ OpenRecord => IInv'
<1> SUFFICES ASSUME IInv, OpenRecord PROVE IInv'
  OBVIOUS
<1> DEFINE r == [covers |-> {run.n}, offset |-> run.offset, bytes |-> 0, open |-> TRUE,
                 files  |-> IF run.video THEN {run.n} ELSE {}]
<1>1. /\ TypeOK /\ FaultsOK /\ file \in Seq(Pieces) /\ runs \in Seq(Records) /\ disk \in Seq(Records)
      /\ pc = "run" /\ ~run.started /\ SaveOrFail
      /\ UNCHANGED <<file, bytes, pc, restart, split>>
      /\ run' = [run EXCEPT !.started = TRUE] /\ runs' = AppendRun(runs, r)
      /\ Len(runs) <= MaxRuns
  BY DEF IInv, TypeOK, OpenRecord
<1>2. /\ run.n \in RunNumbers /\ run.offset \in Nat
      /\ run' \in RunStates
      /\ run'.n = run.n /\ run'.offset = run.offset /\ run'.bytes = run.bytes /\ run'.endBytes = run.endBytes
      /\ run'.started /\ run'.werr = run.werr
  <2>1. run \in RunStates
    BY <1>1 DEF TypeOK, RunStates
  <2>2. run.n \in 0 .. RunBound /\ run.n >= 1 /\ run.offset \in Nat
    BY <1>1, <2>1 DEF IInv, RunOK, Running, RunStates
  <2>3. run.n \in RunNumbers
    BY <2>2, BoundsAssumption DEF RunNumbers
  <2>4. run' \in RunStates
    BY <1>1, <2>1 DEF RunStates
  <2>5. /\ run'.n = run.n /\ run'.offset = run.offset /\ run'.bytes = run.bytes /\ run'.endBytes = run.endBytes
        /\ run'.started /\ run'.werr = run.werr
    BY <1>1, <2>1 DEF RunStates
  <2> QED
    BY <2>2, <2>3, <2>4, <2>5
<1>3. r \in Records
  BY <1>2 DEF Records
<1>4. /\ r.open /\ r.offset = run.offset /\ r.covers = {run.n} /\ r.bytes = 0
      /\ r.files \in {{}, r.covers}
  OBVIOUS
<1> HIDE DEF r
<1>5. /\ Firm(file, run.offset) /\ \A i \in 1 .. Len(runs) : runs[i].offset <= run.offset
      /\ run.offset = Len(file)
      /\ NoneFailed("write") /\ runs # <<>> => EndOf(Last(runs)) <= run.offset
      /\ runs = <<>> \/ ~Last(runs).open
  <2>1. run.offset + run.bytes = Len(file) /\ run.bytes = 0
    BY <1>1 DEF IInv, RunOK, Running
  <2> QED
    BY <1>1, <1>2, <2>1 DEF IInv, RunOK, RecordOK, Running, HasOpenRun, Last
<1>6. /\ TableOK(file, runs') /\ Len(runs') \in 1 .. MaxRuns /\ runs' # <<>> /\ Last(runs') = r
      /\ NoneFailed("write") /\ RangesOK(file, runs) => RangesOK(file, runs')
      /\ Counted(file, runs) => Counted(file, runs')
  BY <1>1, <1>3, <1>4, <1>5, RunAppended DEF IInv
<1>7. /\ faults' \in [FaultKinds -> Nat] /\ FaultsOK'
      /\ \A kind \in FaultKinds : NoneFailed(kind)' => NoneFailed(kind)
      /\ disk' \in {disk, runs'}
      /\ NoneFailed("save")' => disk' = runs'
  BY <1>1, SaveStep
<1>8. TypeOK'
  <2>1. {runs', disk'} \subseteq Seq(Records)
    BY <1>1, <1>6, <1>7 DEF TableOK
  <2>2. \A table \in {runs', disk'} : /\ Len(table) <= MaxRuns
                                     /\ \A i \in 1 .. Len(table) - 1 : ~table[i].open
    BY <1>1, <1>6, <1>7 DEF TypeOK, TableOK
  <2> QED
    BY <1>1, <1>2, <1>7, <2>1, <2>2 DEF TypeOK, RunStates
<1>9. TableOK(file, runs)' /\ TableOK(file, disk)'
  BY <1>1, <1>6, <1>7 DEF IInv
<1>10. RunOK'
  <2>1. \A i \in 1 .. Len(runs') : runs'[i].offset <= run.offset
    <3> SUFFICES ASSUME NEW i \in 1 .. Len(runs') PROVE runs'[i].offset <= run.offset
      OBVIOUS
    <3>1. Len(runs') \in 1 .. Len(runs') /\ i <= Len(runs')
      BY <1>6
    <3> QED
      BY <1>4, <1>6, <3>1 DEF TableOK, Last
  <2> QED
    BY <1>1, <1>2, <1>5, <1>7, <2>1, Kinds DEF IInv, RunOK, Running
<1>11. RecordOK'
  BY <1>1, <1>2, <1>4, <1>6, <1>5 DEF RecordOK, Running, HasOpenRun, Last, IInv, TypeOK
<1>12. LengthsOK'
  BY <1>1, <1>6, <1>7, Kinds DEF IInv, LengthsOK
<1>13. CountsOK'
  BY <1>1, <1>6, <1>7, SameIsReflexive, Kinds DEF IInv, CountsOK
<1>14. NoBuriedPart'
  BY <1>1 DEF IInv, NoBuriedPart
<1> QED
  BY <1>7, <1>8, <1>9, <1>10, <1>11, <1>12, <1>13, <1>14 DEF IInv

\* r is the run as it is when a piece is written: only endBytes may differ.
LEMMA RawWritten ==
  ASSUME IInv, pc = "run", NEW kind \in {"frame", "loose", "part"},
         NEW r \in RunStates, r.n = run.n, r.werr = run.werr, WriteRaw(kind, r)
  PROVE  /\ \/ file' = file /\ bytes' = bytes /\ run'.bytes = r.bytes
            \/ \E x \in Pieces : /\ file' = Append(file, x) /\ Settled(file)
                                 /\ bytes' = bytes + 1 /\ run'.bytes = r.bytes + 1
                                 /\ x.run = run.n /\ x.kind \in {kind, "part"}
         /\ run' \in RunStates
         /\ run'.n = r.n /\ run'.offset = r.offset /\ run'.started = r.started /\ run'.endBytes = r.endBytes
         /\ ~run'.werr => ~run.werr /\ file' = Append(file, [run |-> run.n, kind |-> kind])
         /\ run'.werr => run.werr \/ Happens("write")
         /\ faults' = faults \/ Happens("write")
<1>1. run.n \in RunNumbers /\ (~run.werr => Settled(file))
  BY DEF IInv, TypeOK, RunOK, Running, RunNumbers
<1>2. \A any \in {kind, "part"} : [run |-> run.n, kind |-> any] \in Pieces
  BY <1>1 DEF Pieces
<1>3. CASE r.werr /\ run' = r /\ UNCHANGED <<file, bytes, faults>>
  BY <1>3
<1>4. CASE ~r.werr /\ Written([run |-> r.n, kind |-> kind]) /\ run' = [r EXCEPT !.bytes = @ + 1] /\ UNCHANGED faults
  <2> DEFINE x == [run |-> run.n, kind |-> kind]
  <2>1. x \in Pieces /\ x.run = run.n /\ x.kind = kind
    BY <1>2
  <2>2. file' = Append(file, x) /\ bytes' = bytes + 1
    BY <1>4 DEF Written
  <2>3. /\ run' \in RunStates /\ run'.bytes = r.bytes + 1 /\ run'.n = r.n /\ run'.offset = r.offset
        /\ run'.started = r.started /\ run'.endBytes = r.endBytes /\ ~run'.werr
    BY <1>4 DEF RunStates
  <2> HIDE DEF x
  <2>4. \E y \in Pieces : /\ file' = Append(file, y) /\ Settled(file)
                          /\ bytes' = bytes + 1 /\ run'.bytes = r.bytes + 1
                          /\ y.run = run.n /\ y.kind \in {kind, "part"}
    BY <1>1, <1>4, <2>1, <2>2, <2>3
  <2> QED
    BY <1>4, <2>2, <2>3, <2>4 DEF x
<1>5. CASE ~r.werr /\ Happens("write") /\ run' = [r EXCEPT !.werr = TRUE] /\ UNCHANGED <<file, bytes>>
  BY <1>5 DEF RunStates
<1>6. CASE ~r.werr /\ Happens("write") /\ Written([run |-> r.n, kind |-> "part"])
           /\ run' = [r EXCEPT !.werr = TRUE, !.bytes = @ + 1]
  <2> DEFINE x == [run |-> run.n, kind |-> "part"]
  <2>1. x \in Pieces /\ x.run = run.n /\ x.kind = "part"
    BY <1>2
  <2>2. file' = Append(file, x) /\ bytes' = bytes + 1
    BY <1>6 DEF Written
  <2>3. /\ run' \in RunStates /\ run'.bytes = r.bytes + 1 /\ run'.n = r.n /\ run'.offset = r.offset
        /\ run'.started = r.started /\ run'.endBytes = r.endBytes /\ run'.werr
    <3>1. run' = [r EXCEPT !.werr = TRUE, !.bytes = r.bytes + 1] /\ r.bytes + 1 \in Nat
      BY <1>6 DEF RunStates
    <3> QED
      BY <3>1 DEF RunStates
  <2> HIDE DEF x
  <2>4. \E y \in Pieces : /\ file' = Append(file, y) /\ Settled(file)
                          /\ bytes' = bytes + 1 /\ run'.bytes = r.bytes + 1
                          /\ y.run = run.n /\ y.kind \in {kind, "part"}
    BY <1>1, <1>6, <2>1, <2>2, <2>3
  <2> QED
    BY <1>6, <2>3, <2>4
<1> QED
  BY <1>3, <1>4, <1>5, <1>6 DEF WriteRaw

\* One more piece, that belongs to the last record if it is a frame.
LEMMA AppendCounts ==
  ASSUME NEW f \in Seq(Pieces), NEW x \in Pieces, NEW t \in Seq(Records), Counted(f, t),
         x.kind = "frame" => /\ t # <<>> /\ x.run \in Last(t).covers
                             /\ \A i \in 1 .. Len(t) : t[i].offset <= Len(f)
  PROVE  Counted(Append(f, x), t)
<1> DEFINE g == Append(f, x)
<1>1. /\ Len(g) = Len(f) + 1 /\ Len(f) \in Nat
      /\ g[Len(f) + 1] = x /\ \A i \in 1 .. Len(f) : g[i] = f[i]
  OBVIOUS
<1> HIDE DEF g
<1> SUFFICES ASSUME NEW i \in 1 .. Len(g), g[i].kind = "frame"
             PROVE  /\ t # <<>>
                    /\ \A k \in 1 .. Len(t) : Owns(t, i - 1, k) => g[i].run \in t[k].covers
  BY DEF Counted, g
<1>2. CASE i \in 1 .. Len(f)
  BY <1>1, <1>2 DEF Counted
<1>3. CASE i = Len(f) + 1
  <2>1. /\ t # <<>> /\ x.run \in Last(t).covers
        /\ \A j \in 1 .. Len(t) : t[j].offset <= Len(f)
    BY <1>1, <1>3
  <2>2. ASSUME NEW k \in 1 .. Len(t), Owns(t, i - 1, k) PROVE k = Len(t)
    <3> SUFFICES ASSUME k # Len(t) PROVE FALSE
      OBVIOUS
    <3>1. k + 1 \in 1 .. Len(t) /\ i - 1 = Len(f)
      BY <1>1, <1>3
    <3>2. Len(f) < t[k + 1].offset /\ t[k + 1].offset <= Len(f) /\ t[k + 1].offset \in Nat
      BY <2>1, <2>2, <3>1, RecordTypes DEF Owns
    <3> QED
      BY <1>1, <3>2
  <2> QED
    BY <1>1, <1>3, <2>1, <2>2 DEF Last
<1> QED
  BY <1>1, <1>2, <1>3

\* The file after a step of the writer.
LEMMA RawKeeps ==
  ASSUME IInv, pc = "run", UNCHANGED <<runs, disk>>,
         \/ file' = file /\ bytes' = bytes
         \/ \E x \in Pieces : /\ file' = Append(file, x) /\ Settled(file)
                              /\ bytes' = bytes + 1
                              /\ x.kind = "frame" => run.started /\ x.run = run.n
  PROVE  /\ Keeps(file, file')
         /\ bytes = Len(file) /\ bytes' = Len(file') /\ bytes' \in Nat
         /\ Counted(file, runs) => Counted(file, runs)'
<1>1. file \in Seq(Pieces) /\ runs \in Seq(Records) /\ bytes = Len(file) /\ Len(file) \in Nat
  BY DEF IInv, TypeOK, RunOK
<1>2. CASE file' = file /\ bytes' = bytes
  BY <1>1, <1>2, NothingKeeps
<1>3. ASSUME NEW x \in Pieces, file' = Append(file, x), Settled(file), bytes' = bytes + 1,
             x.kind = "frame" => run.started /\ x.run = run.n
      PROVE  /\ Keeps(file, file')
             /\ bytes' = Len(file')
             /\ Counted(file, runs) => Counted(file', runs)
  <2>1. Keeps(file, Append(file, x)) /\ Len(Append(file, x)) = Len(file) + 1
    BY <1>1, <1>3, AppendKeeps
  <2>2. x.kind = "frame" => /\ runs # <<>> /\ x.run \in Last(runs).covers
                            /\ \A i \in 1 .. Len(runs) : runs[i].offset <= Len(file)
    BY <1>3 DEF IInv, RecordOK, Running, HasOpenRun, TableOK, Firm
  <2>3. Counted(file, runs) => Counted(Append(file, x), runs)
    BY <1>1, <2>2, AppendCounts
  <2> QED
    BY <1>1, <1>3, <2>1, <2>3
<1> QED
  BY <1>1, <1>2, <1>3

LEMMA WriteFrameStep == IInv /\ WriteFrame => IInv'
<1> SUFFICES ASSUME IInv, WriteFrame PROVE IInv'
  OBVIOUS
<1>1. /\ TypeOK /\ FaultsOK /\ file \in Seq(Pieces) /\ runs \in Seq(Records) /\ disk \in Seq(Records)
      /\ pc = "run" /\ run.started /\ run \in RunStates /\ WriteRaw("frame", run)
      /\ split' = [split EXCEPT !.ready = @ - 1] /\ split.ready > 0 /\ UNCHANGED <<runs, disk, pc, restart>>
  BY DEF IInv, TypeOK, RunStates, WriteFrame
<1>2. /\ \/ file' = file /\ bytes' = bytes /\ run'.bytes = run.bytes
         \/ \E x \in Pieces : /\ file' = Append(file, x) /\ Settled(file)
                              /\ bytes' = bytes + 1 /\ run'.bytes = run.bytes + 1
                              /\ x.run = run.n /\ x.kind \in {"frame", "part"}
      /\ run' \in RunStates
      /\ run'.n = run.n /\ run'.offset = run.offset /\ run'.started = run.started /\ run'.endBytes = run.endBytes
      /\ ~run'.werr => ~run.werr /\ file' = Append(file, [run |-> run.n, kind |-> "frame"])
      /\ run'.werr => run.werr \/ Happens("write")
      /\ faults' = faults \/ Happens("write")
  BY <1>1, RawWritten
<1>3. /\ Keeps(file, file')
      /\ bytes = Len(file) /\ bytes' = Len(file') /\ bytes' \in Nat
      /\ Counted(file, runs) => Counted(file, runs)'
  BY <1>1, <1>2, RawKeeps
<1>4. /\ NoBuriedPart' /\ TableOK(file, runs)' /\ TableOK(file, disk)'
      /\ RangesOK(file, runs) => RangesOK(file, runs)'
      /\ RangesOK(file, disk) => RangesOK(file, disk)'
  BY <1>1, <1>3, FileStep
<1>5. /\ faults' \in [FaultKinds -> Nat] /\ FaultsOK'
      /\ \A kind \in FaultKinds : NoneFailed(kind)' => NoneFailed(kind)
      /\ Happens("write") => ~NoneFailed("write")'
  BY <1>1, <1>2, FaultStep, Kinds
<1>6. TypeOK'
  <2>1. split' \in [synced : BOOLEAN, held : {"none", "frame", "part"}, ready : 0 .. 2]
    <3>1. split \in [synced : BOOLEAN, held : {"none", "frame", "part"}, ready : 0 .. 2]
      BY <1>1 DEF TypeOK
    <3>2. split.ready - 1 \in 0 .. 2
      BY <1>1, <3>1
    <3> QED
      BY <1>1, <3>1, <3>2
  <2> QED
    BY <1>1, <1>2, <1>3, <1>5, <2>1 DEF TypeOK, RunStates, Keeps
<1>7. run.bytes \in Nat /\ run.offset \in Nat /\ Len(file) \in Nat /\ run.offset + run.bytes = Len(file)
  BY <1>1 DEF IInv, RunOK, Running, RunStates
<1>8. run'.offset + run'.bytes = Len(file') /\ run'.bytes >= run.bytes
  <2>1. CASE file' = file /\ run'.bytes = run.bytes
    BY <1>2, <1>7, <2>1
  <2>2. ASSUME NEW x \in Pieces, file' = Append(file, x), run'.bytes = run.bytes + 1
        PROVE  run'.offset + run'.bytes = Len(file') /\ run'.bytes >= run.bytes
    <3>1. Len(file') = Len(file) + 1
      BY <1>1, <2>2
    <3> QED
      BY <1>2, <1>7, <2>2, <3>1
  <2> QED
    BY <1>2, <2>1, <2>2
<1>9. ~run'.werr => Settled(file')
  <2> SUFFICES ASSUME ~run'.werr PROVE Settled(file')
    OBVIOUS
  <2>1. file' = Append(file, [run |-> run.n, kind |-> "frame"])
    BY <1>2
  <2>2. Len(file') = Len(file) + 1 /\ file'[Len(file) + 1] = [run |-> run.n, kind |-> "frame"]
    BY <1>1, <2>1
  <2> QED
    BY <2>2 DEF Settled, EndsPartially
<1>10. RunOK'
  <2>1. Firm(file', run.offset)
    BY <1>1, <1>3, <1>7 DEF IInv, RunOK, Running, Keeps
  <2>2. run'.werr => ~NoneFailed("write")'
    BY <1>1, <1>2, <1>5, Kinds DEF IInv, RunOK, Running
  <2> QED
    BY <1>1, <1>2, <1>3, <1>8, <1>9, <2>1, <2>2 DEF IInv, RunOK, Running
<1>11. RecordOK'
  <2>1. HasOpenRun(runs) /\ Last(runs).offset = run.offset /\ Last(runs).covers = {run.n}
        /\ Last(runs).bytes <= run.bytes
    BY <1>1 DEF IInv, RecordOK, Running
  <2>2. Last(runs).bytes \in Nat
    <3>1. Len(runs) \in 1 .. Len(runs)
      BY <1>1, <2>1 DEF HasOpenRun
    <3> QED
      BY <1>1, <3>1, RecordTypes DEF Last
  <2>3. Last(runs).bytes <= run'.bytes
    BY <1>2, <1>7, <1>8, <2>1, <2>2 DEF RunStates
  <2> QED
    BY <1>1, <1>2, <2>1, <2>3 DEF RecordOK, Running, HasOpenRun, Last
<1>12. LengthsOK'
  BY <1>1, <1>4, <1>5, Kinds DEF IInv, LengthsOK
<1>13. CountsOK'
  BY <1>1, <1>3, <1>5, Kinds DEF IInv, CountsOK
<1> QED
  BY <1>4, <1>5, <1>6, <1>10, <1>11, <1>12, <1>13 DEF IInv

LEMMA FlushStep == IInv /\ Flush => IInv'
<1> SUFFICES ASSUME IInv, Flush PROVE IInv'
  OBVIOUS
<1> DEFINE ended == [run EXCEPT !.endBytes = run.bytes]
<1>1. /\ TypeOK /\ FaultsOK /\ file \in Seq(Pieces) /\ runs \in Seq(Records) /\ disk \in Seq(Records)
      /\ pc = "run" /\ pc' = "flushed" /\ run \in RunStates
      /\ split' = NewSplit /\ UNCHANGED <<runs, disk, restart>>
      /\ \/ run' = ended /\ UNCHANGED <<file, bytes, faults>>
         \/ \E kind \in {"loose", "part"} : WriteRaw(kind, ended)
  BY DEF IInv, TypeOK, RunStates, Flush
<1>2. /\ ended \in RunStates /\ ended.n = run.n /\ ended.offset = run.offset /\ ended.bytes = run.bytes
      /\ ended.endBytes = run.bytes /\ ended.started = run.started /\ ended.werr = run.werr
  BY <1>1 DEF RunStates
<1> HIDE DEF ended
<1>3. /\ \/ file' = file /\ bytes' = bytes /\ run'.bytes = run.bytes
         \/ \E x \in Pieces : /\ file' = Append(file, x) /\ Settled(file)
                              /\ bytes' = bytes + 1 /\ run'.bytes = run.bytes + 1
                              /\ x.run = run.n /\ x.kind # "frame"
      /\ run' \in RunStates
      /\ run'.n = run.n /\ run'.offset = run.offset /\ run'.started = run.started /\ run'.endBytes = run.bytes
      /\ run'.werr => run.werr \/ Happens("write")
      /\ run.werr \/ Settled(file)
      /\ faults' = faults \/ Happens("write")
  <2>1. run.werr \/ Settled(file)
    BY <1>1 DEF IInv, RunOK
  <2>2. CASE run' = ended /\ UNCHANGED <<file, bytes, faults>>
    BY <1>2, <2>1, <2>2
  <2>3. ASSUME NEW kind \in {"loose", "part"}, WriteRaw(kind, ended)
        PROVE  /\ \/ file' = file /\ bytes' = bytes /\ run'.bytes = ended.bytes
                  \/ \E x \in Pieces : /\ file' = Append(file, x) /\ Settled(file)
                                       /\ bytes' = bytes + 1 /\ run'.bytes = ended.bytes + 1
                                       /\ x.run = run.n /\ x.kind \in {kind, "part"}
               /\ run' \in RunStates
               /\ run'.n = ended.n /\ run'.offset = ended.offset /\ run'.started = ended.started
               /\ run'.endBytes = ended.endBytes
               /\ run'.werr => run.werr \/ Happens("write")
               /\ faults' = faults \/ Happens("write")
    <3>1. kind \in {"frame", "loose", "part"}
      BY <2>3
    <3> QED
      BY <1>1, <1>2, <2>3, <3>1, RawWritten
  <2> QED
    BY <1>1, <1>2, <2>1, <2>2, <2>3
<1>4. /\ Keeps(file, file')
      /\ bytes = Len(file) /\ bytes' = Len(file') /\ bytes' \in Nat
      /\ Counted(file, runs) => Counted(file, runs)'
  BY <1>1, <1>3, RawKeeps
<1>5. /\ NoBuriedPart' /\ TableOK(file, runs)' /\ TableOK(file, disk)'
      /\ RangesOK(file, runs) => RangesOK(file, runs)'
      /\ RangesOK(file, disk) => RangesOK(file, disk)'
  BY <1>1, <1>4, FileStep
<1>6. /\ faults' \in [FaultKinds -> Nat] /\ FaultsOK'
      /\ \A kind \in FaultKinds : NoneFailed(kind)' => NoneFailed(kind)
      /\ Happens("write") => ~NoneFailed("write")'
  BY <1>1, <1>3, FaultStep, Kinds
<1>7. TypeOK'
  <2>1. split' \in [synced : BOOLEAN, held : {"none", "frame", "part"}, ready : 0 .. 2]
    BY <1>1 DEF NewSplit
  <2> QED
    BY <1>1, <1>3, <1>4, <1>6, <2>1 DEF TypeOK, RunStates, Keeps
<1>8. run.bytes \in Nat /\ run.offset \in Nat /\ Len(file) \in Nat /\ run.offset + run.bytes = Len(file)
  BY <1>1 DEF IInv, RunOK, Running, RunStates
<1>9. run'.offset + run'.bytes = Len(file') /\ run'.bytes >= run.bytes
  <2>1. CASE file' = file /\ run'.bytes = run.bytes
    BY <1>3, <1>8, <2>1
  <2>2. ASSUME NEW x \in Pieces, file' = Append(file, x), run'.bytes = run.bytes + 1
        PROVE  run'.offset + run'.bytes = Len(file') /\ run'.bytes >= run.bytes
    <3>1. Len(file') = Len(file) + 1
      BY <1>1, <2>2
    <3> QED
      BY <1>3, <1>8, <2>2, <3>1
  <2> QED
    BY <1>3, <2>1, <2>2
<1>10. RunOK'
  <2>1. Firm(file', run.offset)
    BY <1>1, <1>4, <1>8 DEF IInv, RunOK, Running, Keeps
  <2>2. run'.werr => ~NoneFailed("write")'
    BY <1>1, <1>3, <1>6, Kinds DEF IInv, RunOK, Running
  <2>3. NoneFailed("write")' => Firm(file', run'.offset + run'.endBytes)
    <3> SUFFICES ASSUME NoneFailed("write")' PROVE Firm(file', run'.offset + run'.endBytes)
      OBVIOUS
    <3>1. ~run.werr
      BY <1>1, <1>6, Kinds DEF IInv, RunOK, Running
    <3>2. Firm(file, Len(file))
      BY <1>1, <1>3, <3>1, FirmEnd
    <3>3. run'.offset + run'.endBytes = Len(file)
      BY <1>3, <1>8
    <3> QED
      BY <1>4, <1>8, <3>2, <3>3 DEF Keeps
  <2> QED
    BY <1>1, <1>3, <1>4, <1>9, <2>1, <2>2, <2>3 DEF IInv, RunOK, Running
<1>11. RecordOK'
  <2>1. run.started => /\ HasOpenRun(runs) /\ Last(runs).offset = run.offset /\ Last(runs).covers = {run.n}
                       /\ Last(runs).bytes <= run.bytes /\ Last(runs).bytes \in Nat
    <3> SUFFICES ASSUME run.started
                 PROVE  /\ HasOpenRun(runs) /\ Last(runs).offset = run.offset /\ Last(runs).covers = {run.n}
                        /\ Last(runs).bytes <= run.bytes /\ Last(runs).bytes \in Nat
      OBVIOUS
    <3>1. HasOpenRun(runs) /\ Last(runs).offset = run.offset /\ Last(runs).covers = {run.n}
          /\ Last(runs).bytes <= run.bytes
      BY <1>1 DEF IInv, RecordOK, Running
    <3>2. Len(runs) \in 1 .. Len(runs)
      BY <1>1, <3>1 DEF HasOpenRun
    <3> QED
      BY <1>1, <3>1, <3>2, RecordTypes DEF Last
  <2>2. run.started => Last(runs).bytes <= run'.bytes
    BY <1>3, <1>8, <1>9, <2>1 DEF RunStates
  <2>3. HasOpenRun(runs) => run.started
    BY <1>1 DEF IInv, RecordOK
  <2> QED
    BY <1>1, <1>3, <2>1, <2>2, <2>3 DEF RecordOK, Running, HasOpenRun, Last
<1>12. LengthsOK'
  BY <1>1, <1>5, <1>6, Kinds DEF IInv, LengthsOK
<1>13. CountsOK'
  BY <1>1, <1>4, <1>6, Kinds DEF IInv, CountsOK
<1> QED
  BY <1>5, <1>6, <1>7, <1>10, <1>11, <1>12, <1>13 DEF IInv

-----------------------------------------------------------------------------
\* The table is rewritten in place.
LEMMA NotEmpty ==
  ASSUME NEW u \in Seq(Records), Len(u) >= 1
  PROVE  u # <<>>
OBVIOUS

HasLast(t, u, r) == /\ u \in Seq(Records) /\ Len(u) = Len(t) /\ u # <<>> /\ Last(u) = r
                    /\ \A i \in 1 .. Len(t) - 1 : u[i] = t[i]

LEMMA LastReplaced ==
  ASSUME NEW t \in Seq(Records), t # <<>>, NEW r \in Records
  PROVE  HasLast(t, [t EXCEPT ![Len(t)] = r], r)
<1> DEFINE u == [t EXCEPT ![Len(t)] = r]
<1>1. Len(t) \in Nat /\ Len(t) >= 1 /\ Len(t) \in 1 .. Len(t)
  OBVIOUS
<1>2. u \in Seq(Records) /\ Len(u) = Len(t) /\ u[Len(t)] = r /\ \A i \in 1 .. Len(t) - 1 : u[i] = t[i]
  BY <1>1
<1> HIDE DEF u
<1>3. u # <<>>
  BY <1>1, <1>2, NotEmpty
<1>4. HasLast(t, u, r)
  BY <1>2, <1>3 DEF HasLast, Last
<1> QED
  BY <1>4 DEF u

LEMMA CloseRecordStep == IInv /\ CloseRecord => IInv'
<1> SUFFICES ASSUME IInv, CloseRecord PROVE IInv'
  OBVIOUS
<1>1. /\ TypeOK /\ FaultsOK /\ file \in Seq(Pieces) /\ runs \in Seq(Records) /\ disk \in Seq(Records)
      /\ pc = "flushed" /\ pc' = "top" /\ restart' = TRUE /\ run \in RunStates
      /\ UNCHANGED <<file, bytes, run, split>> /\ bytes = Len(file)
      /\ TableOK(file, runs) /\ TableOK(file, disk)
  BY DEF IInv, TypeOK, RunStates, CloseRecord, RunOK
<1>2. CASE ~run.started
  <2>1. UNCHANGED <<runs, disk, faults>>
    BY <1>2 DEF CloseRecord
  <2>2. TypeOK'
    BY <1>1, <2>1 DEF TypeOK
  <2>3. FaultsOK' /\ NoBuriedPart'
    BY <1>1, <2>1 DEF IInv, FaultsOK, NoBuriedPart
  <2>4. ~HasOpenRun(runs)
    BY <1>1, <1>2 DEF IInv, RecordOK
  <2>5. RunOK' /\ RecordOK'
    BY <1>1, <2>1, <2>4 DEF RunOK, RecordOK, Running, HasOpenRun
  <2>6. LengthsOK' /\ CountsOK'
    BY <1>1, <2>1 DEF IInv, LengthsOK, CountsOK, NoneFailed
  <2> QED
    BY <1>1, <2>1, <2>2, <2>3, <2>5, <2>6 DEF IInv
<1>3. CASE run.started
  <2>1. /\ HasOpenRun(runs) /\ runs # <<>>
        /\ Last(runs).offset = run.offset /\ Last(runs).covers = {run.n}
    BY <1>1, <1>3 DEF IInv, RecordOK, Running, HasOpenRun
  <2>2. SaveOrFail
    BY <1>3 DEF CloseRecord
  <2>3. PICK dropVideo \in BOOLEAN :
          runs' = [runs EXCEPT ![Len(runs)].open = FALSE, ![Len(runs)].bytes = run.endBytes,
                               ![Len(runs)].files = IF dropVideo THEN @ \ {run.n} ELSE @]
    BY <1>3, <2>1 DEF CloseRecord
  <2> DEFINE a == Last(runs)
             r == [a EXCEPT !.open = FALSE, !.bytes = run.endBytes,
                            !.files = IF dropVideo THEN @ \ {run.n} ELSE @]
  <2>4. Len(runs) \in 1 .. Len(runs)
    BY <1>1, <2>1
  <2>5. a \in Records /\ a.files \in {{}, a.covers}
    BY <1>1, <2>4, RecordTypes DEF TableOK, Last
  <2>6. runs' = [runs EXCEPT ![Len(runs)] = r]
    BY <1>1, <2>3, <2>4 DEF Last
  <2>7. r \in Records /\ ~r.open /\ r.offset = a.offset /\ r.covers = a.covers /\ r.bytes = run.endBytes
        /\ r.files \in {{}, r.covers}
    BY <1>1, <2>1, <2>5 DEF Records, RunStates
  <2> HIDE DEF a, r
  <2>8. LastChanged(runs, runs') /\ Last(runs') = r /\ runs' # <<>>
    <3>1. HasLast(runs, runs', r)
      BY <1>1, <2>1, <2>6, <2>7, LastReplaced
    <3> QED
      BY <2>1, <2>7, <3>1 DEF LastChanged, HasLast, a
  <2>9. /\ Rewritten(runs, runs') /\ TableOK(file, runs')
        /\ RangesOK(file, runs) /\ Firm(file, EndOf(Last(runs'))) => RangesOK(file, runs')
    BY <1>1, <2>8, LastChangedTable
  <2>10. NoneFailed("write") => RangesOK(file, runs')
    <3> SUFFICES ASSUME NoneFailed("write") PROVE RangesOK(file, runs')
      OBVIOUS
    <3>1. Firm(file, run.offset + run.endBytes) /\ RangesOK(file, runs)
      BY <1>1 DEF IInv, RunOK, LengthsOK
    <3>2. EndOf(Last(runs')) = run.offset + run.endBytes
      BY <2>1, <2>7, <2>8 DEF EndOf, a
    <3> QED
      BY <2>9, <3>1, <3>2
  <2>11. /\ faults' \in [FaultKinds -> Nat] /\ FaultsOK'
         /\ \A kind \in FaultKinds : NoneFailed(kind)' => NoneFailed(kind)
         /\ disk' \in {disk, runs'}
         /\ NoneFailed("save")' => disk' = runs'
    BY <1>1, <2>2, SaveStep
  <2>12. TypeOK'
    <3>1. {runs', disk'} \subseteq Seq(Records) /\ Len(runs') = Len(runs)
      BY <1>1, <2>8, <2>11 DEF LastChanged
    <3>2. \A table \in {runs', disk'} : /\ Len(table) <= MaxRuns
                                       /\ \A i \in 1 .. Len(table) - 1 : ~table[i].open
      BY <1>1, <2>9, <2>11, <3>1 DEF TypeOK, TableOK
    <3> QED
      BY <1>1, <2>11, <3>1, <3>2 DEF TypeOK
  <2>13. NoBuriedPart' /\ TableOK(file, runs)' /\ TableOK(file, disk)'
    BY <1>1, <2>9, <2>11 DEF IInv, NoBuriedPart
  <2>14. RunOK' /\ RecordOK'
    BY <1>1, <2>7, <2>8 DEF RunOK, RecordOK, Running, HasOpenRun, Last
  <2>15. LengthsOK'
    BY <1>1, <2>10, <2>11, Kinds DEF IInv, LengthsOK
  <2>16. CountsOK'
    <3>1. Counted(file, runs) => Counted(file, runs')
      BY <1>1, <2>8, <2>9, SameCounts DEF Rewritten
    <3> QED
      BY <1>1, <2>11, <3>1, SameIsReflexive, Kinds DEF IInv, CountsOK
  <2> QED
    BY <2>11, <2>12, <2>13, <2>14, <2>15, <2>16 DEF IInv
<1> QED
  BY <1>2, <1>3

LEMMA PersistStep == IInv /\ Persist => IInv'
<1> SUFFICES ASSUME IInv, Persist PROVE IInv'
  OBVIOUS
<1>1. /\ TypeOK /\ FaultsOK /\ file \in Seq(Pieces) /\ runs \in Seq(Records) /\ disk \in Seq(Records)
      /\ pc \in {"top", "run", "flushed"} /\ run \in RunStates
      /\ UNCHANGED <<file, bytes, pc, restart, run, split, faults>> /\ disk' \in {disk, runs'}
      /\ TableOK(file, runs) /\ TableOK(file, disk)
  BY DEF IInv, TypeOK, RunStates, Persist, Up
<1>2. /\ Rewritten(runs, runs') /\ TableOK(file, runs') /\ runs' \in Seq(Records)
      /\ RangesOK(file, runs) => RangesOK(file, runs')
      /\ HasOpenRun(runs') <=> HasOpenRun(runs)
      /\ HasOpenRun(runs) => Last(runs').offset = Last(runs).offset /\ Last(runs').covers = Last(runs).covers
      /\ Last(runs').bytes = IF HasOpenRun(runs) THEN run.bytes ELSE Last(runs).bytes
      /\ ~HasOpenRun(runs) => runs' = runs
  <2>1. CASE ~HasOpenRun(runs)
    <3>1. runs' = runs
      BY <2>1 DEF Persist
    <3>2. Rewritten(runs, runs)
      BY <1>1 DEF Rewritten, Same, TableOK
    <3> QED
      BY <1>1, <2>1, <3>1, <3>2
  <2>2. CASE HasOpenRun(runs)
    <3> DEFINE a == Last(runs)
               r == [a EXCEPT !.bytes = run.bytes]
    <3>1. runs # <<>> /\ Len(runs) \in 1 .. Len(runs) /\ a.open
      BY <1>1, <2>2 DEF HasOpenRun, Last
    <3>2. a \in Records /\ a.files \in {{}, a.covers}
      BY <1>1, <3>1, RecordTypes DEF TableOK, Last
    <3>3. runs' = [runs EXCEPT ![Len(runs)] = r]
      BY <1>1, <2>2, <3>1 DEF Persist, Last
    <3>4. r \in Records /\ r.open /\ r.offset = a.offset /\ r.covers = a.covers /\ r.bytes = run.bytes
          /\ r.files \in {{}, r.covers}
      BY <1>1, <3>1, <3>2 DEF Records, RunStates
    <3> HIDE DEF a, r
    <3>5. HasLast(runs, runs', r)
      BY <1>1, <3>1, <3>3, <3>4, LastReplaced
    <3>6. LastChanged(runs, runs')
      BY <3>1, <3>4, <3>5 DEF LastChanged, HasLast, a
    <3>7. Last(runs').open /\ HasOpenRun(runs')
      BY <3>4, <3>5 DEF HasLast, HasOpenRun, Last
    <3>8. Rewritten(runs, runs') /\ TableOK(file, runs') /\ (RangesOK(file, runs) => RangesOK(file, runs'))
      BY <1>1, <3>6, <3>7, LastChangedTable
    <3> QED
      BY <2>2, <3>4, <3>5, <3>7, <3>8 DEF HasLast, a
  <2> QED
    BY <2>1, <2>2
<1>3. \A kind \in FaultKinds : NoneFailed(kind)' <=> NoneFailed(kind)
  BY <1>1 DEF NoneFailed
<1>4. TypeOK'
  <2>1. {runs', disk'} \subseteq Seq(Records) /\ Len(runs') = Len(runs)
    BY <1>1, <1>2 DEF Rewritten, Same
  <2>2. \A table \in {runs', disk'} : /\ Len(table) <= MaxRuns
                                     /\ \A i \in 1 .. Len(table) - 1 : ~table[i].open
    BY <1>1, <1>2, <2>1 DEF TypeOK, TableOK
  <2> QED
    BY <1>1, <2>1, <2>2 DEF TypeOK, RunStates
<1>5. FaultsOK' /\ NoBuriedPart' /\ TableOK(file, runs)' /\ TableOK(file, disk)'
  BY <1>1, <1>2 DEF IInv, FaultsOK, NoBuriedPart
<1>6. \A i \in 1 .. Len(runs') : i \in 1 .. Len(runs) /\ runs'[i].offset = runs[i].offset
  BY <1>2 DEF Rewritten, Same
<1>7. RunOK'
  <2>1. HasOpenRun(runs) => run.started
    BY <1>1 DEF IInv, RecordOK
  <2> QED
    BY <1>1, <1>2, <1>3, <1>6, <2>1, Kinds DEF IInv, RunOK, Running
<1>8. RecordOK'
  BY <1>1, <1>2 DEF IInv, RecordOK, Running, RunStates
<1>9. LengthsOK'
  BY <1>1, <1>2, <1>3, Kinds DEF IInv, LengthsOK
<1>10. CountsOK'
  <2>1. Counted(file, runs) => Counted(file, runs')
    <3>1. runs # <<>> => runs' # <<>>
      <4>1. runs # <<>> => Len(runs) >= 1
        BY <1>1
      <4> QED
        BY <1>2, <4>1, NotEmpty DEF Rewritten, Same
    <3> QED
      BY <1>1, <1>2, <3>1, SameCounts DEF Rewritten
  <2>2. Same(runs, disk) => Same(runs', disk')
    BY <1>1, <1>2, SameIsReflexive DEF Rewritten, Same
  <2> QED
    BY <1>1, <1>3, <2>1, <2>2, Kinds DEF IInv, CountsOK
<1> QED
  BY <1>4, <1>5, <1>7, <1>8, <1>9, <1>10 DEF IInv

LEMMA FinalizeStep == IInv /\ Finalize => IInv'
<1> SUFFICES ASSUME IInv, Finalize PROVE IInv'
  OBVIOUS
<1>1. /\ TypeOK /\ FaultsOK /\ file \in Seq(Pieces) /\ pc = "top" /\ pc' = "done" /\ SaveOrFail
      /\ UNCHANGED <<file, bytes, runs, restart, run, split>>
  BY DEF IInv, TypeOK, Finalize
<1>2. /\ faults' \in [FaultKinds -> Nat] /\ FaultsOK'
      /\ \A kind \in FaultKinds : NoneFailed(kind)' => NoneFailed(kind)
      /\ disk' \in {disk, runs'}
      /\ NoneFailed("save")' => disk' = runs'
  BY <1>1, SaveStep
<1>3. TypeOK'
  BY <1>1, <1>2 DEF TypeOK
<1>4. NoBuriedPart' /\ TableOK(file, runs)' /\ TableOK(file, disk)'
  BY <1>1, <1>2 DEF IInv, NoBuriedPart
<1>5. RunOK' /\ RecordOK'
  BY <1>1 DEF IInv, RunOK, RecordOK, Running, HasOpenRun
<1>6. LengthsOK'
  BY <1>1, <1>2, Kinds DEF IInv, LengthsOK
<1>7. CountsOK'
  BY <1>1, <1>2, SameIsReflexive, Kinds DEF IInv, CountsOK
<1> QED
  BY <1>2, <1>3, <1>4, <1>5, <1>6, <1>7 DEF IInv

LEMMA CrashStep == IInv /\ Crash => IInv'
<1> SUFFICES ASSUME IInv, Crash PROVE IInv'
  OBVIOUS
<1>1. /\ TypeOK /\ FaultsOK /\ file \in Seq(Pieces) /\ runs \in Seq(Records) /\ disk \in Seq(Records)
      /\ pc \in {"top", "run", "flushed"} /\ pc' = "down" /\ Happens("crash")
      /\ runs' = disk /\ disk' = disk /\ bytes' = 0 /\ restart' = FALSE
      /\ run' = NewRun(run.n, 0, FALSE) /\ split' = NewSplit /\ run.n \in 0 .. RunBound
  BY DEF IInv, TypeOK, Crash, Up
<1>2. /\ Keeps(file, file')
      /\ \A t \in Seq(Records) : Counted(file, t) => Counted(file', t)
  <2>1. CASE file' = file
    BY <1>1, <2>1, NothingKeeps
  <2>2. CASE /\ pc = "run" /\ run.started /\ ~run.werr
             /\ file' = Append(file, [run |-> run.n, kind |-> "part"])
    <3>1. Settled(file) /\ run.n \in RunNumbers
      BY <1>1, <2>2 DEF IInv, RunOK, Running, RunNumbers
    <3>2. [run |-> run.n, kind |-> "part"] \in Pieces
      BY <3>1 DEF Pieces
    <3>3. \A t \in Seq(Records) :
            Counted(file, t) => Counted(Append(file, [run |-> run.n, kind |-> "part"]), t)
      BY <1>1, <3>2, AppendCounts
    <3> QED
      BY <1>1, <2>2, <3>1, <3>2, <3>3, AppendKeeps
  <2> QED
    BY <2>1, <2>2 DEF Crash
<1>3. /\ faults' \in [FaultKinds -> Nat] /\ FaultsOK'
      /\ \A kind \in FaultKinds : NoneFailed(kind)' => NoneFailed(kind)
  BY <1>1, FaultStep, Kinds
<1>4. file' \in Seq(Pieces) /\ NoBuriedPart'
  <2>1. NoneBuried(file)
    BY <1>1, BuriedMeans DEF IInv, NoBuriedPart
  <2> QED
    BY <1>2, <2>1, BuriedMeans DEF Keeps, NoBuriedPart
<1>5. TableOK(file', disk) /\ (RangesOK(file, disk) => RangesOK(file', disk))
  BY <1>1, <1>2, KeptTable DEF IInv
<1>6. TypeOK'
  <2>1. run' \in RunStates
    BY <1>1 DEF NewRun, RunStates
  <2>2. split' \in [synced : BOOLEAN, held : {"none", "frame", "part"}, ready : 0 .. 2]
    BY <1>1 DEF NewSplit
  <2> QED
    BY <1>1, <1>3, <1>4, <2>1, <2>2 DEF TypeOK, RunStates
<1>7. RunOK' /\ RecordOK'
  BY <1>1 DEF RunOK, RecordOK, Running
<1>8. LengthsOK'
  BY <1>1, <1>3, <1>5, Kinds DEF IInv, LengthsOK
<1>9. CountsOK'
  <2>1. Same(runs, disk) /\ Counted(file, runs) => Counted(file', disk)
    <3> SUFFICES ASSUME Same(runs, disk), Counted(file, runs) PROVE Counted(file', disk)
      OBVIOUS
    <3>1. runs # <<>> => disk # <<>>
      <4>1. runs # <<>> => Len(runs) >= 1
        BY <1>1
      <4> QED
        BY <1>1, <4>1, NotEmpty DEF Same
    <3> QED
      BY <1>1, <1>2, <3>1, SameCounts
  <2> QED
    BY <1>1, <1>3, <2>1, SameIsReflexive, Kinds DEF IInv, CountsOK
<1> QED
  BY <1>1, <1>3, <1>4, <1>5, <1>6, <1>7, <1>8, <1>9 DEF IInv

LEMMA SuspendStep == IInv /\ Suspend => IInv'
<1> SUFFICES ASSUME IInv, Suspend PROVE IInv'
  OBVIOUS
<1>1. /\ TypeOK /\ FaultsOK /\ runs \in Seq(Records) /\ disk \in Seq(Records)
      /\ pc = "top" /\ pc' = "down" /\ runs' = disk' /\ bytes' = 0 /\ restart' = FALSE
      /\ UNCHANGED <<file, run, split>>
      /\ \/ disk' = runs /\ faults' = faults
         \/ disk' = disk /\ Happens("save")
  BY DEF IInv, TypeOK, Suspend
<1>2. /\ faults' \in [FaultKinds -> Nat] /\ FaultsOK'
      /\ \A kind \in FaultKinds : NoneFailed(kind)' => NoneFailed(kind)
      /\ NoneFailed("save")' => disk' = runs
  BY <1>1, FaultStep, Kinds
<1>3. TypeOK'
  BY <1>1, <1>2 DEF TypeOK
<1>4. NoBuriedPart' /\ TableOK(file, runs)' /\ TableOK(file, disk)'
  BY <1>1 DEF IInv, NoBuriedPart
<1>5. RunOK' /\ RecordOK'
  BY <1>1 DEF RunOK, RecordOK, Running
<1>6. LengthsOK'
  BY <1>1, <1>2, Kinds DEF IInv, LengthsOK
<1>7. CountsOK'
  BY <1>1, <1>2, SameIsReflexive, Kinds DEF IInv, CountsOK
<1> QED
  BY <1>2, <1>3, <1>4, <1>5, <1>6, <1>7 DEF IInv

LEMMA RecoverStep == IInv /\ Recover => IInv'
<1> SUFFICES ASSUME IInv, Recover PROVE IInv'
  OBVIOUS
<1>1. /\ TypeOK /\ FaultsOK /\ file \in Seq(Pieces) /\ runs \in Seq(Records) /\ disk = runs
      /\ pc = "down" /\ pc' = "top" /\ restart' = TRUE /\ file' = Trimmed(file) /\ bytes' = Len(file')
      /\ runs' = FixOpenRun(runs, bytes') /\ UNCHANGED <<disk, run, split, faults>>
  BY DEF IInv, TypeOK, RecordOK, Recover
<1>2. /\ Keeps(file, file') /\ Settled(file') /\ file' \in Seq(Pieces) /\ Len(file') \in Nat
      /\ Firm(file', Len(file'))
      /\ \A i \in 1 .. Len(file') : i \in 1 .. Len(file) /\ file'[i] = file[i]
  <2>1. /\ Keeps(file, file') /\ Settled(file') /\ Len(file') <= Len(file)
        /\ \A i \in 1 .. Len(file') : file'[i] = file[i]
    BY <1>1, TrimKeeps
  <2>2. file' \in Seq(Pieces)
    BY <2>1 DEF Keeps
  <2> QED
    BY <1>1, <2>1, <2>2, FirmEnd
<1>3. /\ TableOK(file', runs) /\ (RangesOK(file, runs) => RangesOK(file', runs))
      /\ NoBuriedPart'
  <2>1. NoneBuried(file)
    BY <1>1, BuriedMeans DEF IInv, NoBuriedPart
  <2>2. NoBuriedPart'
    BY <1>2, <2>1, BuriedMeans DEF Keeps, NoBuriedPart
  <2> QED
    BY <1>1, <1>2, <2>2, KeptTable DEF IInv
<1>4. /\ Rewritten(runs, runs') /\ TableOK(file', runs') /\ runs' \in Seq(Records) /\ ~HasOpenRun(runs')
      /\ RangesOK(file', runs) => RangesOK(file', runs')
  <2>1. CASE ~HasOpenRun(runs)
    <3>1. runs' = runs
      BY <1>1, <2>1 DEF FixOpenRun
    <3>2. Rewritten(runs, runs)
      BY <1>1, <1>3 DEF Rewritten, Same, TableOK
    <3> QED
      BY <1>1, <1>3, <2>1, <3>1, <3>2
  <2>2. CASE HasOpenRun(runs)
    <3> DEFINE a == Last(runs)
               r == [a EXCEPT !.open = FALSE, !.bytes = Len(file') - a.offset]
    <3>1. runs # <<>> /\ Len(runs) \in 1 .. Len(runs)
      BY <1>1, <2>2 DEF HasOpenRun
    <3>2. a \in Records /\ a.files \in {{}, a.covers} /\ Firm(file', a.offset)
      BY <1>1, <1>3, <3>1, RecordTypes DEF TableOK, Last
    <3>3. a.offset \in Nat /\ Len(file') >= a.offset /\ Len(file') - a.offset \in Nat
      BY <1>2, <3>2 DEF Firm
    <3>4. runs' = [runs EXCEPT ![Len(runs)] = r]
      BY <1>1, <2>2, <3>1, <3>3 DEF FixOpenRun, Last
    <3>5. r \in Records /\ ~r.open /\ r.offset = a.offset /\ r.covers = a.covers /\ r.bytes = Len(file') - a.offset
          /\ r.files \in {{}, r.covers}
      BY <3>2, <3>3 DEF Records
    <3> HIDE DEF a, r
    <3>6. HasLast(runs, runs', r)
      BY <1>1, <3>1, <3>4, <3>5, LastReplaced
    <3>7. LastChanged(runs, runs') /\ ~HasOpenRun(runs')
      BY <3>1, <3>5, <3>6 DEF LastChanged, HasLast, HasOpenRun, Last, a
    <3>8. EndOf(Last(runs')) = Len(file')
      BY <1>2, <3>3, <3>5, <3>6 DEF HasLast, EndOf
    <3>9. Rewritten(runs, runs') /\ TableOK(file', runs') /\ (RangesOK(file', runs) => RangesOK(file', runs'))
      BY <1>1, <1>2, <1>3, <3>7, <3>8, LastChangedTable
    <3> QED
      BY <3>6, <3>7, <3>9 DEF HasLast
  <2> QED
    BY <2>1, <2>2
<1>5. FaultsOK' /\ \A kind \in FaultKinds : NoneFailed(kind)' <=> NoneFailed(kind)
  BY <1>1 DEF FaultsOK, NoneFailed
<1>6. TypeOK'
  <2>1. {runs', disk'} \subseteq Seq(Records) /\ Len(runs') = Len(runs)
    BY <1>1, <1>4 DEF Rewritten, Same
  <2>2. \A table \in {runs', disk'} : /\ Len(table) <= MaxRuns
                                     /\ \A i \in 1 .. Len(table) - 1 : ~table[i].open
    BY <1>1, <1>4, <2>1 DEF TypeOK, TableOK
  <2> QED
    BY <1>1, <1>2, <2>1, <2>2 DEF TypeOK
<1>7. RunOK' /\ RecordOK'
  BY <1>1, <1>4 DEF RunOK, RecordOK, Running
<1>8. LengthsOK'
  BY <1>1, <1>3, <1>4, <1>5, Kinds DEF IInv, LengthsOK
<1>9. CountsOK'
  <2>1. Counted(file, runs) => Counted(file', runs')
    <3>1. runs # <<>> => runs' # <<>>
      <4>1. runs # <<>> => Len(runs) >= 1
        BY <1>1
      <4> QED
        BY <1>4, <4>1, NotEmpty DEF Rewritten, Same
    <3>2. Counted(file, runs) => Counted(file', runs)
      BY <1>2, CountedKept
    <3> QED
      BY <1>1, <1>4, <3>1, <3>2, SameCounts DEF Rewritten
  <2>2. Same(runs', disk')
    BY <1>1, <1>4 DEF Rewritten, Same
  <2> QED
    BY <1>5, <2>1, <2>2, Kinds DEF IInv, CountsOK
<1> QED
  BY <1>1, <1>3, <1>4, <1>5, <1>6, <1>7, <1>8, <1>9 DEF IInv

\* u is the table t with every record as long as it can be.
Filled(f, t, u) ==
  /\ Rewritten(t, u)
  /\ \A i \in 1 .. Len(t) : EndOf(u[i]) = IF i < Len(t) THEN u[i + 1].offset ELSE Len(f)

LEMMA Measured ==
  ASSUME NEW f \in Seq(Pieces), NEW t \in Seq(Records), TableOK(f, t), NEW u,
         u = [i \in DOMAIN t |-> [t[i] EXCEPT !.bytes =
               IF Extent(t, i, Len(f)) >= 0 THEN Extent(t, i, Len(f)) ELSE @]]
  PROVE  Filled(f, t, u)
<1>1. DOMAIN t = 1 .. Len(t) /\ Len(t) \in Nat /\ Len(f) \in Nat
  OBVIOUS
<1>2. ASSUME NEW i \in 1 .. Len(t)
      PROVE  /\ Extent(t, i, Len(f)) \in Nat
             /\ t[i].offset + Extent(t, i, Len(f)) = IF i < Len(t) THEN t[i + 1].offset ELSE Len(f)
  <2>1. t[i].offset \in Nat /\ t[i].offset <= Len(f)
    BY RecordTypes DEF TableOK, Firm
  <2>2. i < Len(t) => i + 1 \in 1 .. Len(t) /\ t[i + 1].offset \in Nat /\ t[i].offset <= t[i + 1].offset
    <3> SUFFICES ASSUME i < Len(t)
                 PROVE  i + 1 \in 1 .. Len(t) /\ t[i + 1].offset \in Nat /\ t[i].offset <= t[i + 1].offset
      OBVIOUS
    <3>1. i + 1 \in 1 .. Len(t) /\ i <= i + 1
      BY <1>1
    <3> QED
      BY <3>1, RecordTypes DEF TableOK
  <2> QED
    BY <1>1, <2>1, <2>2 DEF Extent
<1>3. ASSUME NEW i \in 1 .. Len(t)
      PROVE  /\ u[i] \in Records /\ u[i].offset = t[i].offset /\ u[i].covers = t[i].covers
             /\ u[i].open = t[i].open /\ u[i].files = t[i].files /\ u[i].bytes = Extent(t, i, Len(f))
  <2>1. u[i] = [t[i] EXCEPT !.bytes = Extent(t, i, Len(f))]
    BY <1>1, <1>2
  <2>2. t[i] \in Records /\ Extent(t, i, Len(f)) \in Nat
    BY <1>2, RecordTypes
  <2>3. \A r \in Records, b \in Nat :
          LET v == [r EXCEPT !.bytes = b]
          IN /\ v \in Records /\ v.offset = r.offset /\ v.covers = r.covers
             /\ v.open = r.open /\ v.files = r.files /\ v.bytes = b
    BY DEF Records
  <2> QED
    BY <2>1, <2>2, <2>3
<1>4. u \in Seq(Records) /\ Len(u) = Len(t)
  <2>1. u \in [1 .. Len(t) -> Records]
    BY <1>1, <1>3
  <2>2. u \in Seq(Records)
    BY <1>1, <2>1, SeqDef
  <2>3. DOMAIN u = 1 .. Len(u) /\ DOMAIN u = 1 .. Len(t)
    BY <1>1, <2>2
  <2> QED
    BY <1>1, <2>2, <2>3
<1>5. Rewritten(t, u)
  <2>1. \A i \in 1 .. Len(u) - 1 : i \in 1 .. Len(t) - 1 /\ i \in 1 .. Len(t)
    BY <1>4
  <2> QED
    BY <1>3, <1>4, <2>1 DEF Rewritten, Same, TableOK
<1>6. ASSUME NEW i \in 1 .. Len(t)
      PROVE  EndOf(u[i]) = IF i < Len(t) THEN u[i + 1].offset ELSE Len(f)
  <2>1. i < Len(t) => i + 1 \in 1 .. Len(t) /\ t[i + 1].offset \in Nat
    <3>1. i < Len(t) => i + 1 \in 1 .. Len(t)
      BY <1>1
    <3> QED
      BY <3>1, RecordTypes
  <2>2. EndOf(u[i]) = t[i].offset + Extent(t, i, Len(f))
    BY <1>3 DEF EndOf
  <2> QED
    BY <1>1, <1>2, <1>3, <2>1, <2>2
<1> QED
  BY <1>5, <1>6 DEF Filled

LEMMA MeasureStep == IInv /\ Measure => IInv'
<1> SUFFICES ASSUME IInv, Measure PROVE IInv'
  OBVIOUS
<1>1. /\ TypeOK /\ FaultsOK /\ file \in Seq(Pieces) /\ runs \in Seq(Records) /\ disk \in Seq(Records)
      /\ pc = "done" /\ pc' = "measured" /\ file' = Trimmed(file) /\ SaveOrFail
      /\ UNCHANGED <<bytes, restart, run, split>>
      /\ runs' = [i \in DOMAIN runs |-> [runs[i] EXCEPT !.bytes =
                    IF Extent(runs, i, Len(file')) >= 0 THEN Extent(runs, i, Len(file')) ELSE @]]
  BY DEF IInv, TypeOK, Measure
<1>2. /\ Keeps(file, file') /\ file' \in Seq(Pieces) /\ Len(file') \in Nat /\ Firm(file', Len(file'))
      /\ \A i \in 1 .. Len(file') : i \in 1 .. Len(file) /\ file'[i] = file[i]
  <2>1. /\ Keeps(file, file') /\ Settled(file') /\ Len(file') <= Len(file)
        /\ \A i \in 1 .. Len(file') : file'[i] = file[i]
    BY <1>1, TrimKeeps
  <2>2. file' \in Seq(Pieces)
    BY <2>1 DEF Keeps
  <2> QED
    BY <1>1, <2>1, <2>2, FirmEnd
<1>3. /\ TableOK(file', runs) /\ TableOK(file', disk) /\ (RangesOK(file, disk) => RangesOK(file', disk))
      /\ NoBuriedPart'
  <2>1. NoneBuried(file)
    BY <1>1, BuriedMeans DEF IInv, NoBuriedPart
  <2>2. NoBuriedPart'
    BY <1>2, <2>1, BuriedMeans DEF Keeps, NoBuriedPart
  <2> QED
    BY <1>1, <1>2, <2>2, KeptTable DEF IInv
<1>4. /\ Rewritten(runs, runs')
      /\ \A i \in 1 .. Len(runs) : EndOf(runs'[i]) = IF i < Len(runs) THEN runs'[i + 1].offset ELSE Len(file')
  <2>1. Filled(file', runs, runs')
    BY <1>1, <1>2, <1>3, Measured
  <2> QED
    BY <2>1 DEF Filled
<1>5. TableOK(file', runs') /\ runs' \in Seq(Records) /\ Len(runs') = Len(runs)
  BY <1>1, <1>3, <1>4, RewrittenTable DEF Rewritten, Same
<1>6. /\ faults' \in [FaultKinds -> Nat] /\ FaultsOK'
      /\ \A kind \in FaultKinds : NoneFailed(kind)' => NoneFailed(kind)
      /\ disk' \in {disk, runs'}
      /\ NoneFailed("save")' => disk' = runs'
  BY <1>1, SaveStep
<1>7. TypeOK'
  <2>1. {runs', disk'} \subseteq Seq(Records)
    BY <1>1, <1>5, <1>6
  <2>2. \A table \in {runs', disk'} : /\ Len(table) <= MaxRuns
                                     /\ \A i \in 1 .. Len(table) - 1 : ~table[i].open
    BY <1>1, <1>5, <1>6 DEF TypeOK, TableOK
  <2> QED
    BY <1>1, <1>2, <1>6, <2>1, <2>2 DEF TypeOK
<1>8. RecordOK'
  <2>1. ~HasOpenRun(runs)
    BY <1>1 DEF IInv, RecordOK, Running
  <2>2. runs' # <<>> => Last(runs').open = Last(runs).open /\ runs # <<>>
    <3> SUFFICES ASSUME runs' # <<>> PROVE Last(runs').open = Last(runs).open /\ runs # <<>>
      OBVIOUS
    <3>1. Len(runs') >= 1 /\ Len(runs) \in DOMAIN runs /\ runs # <<>>
      BY <1>1, <1>5
    <3> QED
      BY <1>1, <1>5, <3>1 DEF Last, Records
  <2> QED
    BY <1>1, <2>1, <2>2 DEF RecordOK, Running, HasOpenRun, Last
<1>9. RunOK'
  BY <1>1 DEF RunOK, Running
<1>10. LengthsOK'
  <2>1. RangesDisjoint'
    <3>1. DOMAIN runs' = 1 .. Len(runs)
      BY <1>5
    <3>2. ASSUME NEW i \in 1 .. Len(runs)
          PROVE  EndOf(runs'[i]) <= IF i < Len(runs) THEN runs'[i + 1].offset ELSE Len(file')
      <4>1. EndOf(runs'[i]) \in Nat
        BY <1>5, RecordTypes
      <4> QED
        BY <1>4, <4>1
    <3> QED
      BY <1>5, <3>1, <3>2 DEF RangesDisjoint, EndOf
  <2>2. NoneFailed("write")' => RangesOK(file', disk')
    <3>1. RangesOK(file', runs')
      <4>1. \A i \in 1 .. Len(runs') - 1 : i \in 1 .. Len(runs) /\ i < Len(runs)
        BY <1>5
      <4>2. runs' # <<>> => Firm(file', EndOf(Last(runs')))
        <5>1. runs' # <<>> => Len(runs) \in 1 .. Len(runs) /\ ~(Len(runs) < Len(runs))
          BY <1>5
        <5> QED
          BY <1>2, <1>4, <1>5, <5>1 DEF Last
      <4>3. \A i \in 1 .. Len(runs') - 1 : EndOf(runs'[i]) <= runs'[i + 1].offset
        <5> SUFFICES ASSUME NEW i \in 1 .. Len(runs') - 1 PROVE EndOf(runs'[i]) <= runs'[i + 1].offset
          OBVIOUS
        <5>1. EndOf(runs'[i]) \in Nat /\ EndOf(runs'[i]) = runs'[i + 1].offset
          BY <1>4, <1>5, <4>1, RecordTypes
        <5> QED
          BY <5>1
      <4> QED
        BY <4>2, <4>3 DEF RangesOK
    <3> QED
      BY <1>3, <1>6, <3>1, Kinds DEF IInv, LengthsOK
  <2> QED
    BY <1>1, <2>1, <2>2 DEF LengthsOK
<1>11. CountsOK'
  <2>1. Counted(file, runs) => Counted(file', runs')
    <3>1. runs # <<>> => runs' # <<>>
      <4>1. runs # <<>> => Len(runs) >= 1
        BY <1>1
      <4> QED
        BY <1>5, <4>1, NotEmpty
    <3>2. Counted(file, runs) => Counted(file', runs)
      BY <1>2, CountedKept
    <3> QED
      BY <1>1, <1>4, <3>1, <3>2, SameCounts DEF Rewritten
  <2> QED
    BY <1>6, <2>1, SameIsReflexive, Kinds DEF IInv, CountsOK
<1> QED
  BY <1>3, <1>5, <1>6, <1>7, <1>8, <1>9, <1>10, <1>11 DEF IInv

-----------------------------------------------------------------------------
LEMMA InitInv == Init => IInv
<1> SUFFICES ASSUME Init PROVE IInv
  OBVIOUS
<1>1. /\ file = <<>> /\ bytes = 0 /\ runs = <<>> /\ disk = <<>> /\ pc = "top" /\ restart = FALSE
      /\ run = NewRun(0, 0, FALSE) /\ split = NewSplit /\ faults = Faults
  BY DEF Init
<1>2. Len(file) = 0 /\ Len(runs) = 0 /\ Len(disk) = 0
      /\ file \in Seq(Pieces) /\ runs \in Seq(Records) /\ disk \in Seq(Records)
  BY <1>1
<1>3. run \in RunStates
  BY <1>1, BoundsAssumption DEF NewRun, RunStates
<1>4. TypeOK
  <2>1. split \in [synced : BOOLEAN, held : {"none", "frame", "part"}, ready : 0 .. 2]
    BY <1>1 DEF NewSplit
  <2>2. \A table \in {runs, disk} : /\ Len(table) <= MaxRuns
                                   /\ \A i \in 1 .. Len(table) - 1 : ~table[i].open
    BY <1>1, <1>2, MaxRunsAssumption
  <2> QED
    BY <1>1, <1>2, <1>3, <2>1, <2>2, FaultsAssumption DEF TypeOK, RunStates
<1>5. FaultsOK
  BY <1>1, FaultsAssumption DEF FaultsOK
<1>6. NoBuriedPart /\ TableOK(file, runs) /\ TableOK(file, disk)
  BY <1>1, <1>2 DEF NoBuriedPart, TableOK
<1>7. RunOK /\ RecordOK
  BY <1>1, <1>2 DEF RunOK, RecordOK, Running, HasOpenRun
<1>8. LengthsOK
  BY <1>1, <1>2 DEF LengthsOK, RangesOK
<1>9. CountsOK
  BY <1>1, <1>2 DEF CountsOK, Same, Counted
<1> QED
  BY <1>4, <1>5, <1>6, <1>7, <1>8, <1>9 DEF IInv

LEMMA StutterStep == IInv /\ UNCHANGED vars => IInv'
<1> SUFFICES ASSUME IInv, UNCHANGED vars PROVE IInv'
  OBVIOUS
<1>1. UNCHANGED <<file, bytes, runs, disk, pc, restart, run, split, faults>>
  BY DEF vars
<1>2. TypeOK'
  BY <1>1 DEF IInv, TypeOK
<1>3. LengthsOK'
  BY <1>1 DEF IInv, LengthsOK, NoneFailed, RangesDisjoint, Up
<1> QED
  BY <1>1, <1>2, <1>3 DEF IInv, FaultsOK, NoneFailed, NoBuriedPart, RunOK, RecordOK, CountsOK, Running, HasOpenRun

LEMMA Invariance == Spec => []IInv
<1>1. IInv /\ [Next]_vars => IInv'
  BY BeginStep, FeedStep, OpenRecordStep, WriteFrameStep, FlushStep, CloseRecordStep, PersistStep, FinalizeStep,
     MeasureStep, SuspendStep, CrashStep, RecoverStep, StutterStep DEF Next, Supervise
<1> QED
  BY <1>1, InitInv, PTL DEF Spec

\* The capture's state is well typed, its table never longer than the cap, and only
\* its last record is open.
THEOREM TypeCorrect == Spec => []TypeOK
<1>1. IInv => TypeOK
  BY DEF IInv
<1> QED
  BY <1>1, Invariance, PTL

\* Unless the save of a new record failed, every frame of the capture is counted to the
\* run that recorded it, through crashes, trims and the cap of the table (ScanRuns).
THEOREM CountedRightHolds == Spec => []CountedRight
BY InvCounts, Invariance, PTL

\* The ranges of runs do not overlap and end within the file: whatever the persister
\* and a crash left while no write failed, and always once they are measured.
THEOREM RangesDisjointHolds == Spec => []RangesDisjoint
BY InvRanges, Invariance, PTL

\* No run of ffmpeg is appended to a torn frame that trimTail can recognise.
THEOREM NoBuriedPartHolds == Spec => []NoBuriedPart
<1>1. IInv => NoBuriedPart
  BY DEF IInv
<1> QED
  BY <1>1, Invariance, PTL

\* A record names the video files of all of its runs or of none, also when appendRun
\* makes one record of two.
THEOREM VideoCompleteHolds == Spec => []VideoComplete
BY InvVideo, Invariance, PTL
=============================================================================
