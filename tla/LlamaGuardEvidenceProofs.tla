---------------------- MODULE LlamaGuardEvidenceProofs ----------------------
(***************************************************************************)
(* Proofs about LlamaGuardEvidence for every set of runs and commits, every *)
(* threshold and any number of tools in the workspace that outlives runs.   *)
(***************************************************************************)
EXTENDS LlamaGuardEvidence, SequenceTheorems, WellFoundedInduction, TLAPS

-----------------------------------------------------------------------------
(* The inductive invariant.                                                 *)

\* The classifications that run r may have made, and those within the threshold.
Own(r) == [run : {r}, unsafe : 0 .. Cases]

Passing(r) == {x \in Own(r) : x.unsafe <= Tolerated[Commit[r]]}

\* What the steps of run r make of the classifications x.
SummaryOf(r, x) ==
    [run |-> r, commit |-> Commit[r], checkout |-> Commit[r], raw |-> x, manifest |-> x]

BundleOf(r, x) == [subject |-> SummaryOf(r, x), commit |-> Commit[r]]

EnvelopeOf(r, x) ==
    [summary |-> SummaryOf(r, x), raw |-> x, bundle |-> BundleOf(r, x), commit |-> Commit[r]]

ReportOf(r, x) ==
    [verified |-> TRUE, summary |-> SummaryOf(r, x), envelope |-> EnvelopeOf(r, x)]

\* The files that the steps of run r leave.
Produced(x) == [n \in FileNames |-> IF n \in {"raw", "manifest"} THEN x ELSE None]
Measured(r, x) == [Produced(x) EXCEPT !["summary"] = SummaryOf(r, x)]
Enveloped(r, x) ==
    [Measured(r, x) EXCEPT !["bundle"] = BundleOf(r, x), !["envelope"] = EnvelopeOf(r, x)]
Verified(r, x) == [Enveloped(r, x) EXCEPT !["report"] = ReportOf(r, x)]

Stages == Ended \cup {"new", "produced", "ingested", "uploaded", "attested",
                      "enveloped", "verified", "published"}

\* A CI run's files are those of the classifications its producer made, which are
\* within the threshold once the adapter has succeeded.
StageInv(r) ==
    /\ stage[r] \in Stages
    /\ stage[r] \in {"new", "broken"} => job[r] = NoFiles
    /\ stage[r] = "produced" => \E x \in Own(r) : job[r] = Produced(x)
    /\ stage[r] \in {"ingested", "uploaded"} => \E x \in Passing(r) : job[r] = Measured(r, x)
    /\ stage[r] = "uploaded" => \E x \in Passing(r) : current[r] = Measured(r, x)
    /\ stage[r] = "attested" =>
          \E x \in Passing(r) : job[r] = Measured(r, x) /\ BundleOf(r, x) \in bundles
    /\ stage[r] = "enveloped" =>
          \E x \in Passing(r) : job[r] = Enveloped(r, x) /\ BundleOf(r, x) \in bundles
    /\ stage[r] \in {"verified", "published", "admitted"} =>
          \E x \in Passing(r) : job[r] = Verified(r, x) /\ BundleOf(r, x) \in bundles
    /\ stage[r] = "published" => \E x \in Passing(r) : attested[r] = Verified(r, x)
                                                     /\ BundleOf(r, x) \in bundles
    /\ stage[r] = "rejected" => \E x \in Own(r) \ Passing(r) : job[r] = Measured(r, x)
    /\ current[r] # None => \E x \in Passing(r) : current[r] = Measured(r, x)
    /\ attested[r] # None => \E x \in Passing(r) : attested[r] = Verified(r, x)
                                                /\ BundleOf(r, x) \in bundles

CIInv ==
    /\ DOMAIN stage = Runs /\ DOMAIN job = Runs /\ DOMAIN current = Runs /\ DOMAIN attested = Runs
    /\ stage = [r \in Runs |-> stage[r]] /\ job = [r \in Runs |-> job[r]]
    /\ current = [r \in Runs |-> current[r]] /\ attested = [r \in Runs |-> attested[r]]
    /\ \A r \in Runs : StageInv(r)

BundlesInv == \A b \in bundles : \E r \in Runs : \E x \in Passing(r) : b = BundleOf(r, x)

IsFiles(f) == f = [n \in FileNames |-> f[n]]

\* Files that describe each other, all along a sequence of writes.
Along(f, writes) ==
    \A k \in 0 .. Len(writes) : DescribeEachOther(Apply(f, SubSeq(writes, 1, k)))

Contents == Maybe(Raws \cup Summaries \cup Bundles \cup Envelopes \cup Reports)

\* Content c of file n: a bundle is one that CI attested, a report says verified
\* of an attested summary only.
Sound(n, c) ==
    c # None => /\ n \in {"raw", "manifest"} => c \in Raws
                /\ n = "summary" => c \in Summaries
                /\ n = "bundle" => c \in bundles
                /\ n = "envelope" => c \in Envelopes
                /\ n = "report" => /\ c \in Reports
                                   /\ c.verified => \E b \in bundles : b.subject = c.summary

AllWrites == FileNames \X Contents

SoundWrites == {w \in AllWrites : Sound(w[1], w[2])}

SoundFiles(f) == IsFiles(f) /\ \A n \in FileNames : <<n, f[n]>> \in SoundWrites

LocalInv ==
    /\ SoundFiles(files) /\ todo \in Seq(SoundWrites)
    /\ head \in Commits /\ used \in 0 .. MaxTools /\ downloaded \in BOOLEAN
    /\ ~downloaded => Along(files, todo)

IInv == CIInv /\ BundlesInv /\ LocalInv

-----------------------------------------------------------------------------
(* What a sequence of writes does.                                          *)

\* i is the last of the writes to file n.
LastOf(writes, n, i) ==
    /\ i \in DOMAIN writes /\ writes[i][1] = n
    /\ \A k \in DOMAIN writes : writes[k][1] = n => k <= i

LEMMA LastExists ==
  ASSUME NEW S, NEW writes \in Seq(S), NEW n, NEW j \in DOMAIN writes, writes[j][1] = n
  PROVE  \E i : LastOf(writes, n, i)
<1> DEFINE len == Len(writes)
           T == {len - i : i \in {k \in DOMAIN writes : writes[k][1] = n}}
<1>1. len \in Nat /\ DOMAIN writes = 1 .. len
  BY LenProperties
<1>2. T \subseteq Nat /\ len - j \in T
  BY <1>1
<1> DEFINE less == {ss \in Nat \X Nat : ss[1] < ss[2]}
<1>3. IsWellFoundedOn(less, Nat)
  BY NatLessThanWellFounded DEF OpToRel
<1>4. \E x \in T : \A y \in T : ~ (<<y, x>> \in less)
  <2> HIDE DEF T, less
  <2> QED
    BY <1>2, <1>3, WFMin
<1>5. PICK x \in T : \A y \in T : x <= y
  <2>1. PICK x \in T : \A y \in T : ~ (<<y, x>> \in less)
    BY <1>4
  <2>2. \A y \in T : x <= y
    <3> SUFFICES ASSUME NEW y \in T PROVE x <= y
      OBVIOUS
    <3>1. <<y, x>> \notin less
      BY <2>1
    <3>2. x \in Nat /\ y \in Nat
      <4> HIDE DEF T
      <4> QED
        BY <1>2
    <3> HIDE DEF T
    <3> QED
      BY <3>1, <3>2
  <2> QED
    BY <2>2
<1>6. PICK i \in DOMAIN writes : writes[i][1] = n /\ x = len - i
  OBVIOUS
<1>7. ASSUME NEW k \in DOMAIN writes, writes[k][1] = n PROVE k <= i
  <2>1. len - k \in T
    BY <1>7
  <2> HIDE DEF T
  <2> QED
    BY <1>1, <1>5, <1>6, <2>1
<1> QED
  BY <1>6, <1>7 DEF LastOf

LEMMA ApplyAt ==
  ASSUME NEW S, NEW writes \in Seq(S), NEW f, NEW n \in FileNames
  PROVE  /\ \A i : LastOf(writes, n, i) => Apply(f, writes)[n] = writes[i][2]
         /\ (\A i \in DOMAIN writes : writes[i][1] # n) => Apply(f, writes)[n] = f[n]
<1> DEFINE at == {i \in DOMAIN writes : writes[i][1] = n}
<1>1. Apply(f, writes)[n] = IF at = {} THEN f[n] ELSE writes[Max(at)][2]
  BY DEF Apply
<1>2. ASSUME NEW i, LastOf(writes, n, i) PROVE Apply(f, writes)[n] = writes[i][2]
  <2>1. i \in at /\ \A k \in at : i >= k
    BY <1>2, LenProperties DEF LastOf
  <2>2. at \subseteq Int
    BY LenProperties
  <2>3. Max(at) = i
    <3> HIDE DEF at
    <3>1. Max(at) \in at /\ \A k \in at : Max(at) >= k
      BY <2>1 DEF Max
    <3>2. PICK m : m = Max(at)
      OBVIOUS
    <3>3. m \in Int /\ i \in Int /\ m >= i /\ i >= m
      BY <2>1, <2>2, <3>1, <3>2
    <3>4. m = i
      BY <3>3
    <3> QED
      BY <3>2, <3>4
  <2> QED
    BY <1>1, <2>1, <2>3
<1> QED
  BY <1>1, <1>2

LEMMA ApplyFiles ==
  \A f, writes : IsFiles(Apply(f, writes))
BY DEF Apply, IsFiles

LEMMA FilesEqual ==
  ASSUME NEW f, NEW g, IsFiles(f), IsFiles(g), \A n \in FileNames : f[n] = g[n]
  PROVE  f = g
BY DEF IsFiles

LEMMA ApplyNothing ==
  ASSUME NEW f, IsFiles(f)
  PROVE  Apply(f, <<>>) = f
BY DEF Apply, IsFiles

LEMMA ApplyOne ==
  ASSUME NEW f, NEW w
  PROVE  Apply(f, <<w>>) = [n \in FileNames |-> IF n = w[1] THEN w[2] ELSE f[n]]
<1> DEFINE g == [n \in FileNames |-> IF n = w[1] THEN w[2] ELSE f[n]]
<1>1. PICK writes : writes = <<w>>
  OBVIOUS
<1>2. writes \in Seq({w}) /\ DOMAIN writes = {1} /\ writes[1] = w
  BY <1>1
<1>3. ASSUME NEW n \in FileNames PROVE Apply(f, writes)[n] = g[n]
  <2>1. CASE n = w[1]
    <3>1. LastOf(writes, n, 1)
      BY <1>2, <2>1 DEF LastOf
    <3>2. Apply(f, writes)[n] = w[2]
      BY <1>2, <3>1, ApplyAt
    <3> QED
      BY <2>1, <3>2
  <2>2. CASE n # w[1]
    <3>1. \A i \in DOMAIN writes : writes[i][1] # n
      BY <1>2, <2>2
    <3>2. Apply(f, writes)[n] = f[n]
      BY <1>2, <3>1, ApplyAt
    <3> QED
      BY <2>2, <3>2
  <2> QED
    BY <2>1, <2>2
<1>4. IsFiles(g)
  BY DEF IsFiles
<1>5. Apply(f, writes) = g
  <2> HIDE DEF g
  <2> QED
    BY <1>3, <1>4, ApplyFiles, FilesEqual
<1> QED
  BY <1>1, <1>5

LEMMA ApplyConcat ==
  ASSUME NEW S, NEW a \in Seq(S), NEW b \in Seq(S), NEW f
  PROVE  Apply(f, a \o b) = Apply(Apply(f, a), b)
<1> DEFINE c == a \o b
<1>1. /\ c \in Seq(S)
      /\ Len(a) \in Nat /\ Len(b) \in Nat
      /\ DOMAIN a = 1 .. Len(a) /\ DOMAIN b = 1 .. Len(b)
      /\ DOMAIN c = 1 .. Len(a) + Len(b)
      /\ \A i \in 1 .. Len(a) : c[i] = a[i]
      /\ \A i \in 1 .. Len(b) : c[Len(a) + i] = b[i]
      /\ \A i \in 1 .. Len(a) + Len(b) : i \in 1 .. Len(a) \/ i - Len(a) \in 1 .. Len(b)
  BY LenProperties, ConcatProperties
<1> HIDE DEF c
<1>2. ASSUME NEW n \in FileNames
      PROVE  Apply(f, c)[n] = Apply(Apply(f, a), b)[n]
  <2>1. CASE \E j \in DOMAIN b : b[j][1] = n
    <3>1. PICK i : LastOf(b, n, i)
      BY <2>1, LastExists
    <3>2. i \in 1 .. Len(b) /\ b[i][1] = n /\ \A k \in 1 .. Len(b) : b[k][1] = n => k <= i
      BY <1>1, <3>1 DEF LastOf
    <3>3. c[Len(a) + i] = b[i] /\ Len(a) + i \in DOMAIN c
      BY <1>1, <3>2
    <3>4. ASSUME NEW k \in DOMAIN c, c[k][1] = n PROVE k <= Len(a) + i
      <4>1. CASE k \in 1 .. Len(a)
        BY <1>1, <3>2, <4>1
      <4>2. CASE k - Len(a) \in 1 .. Len(b)
        <5>1. c[Len(a) + (k - Len(a))] = b[k - Len(a)] /\ Len(a) + (k - Len(a)) = k
          BY <1>1, <4>2
        <5>2. k - Len(a) <= i
          BY <3>2, <3>4, <4>2, <5>1
        <5> QED
          BY <1>1, <3>2, <5>2
      <4> QED
        BY <1>1, <4>1, <4>2
    <3>5. PICK j : j = Len(a) + i
      OBVIOUS
    <3>6. LastOf(c, n, j)
      BY <3>2, <3>3, <3>4, <3>5 DEF LastOf
    <3>7. Apply(f, c)[n] = b[i][2]
      BY <1>1, <3>3, <3>5, <3>6, ApplyAt
    <3>8. Apply(Apply(f, a), b)[n] = b[i][2]
      BY <3>1, ApplyAt
    <3> QED
      BY <3>7, <3>8
  <2>2. CASE \A j \in DOMAIN b : b[j][1] # n
    <3>1. Apply(Apply(f, a), b)[n] = Apply(f, a)[n]
      BY <2>2, ApplyAt
    <3>2. CASE \E j \in DOMAIN a : a[j][1] = n
      <4>1. PICK i : LastOf(a, n, i)
        BY <3>2, LastExists
      <4>2. i \in 1 .. Len(a) /\ a[i][1] = n /\ \A k \in 1 .. Len(a) : a[k][1] = n => k <= i
        BY <1>1, <4>1 DEF LastOf
      <4>3. ASSUME NEW k \in DOMAIN c, c[k][1] = n PROVE k <= i
        <5>1. CASE k \in 1 .. Len(a)
          BY <1>1, <4>2, <4>3, <5>1
        <5>2. CASE k - Len(a) \in 1 .. Len(b)
          <6>1. c[Len(a) + (k - Len(a))] = b[k - Len(a)] /\ Len(a) + (k - Len(a)) = k
            BY <1>1, <5>2
          <6> QED
            BY <1>1, <2>2, <4>3, <5>2, <6>1
        <5> QED
          BY <1>1, <5>1, <5>2
      <4>4. c[i] = a[i] /\ i \in DOMAIN c
        BY <1>1, <4>2
      <4>5. LastOf(c, n, i)
        BY <4>2, <4>3, <4>4 DEF LastOf
      <4>6. Apply(f, c)[n] = a[i][2]
        BY <1>1, <4>4, <4>5, ApplyAt
      <4>7. Apply(f, a)[n] = a[i][2]
        BY <4>1, ApplyAt
      <4> QED
        BY <3>1, <4>6, <4>7
    <3>3. CASE \A j \in DOMAIN a : a[j][1] # n
      <4>1. ASSUME NEW k \in DOMAIN c PROVE c[k][1] # n
        <5>1. CASE k \in 1 .. Len(a)
          BY <1>1, <3>3, <5>1
        <5>2. CASE k - Len(a) \in 1 .. Len(b)
          <6>1. c[Len(a) + (k - Len(a))] = b[k - Len(a)] /\ Len(a) + (k - Len(a)) = k
            BY <1>1, <5>2
          <6> QED
            BY <1>1, <2>2, <5>2, <6>1
        <5> QED
          BY <1>1, <5>1, <5>2
      <4>2. Apply(f, c)[n] = f[n]
        BY <1>1, <4>1, ApplyAt
      <4>3. Apply(f, a)[n] = f[n]
        BY <3>3, ApplyAt
      <4> QED
        BY <3>1, <4>2, <4>3
    <3> QED
      BY <3>2, <3>3
  <2> QED
    BY <2>1, <2>2
<1>3. Apply(f, c) = Apply(Apply(f, a), b)
  BY <1>2, ApplyFiles, FilesEqual
<1> QED
  BY <1>3 DEF c

Erasures == Seq(FileNames \X {None})

LEMMA EraseErases ==
  ASSUME NEW names \in Seq(FileNames)
  PROVE  /\ Erase(names) \in Erasures
         /\ Len(Erase(names)) = Len(names)
         /\ \A i \in 1 .. Len(names) : Erase(names)[i] = <<names[i], None>>
<1>1. Len(names) \in Nat /\ DOMAIN names = 1 .. Len(names)
      /\ \A i \in 1 .. Len(names) : names[i] \in FileNames
  BY LenProperties, ElementOfSeq
<1>2. Erase(names) \in [1 .. Len(names) -> FileNames \X {None}]
  BY <1>1 DEF Erase
<1>3. Erase(names) \in Erasures
  BY <1>1, <1>2, SeqDef DEF Erasures
<1> QED
  BY <1>1, <1>2, <1>3, LenProperties DEF Erase, Erasures

LEMMA ApplyErase ==
  ASSUME NEW f, NEW names \in Seq(FileNames)
  PROVE  Apply(f, Erase(names)) =
            [n \in FileNames |-> IF \E i \in 1 .. Len(names) : names[i] = n THEN None ELSE f[n]]
<1> DEFINE g == [n \in FileNames |->
                    IF \E i \in 1 .. Len(names) : names[i] = n THEN None ELSE f[n]]
<1>1. PICK w \in Erasures : w = Erase(names)
  BY EraseErases
<1>2. DOMAIN w = 1 .. Len(names) /\ \A i \in 1 .. Len(names) : w[i] = <<names[i], None>>
  BY <1>1, EraseErases, LenProperties DEF Erasures
<1>3. ASSUME NEW n \in FileNames PROVE Apply(f, w)[n] = g[n]
  <2>1. CASE \E i \in 1 .. Len(names) : names[i] = n
    <3>1. PICK j \in DOMAIN w : w[j][1] = n
      BY <1>2, <2>1
    <3>2. PICK i : LastOf(w, n, i)
      BY <3>1, LastExists DEF Erasures
    <3>3. Apply(f, w)[n] = w[i][2]
      BY <3>2, ApplyAt DEF Erasures
    <3>4. w[i][2] = None
      BY <1>2, <3>2 DEF LastOf
    <3> QED
      BY <2>1, <3>3, <3>4
  <2>2. CASE ~ \E i \in 1 .. Len(names) : names[i] = n
    <3>1. \A i \in DOMAIN w : w[i][1] # n
      BY <1>2, <2>2
    <3>2. Apply(f, w)[n] = f[n]
      BY <3>1, ApplyAt DEF Erasures
    <3> QED
      BY <2>2, <3>2
  <2> QED
    BY <2>1, <2>2
<1>4. IsFiles(g)
  BY DEF IsFiles
<1>5. Apply(f, w) = g
  <2> HIDE DEF g
  <2> QED
    BY <1>3, <1>4, ApplyFiles, FilesEqual
<1> QED
  BY <1>1, <1>5

-----------------------------------------------------------------------------
(* Files that describe each other, all along a sequence of writes.          *)

LEMMA ErasedDescribe ==
  ASSUME NEW f, NEW g, DescribeEachOther(f), \A n \in FileNames : g[n] \in {f[n], None}
  PROVE  DescribeEachOther(g)
BY DEF DescribeEachOther, Names, FileNames

LEMMA AlongNothing ==
  ASSUME NEW f, IsFiles(f)
  PROVE  Along(f, <<>>) <=> DescribeEachOther(f)
<1>1. Len(<<>>) = 0 /\ SubSeq(<<>>, 1, 0) = <<>>
  BY SubSeqEmpty
<1>2. \A k : k \in 0 .. 0 <=> k = 0
  OBVIOUS
<1>3. Along(f, <<>>) <=> DescribeEachOther(Apply(f, <<>>))
  BY <1>1, <1>2 DEF Along
<1> QED
  BY <1>3, ApplyNothing

LEMMA AlongBegins ==
  ASSUME NEW f, IsFiles(f), NEW S, NEW writes \in Seq(S), Along(f, writes)
  PROVE  DescribeEachOther(f)
<1>1. SubSeq(writes, 1, 0) = <<>> /\ 0 \in 0 .. Len(writes)
  BY SubSeqEmpty, LenProperties
<1>2. DescribeEachOther(Apply(f, SubSeq(writes, 1, 0)))
  BY <1>1 DEF Along
<1> QED
  BY <1>1, <1>2, ApplyNothing

LEMMA AlongOne ==
  ASSUME NEW f, IsFiles(f), NEW w, DescribeEachOther(f), DescribeEachOther(Apply(f, <<w>>))
  PROVE  Along(f, <<w>>)
<1>1. PICK writes : writes = <<w>>
  OBVIOUS
<1>2. writes \in Seq({w}) /\ Len(writes) = 1
  BY <1>1
<1>3. SubSeq(writes, 1, 0) = <<>> /\ SubSeq(writes, 1, Len(writes)) = writes
  BY <1>2, SubSeqEmpty, SubSeqFull
<1>4. \A k \in 0 .. Len(writes) : k = 0 \/ k = Len(writes)
  BY <1>2
<1>5. Along(f, writes)
  BY <1>1, <1>3, <1>4, ApplyNothing DEF Along
<1> QED
  BY <1>1, <1>5

LEMMA AlongConcat ==
  ASSUME NEW f, NEW S, NEW a \in Seq(S), NEW b \in Seq(S),
         Along(f, a), Along(Apply(f, a), b)
  PROVE  Along(f, a \o b)
<1> DEFINE c == a \o b
<1>1. /\ c \in Seq(S) /\ Len(c) = Len(a) + Len(b)
      /\ Len(a) \in Nat /\ Len(b) \in Nat
      /\ \A i \in 1 .. Len(a) : c[i] = a[i] /\ a[i] \in S
      /\ \A i \in 1 .. Len(b) : c[Len(a) + i] = b[i] /\ b[i] \in S
      /\ \A i \in 1 .. Len(c) : c[i] \in S
  BY LenProperties, ConcatProperties, ElementOfSeq
<1> HIDE DEF c
<1>2. ASSUME NEW k \in 0 .. Len(a)
      PROVE  SubSeq(c, 1, k) = SubSeq(a, 1, k)
  <2>1. /\ SubSeq(c, 1, k) \in Seq(S) /\ Len(SubSeq(c, 1, k)) = k
        /\ \A i \in 1 .. k : SubSeq(c, 1, k)[i] = c[i]
    BY <1>1, SubSeqProperties
  <2>2. /\ SubSeq(a, 1, k) \in Seq(S) /\ Len(SubSeq(a, 1, k)) = k
        /\ \A i \in 1 .. k : SubSeq(a, 1, k)[i] = a[i]
    BY <1>1, SubSeqProperties
  <2> QED
    BY <1>1, <2>1, <2>2, SeqEqual
<1>3. ASSUME NEW k \in 0 .. Len(b)
      PROVE  SubSeq(c, 1, Len(a) + k) = a \o SubSeq(b, 1, k)
  <2>1. /\ SubSeq(c, 1, Len(a) + k) \in Seq(S) /\ Len(SubSeq(c, 1, Len(a) + k)) = Len(a) + k
        /\ \A i \in 1 .. Len(a) + k : SubSeq(c, 1, Len(a) + k)[i] = c[i]
    BY <1>1, SubSeqProperties
  <2>2. PICK d : d = SubSeq(b, 1, k)
    OBVIOUS
  <2>3. d \in Seq(S) /\ Len(d) = k /\ \A i \in 1 .. k : d[i] = b[i]
    BY <1>1, <2>2, SubSeqProperties
  <2>4. /\ a \o d \in Seq(S) /\ Len(a \o d) = Len(a) + k
        /\ \A i \in 1 .. Len(a) + k : (a \o d)[i] = IF i <= Len(a) THEN a[i] ELSE d[i - Len(a)]
    BY <2>3, ConcatProperties
  <2>5. ASSUME NEW i \in 1 .. Len(a) + k
        PROVE  c[i] = IF i <= Len(a) THEN a[i] ELSE d[i - Len(a)]
    <3>1. CASE i <= Len(a)
      BY <1>1, <3>1
    <3>2. CASE i > Len(a)
      <4>1. i - Len(a) \in 1 .. Len(b) /\ i - Len(a) \in 1 .. k /\ Len(a) + (i - Len(a)) = i
        BY <1>1, <3>2
      <4> QED
        BY <1>1, <2>3, <3>2, <4>1, SMTT(20)
    <3> QED
      BY <1>1, <3>1, <3>2
  <2> QED
    BY <2>1, <2>2, <2>4, <2>5, SeqEqual, ZenonT(20)
<1>4. ASSUME NEW k \in 0 .. Len(c)
      PROVE  DescribeEachOther(Apply(f, SubSeq(c, 1, k)))
  <2>1. CASE k \in 0 .. Len(a)
    BY <1>2, <2>1 DEF Along
  <2>2. CASE k > Len(a)
    <3>1. PICK m \in 0 .. Len(b) : k = Len(a) + m
      <4>1. k - Len(a) \in 0 .. Len(b) /\ k = Len(a) + (k - Len(a))
        BY <1>1, <2>2
      <4> QED
        BY <4>1
    <3>2. PICK d \in Seq(S) : d = SubSeq(b, 1, m)
      <4>1. \A i \in 1 .. m : b[i] \in S
        BY <1>1, ElementOfSeq
      <4>2. 1 \in Int /\ m \in Int
        BY <1>1
      <4>3. SubSeq(b, 1, m) \in Seq(S)
        BY <4>1, <4>2, SubSeqProperties
      <4> QED
        BY <4>3
    <3>3. SubSeq(c, 1, k) = a \o d
      BY <1>3, <3>1, <3>2
    <3>4. Apply(f, SubSeq(c, 1, k)) = Apply(Apply(f, a), d)
      BY <3>3, ApplyConcat
    <3>5. DescribeEachOther(Apply(Apply(f, a), d))
      BY <3>2 DEF Along
    <3> QED
      BY <3>4, <3>5
  <2> QED
    BY <1>1, <2>1, <2>2
<1>5. Along(f, c)
  BY <1>4 DEF Along
<1> QED
  BY <1>5 DEF c

LEMMA AlongErasures ==
  ASSUME NEW f, IsFiles(f), DescribeEachOther(f), NEW writes \in Erasures
  PROVE  Along(f, writes)
<1>1. ASSUME NEW w \in Erasures PROVE DescribeEachOther(Apply(f, w))
  <2>1. ASSUME NEW n \in FileNames PROVE Apply(f, w)[n] \in {f[n], None}
    <3>1. CASE \E j \in DOMAIN w : w[j][1] = n
      <4>1. PICK i : LastOf(w, n, i)
        BY <3>1, LastExists DEF Erasures
      <4>2. i \in 1 .. Len(w)
        BY <4>1, LenProperties DEF LastOf, Erasures
      <4>3. w[i] \in FileNames \X {None}
        BY <4>2, ElementOfSeq DEF Erasures
      <4> QED
        BY <4>1, <4>3, ApplyAt DEF Erasures
    <3>2. CASE \A j \in DOMAIN w : w[j][1] # n
      BY <3>2, ApplyAt DEF Erasures
    <3> QED
      BY <3>1, <3>2
  <2> QED
    BY <2>1, ErasedDescribe
<1>2. ASSUME NEW k \in 0 .. Len(writes) PROVE SubSeq(writes, 1, k) \in Erasures
  <2>1. \A i \in 1 .. k : writes[i] \in FileNames \X {None}
    BY LenProperties, ElementOfSeq DEF Erasures
  <2> QED
    BY <2>1, SubSeqProperties, LenProperties DEF Erasures
<1> QED
  BY <1>1, <1>2 DEF Along

LEMMA AlongWrite ==
  ASSUME NEW f, NEW S, NEW writes \in Seq(S), writes # <<>>, Along(f, writes)
  PROVE  Along(Apply(f, <<Head(writes)>>), Tail(writes))
<1>1. /\ Head(writes) \in S /\ Tail(writes) \in Seq(S) /\ Len(Tail(writes)) = Len(writes) - 1
      /\ Len(writes) \in Nat \ {0} /\ Head(writes) = writes[1]
  BY HeadTailProperties, EmptySeq
<1>2. ASSUME NEW k \in 0 .. Len(Tail(writes))
      PROVE  DescribeEachOther(Apply(Apply(f, <<Head(writes)>>), SubSeq(Tail(writes), 1, k)))
  <2>1. SubSeq(writes, 1, k + 1) = <<writes[1]>> \o SubSeq(writes, 2, k + 1)
    <3>1. 1 \in 1 .. Len(writes) /\ k + 1 \in 1 .. Len(writes)
      BY <1>1
    <3> QED
      BY <3>1, SubSeqRecursiveFirst
  <2>2. SubSeq(Tail(writes), 1, k) = SubSeq(writes, 2, k + 1)
    <3>1. /\ \A i \in 1 .. Len(Tail(writes)) : Tail(writes)[i] = writes[i + 1] /\ writes[i + 1] \in S
      BY <1>1, HeadTailProperties, ElementOfSeq
    <3>2. \A i \in 2 .. k + 1 : writes[i] \in S
      BY <1>1, ElementOfSeq
    <3>3. \A i \in 1 .. k : Tail(writes)[i] \in S
      BY <3>1
    <3>4. /\ SubSeq(writes, 2, k + 1) \in Seq(S) /\ Len(SubSeq(writes, 2, k + 1)) = k
          /\ \A i \in 1 .. k : SubSeq(writes, 2, k + 1)[i] = writes[i + 1]
      BY <1>1, <3>2, SubSeqProperties
    <3>5. /\ SubSeq(Tail(writes), 1, k) \in Seq(S) /\ Len(SubSeq(Tail(writes), 1, k)) = k
          /\ \A i \in 1 .. k : SubSeq(Tail(writes), 1, k)[i] = Tail(writes)[i]
      BY <1>1, <3>3, SubSeqProperties
    <3> QED
      BY <1>1, <3>1, <3>4, <3>5, SeqEqual
  <2>3. <<writes[1]>> \in Seq(S) /\ SubSeq(Tail(writes), 1, k) \in Seq(S)
    <3>1. \A i \in 1 .. k : Tail(writes)[i] \in S
      BY <1>1, ElementOfSeq
    <3> QED
      BY <1>1, <3>1, SubSeqProperties
  <2>4. Apply(f, SubSeq(writes, 1, k + 1))
        = Apply(Apply(f, <<Head(writes)>>), SubSeq(Tail(writes), 1, k))
    <3>1. PICK h \in Seq(S), t \in Seq(S) : h = <<writes[1]>> /\ t = SubSeq(Tail(writes), 1, k)
      BY <2>3
    <3>2. SubSeq(writes, 1, k + 1) = h \o t
      BY <2>1, <2>2, <3>1
    <3>3. Apply(f, h \o t) = Apply(Apply(f, h), t)
      BY ApplyConcat
    <3> QED
      BY <1>1, <3>1, <3>2, <3>3
  <2>5. k + 1 \in 0 .. Len(writes)
    BY <1>1
  <2> QED
    BY <2>4, <2>5 DEF Along
<1> QED
  BY <1>2 DEF Along

-----------------------------------------------------------------------------
(* What the tools write, in the workspace of a CI run.                      *)

LEMMA Assumed ==
  /\ Commit \in [Runs -> Commits] /\ Cases \in Nat /\ Tolerated \in [Commits -> 0 .. Cases]
  /\ MaxTools \in Nat
  /\ None \notin Raws /\ None \notin Summaries /\ None \notin Bundles
  /\ None \notin Envelopes /\ None \notin Reports
BY RunAssumption, ThresholdAssumption, BoundAssumption, NoneAssumption

LEMMA OwnTypes ==
  ASSUME NEW r \in Runs, NEW x \in Own(r)
  PROVE  /\ x \in Raws /\ x.run = r /\ x.unsafe \in Int
         /\ SummaryOf(r, x) \in Summaries /\ BundleOf(r, x) \in Bundles
         /\ EnvelopeOf(r, x) \in Envelopes /\ ReportOf(r, x) \in Reports
         /\ Commit[r] \in Commits /\ Tolerated[Commit[r]] \in Int
<1>1. x \in Raws /\ x.run = r /\ x.unsafe \in Int
  BY DEF Own, Raws
<1>2. Commit[r] \in Commits /\ Tolerated[Commit[r]] \in Int
  BY Assumed
<1>3. SummaryOf(r, x) \in Summaries
  BY <1>1, <1>2 DEF SummaryOf, Summaries
<1>4. BundleOf(r, x) \in Bundles
  BY <1>2, <1>3 DEF BundleOf, Bundles
<1>5. EnvelopeOf(r, x) \in Envelopes
  BY <1>1, <1>2, <1>3, <1>4 DEF EnvelopeOf, Envelopes
<1>6. ReportOf(r, x) \in Reports
  BY <1>3, <1>5 DEF ReportOf, Reports, Maybe
<1> QED
  BY <1>1, <1>2, <1>3, <1>4, <1>5, <1>6

LEMMA PassingOwn == \A r : \A x : x \in Passing(r) => x \in Own(r)
BY DEF Passing

LEMMA Lookups ==
  ASSUME NEW r, NEW x
  PROVE  /\ IsFiles(NoFiles) /\ \A n \in FileNames : NoFiles[n] = None
         /\ IsFiles(Produced(x))
         /\ \A n \in FileNames : Produced(x)[n] = IF n \in {"raw", "manifest"} THEN x ELSE None
         /\ IsFiles(Measured(r, x))
         /\ \A n \in FileNames : Measured(r, x)[n] =
               IF n = "summary" THEN SummaryOf(r, x) ELSE Produced(x)[n]
         /\ IsFiles(Enveloped(r, x))
         /\ \A n \in FileNames : Enveloped(r, x)[n] =
               IF n = "bundle" THEN BundleOf(r, x) ELSE
               IF n = "envelope" THEN EnvelopeOf(r, x) ELSE Measured(r, x)[n]
         /\ IsFiles(Verified(r, x))
         /\ \A n \in FileNames : Verified(r, x)[n] =
               IF n = "report" THEN ReportOf(r, x) ELSE Enveloped(r, x)[n]
<1>1. IsFiles(NoFiles) /\ \A n \in FileNames : NoFiles[n] = None
  BY DEF NoFiles, IsFiles
<1>2. /\ IsFiles(Produced(x)) /\ DOMAIN Produced(x) = FileNames
      /\ \A n \in FileNames : Produced(x)[n] = IF n \in {"raw", "manifest"} THEN x ELSE None
  BY DEF Produced, IsFiles
<1>3. /\ IsFiles(Measured(r, x)) /\ DOMAIN Measured(r, x) = FileNames
      /\ \A n \in FileNames : Measured(r, x)[n] =
            IF n = "summary" THEN SummaryOf(r, x) ELSE Produced(x)[n]
  BY <1>2 DEF Measured, IsFiles
<1>4. /\ IsFiles(Enveloped(r, x)) /\ DOMAIN Enveloped(r, x) = FileNames
      /\ \A n \in FileNames : Enveloped(r, x)[n] =
            IF n = "bundle" THEN BundleOf(r, x) ELSE
            IF n = "envelope" THEN EnvelopeOf(r, x) ELSE Measured(r, x)[n]
  BY <1>3 DEF Enveloped, IsFiles
<1>5. /\ IsFiles(Verified(r, x))
      /\ \A n \in FileNames : Verified(r, x)[n] =
            IF n = "report" THEN ReportOf(r, x) ELSE Enveloped(r, x)[n]
  BY <1>4 DEF Verified, IsFiles
<1> QED
  BY <1>1, <1>2, <1>3, <1>4, <1>5

LEMMA StaleFiles ==
  /\ StaleOfProducer \in Seq(FileNames) /\ StaleOfAdapter \in Seq(FileNames)
  /\ StaleOfEnvelope \in Seq(FileNames)
  /\ \A n \in FileNames :
        /\ \E i \in 1 .. Len(StaleOfProducer) : StaleOfProducer[i] = n
        /\ (\E i \in 1 .. Len(StaleOfAdapter) : StaleOfAdapter[i] = n)
              <=> n \notin {"raw", "manifest"}
        /\ (\E i \in 1 .. Len(StaleOfEnvelope) : StaleOfEnvelope[i] = n)
              <=> n \notin {"raw", "manifest", "summary"}
<1>1. /\ StaleOfProducer \in Seq(FileNames) /\ StaleOfAdapter \in Seq(FileNames)
      /\ StaleOfEnvelope \in Seq(FileNames)
  BY DEF StaleOfProducer, StaleOfAdapter, StaleOfEnvelope, FileNames
<1>2. ASSUME NEW n \in FileNames
      PROVE  \E i \in 1 .. Len(StaleOfProducer) : StaleOfProducer[i] = n
  <2>1. Len(StaleOfProducer) = 6
    BY DEF StaleOfProducer
  <2>2. /\ StaleOfProducer[1] = "raw" /\ StaleOfProducer[2] = "manifest"
        /\ StaleOfProducer[3] = "summary" /\ StaleOfProducer[4] = "envelope"
        /\ StaleOfProducer[5] = "bundle" /\ StaleOfProducer[6] = "report"
    BY DEF StaleOfProducer
  <2>3. /\ 1 \in 1 .. 6 /\ 2 \in 1 .. 6 /\ 3 \in 1 .. 6
        /\ 4 \in 1 .. 6 /\ 5 \in 1 .. 6 /\ 6 \in 1 .. 6
    OBVIOUS
  <2> QED
    BY <2>1, <2>2, <2>3 DEF FileNames
<1>3. ASSUME NEW n \in FileNames
      PROVE  (\E i \in 1 .. Len(StaleOfAdapter) : StaleOfAdapter[i] = n)
                <=> n \notin {"raw", "manifest"}
  <2>1. Len(StaleOfAdapter) = 4
    BY DEF StaleOfAdapter
  <2>2. /\ StaleOfAdapter[1] = "summary" /\ StaleOfAdapter[2] = "envelope"
        /\ StaleOfAdapter[3] = "bundle" /\ StaleOfAdapter[4] = "report"
    BY DEF StaleOfAdapter
  <2>3. \A i : i \in 1 .. 4 <=> i \in {1, 2, 3, 4}
    OBVIOUS
  <2> QED
    BY <2>1, <2>2, <2>3 DEF FileNames
<1>4. ASSUME NEW n \in FileNames
      PROVE  (\E i \in 1 .. Len(StaleOfEnvelope) : StaleOfEnvelope[i] = n)
                <=> n \notin {"raw", "manifest", "summary"}
  <2>1. Len(StaleOfEnvelope) = 3
    BY DEF StaleOfEnvelope
  <2>2. /\ StaleOfEnvelope[1] = "bundle" /\ StaleOfEnvelope[2] = "envelope"
        /\ StaleOfEnvelope[3] = "report"
    BY DEF StaleOfEnvelope
  <2>3. \A i : i \in 1 .. 3 <=> i \in {1, 2, 3}
    OBVIOUS
  <2> QED
    BY <2>1, <2>2, <2>3 DEF FileNames
<1> QED
  BY <1>1, <1>2, <1>3, <1>4

\* What is left when each tool has cleared its stale files.
LEMMA Cleared ==
  ASSUME NEW f
  PROVE  /\ Apply(f, Erase(StaleOfProducer)) = NoFiles
         /\ Apply(f, Erase(StaleOfAdapter)) =
               [n \in FileNames |-> IF n \in {"raw", "manifest"} THEN f[n] ELSE None]
         /\ Apply(f, Erase(StaleOfEnvelope)) =
               [n \in FileNames |-> IF n \in {"raw", "manifest", "summary"} THEN f[n] ELSE None]
<1>1. Apply(f, Erase(StaleOfProducer)) = NoFiles
  BY ApplyErase, StaleFiles DEF NoFiles
<1>2. Apply(f, Erase(StaleOfAdapter)) =
         [n \in FileNames |-> IF n \in {"raw", "manifest"} THEN f[n] ELSE None]
  BY ApplyErase, StaleFiles
<1>3. Apply(f, Erase(StaleOfEnvelope)) =
         [n \in FileNames |-> IF n \in {"raw", "manifest", "summary"} THEN f[n] ELSE None]
  BY ApplyErase, StaleFiles
<1> QED
  BY <1>1, <1>2, <1>3

LEMMA ClearedThenWritten ==
  ASSUME NEW f, NEW names \in Seq(FileNames), NEW S, NEW rest \in Seq(S)
  PROVE  Apply(f, Erase(names) \o rest) = Apply(Apply(f, Erase(names)), rest)
<1>1. PICK T : T = (FileNames \X {None}) \cup S
  OBVIOUS
<1>2. Erase(names) \in Seq(T)
  BY <1>1, EraseErases, SeqMonotonic DEF Erasures
<1>3. rest \in Seq(T)
  BY <1>1, SeqMonotonic
<1> QED
  BY <1>2, <1>3, ApplyConcat

LEMMA TwoWrites ==
  ASSUME NEW f, NEW v, NEW w
  PROVE  Apply(f, <<v, w>>) = Apply(Apply(f, <<v>>), <<w>>)
<1>1. PICK a, b, c : a = <<v>> /\ b = <<w>> /\ c = <<v, w>>
  OBVIOUS
<1>2. /\ a \in Seq({v, w}) /\ Len(a) = 1 /\ a[1] = v
      /\ b \in Seq({v, w}) /\ Len(b) = 1 /\ b[1] = w
      /\ c \in Seq({v, w}) /\ Len(c) = 2 /\ c[1] = v /\ c[2] = w
  BY <1>1
<1>3. c = a \o b
  <2>1. PICK d : d = a \o b
    OBVIOUS
  <2>2. d \in Seq({v, w}) /\ Len(d) = 2 /\ d[1] = v /\ d[2] = w
    BY <1>2, <2>1, ConcatProperties
  <2>3. \A i \in 1 .. Len(c) : c[i] = d[i]
    <3>1. \A i \in 1 .. 2 : i = 1 \/ i = 2
      OBVIOUS
    <3> QED
      BY <1>2, <2>2, <3>1
  <2> QED
    BY <1>2, <2>1, <2>2, <2>3, SeqEqual
<1>4. Apply(f, c) = Apply(Apply(f, a), b)
  BY <1>2, <1>3, ApplyConcat
<1> QED
  BY <1>1, <1>4

LEMMA ProducedByCI ==
  ASSUME NEW r \in Runs, NEW unsafe \in 0 .. Cases
  PROVE  \E x \in Own(r) :
            Apply(NoFiles, ProducerWrites(r, Commit[r], unsafe, "none")) = Produced(x)
<1> DEFINE x == Classifications(r, unsafe)
           v == <<"raw", x>>
           w == <<"manifest", x>>
<1>1. x \in Own(r)
  BY DEF Classifications, Own
<1>2. ProducerWrites(r, Commit[r], unsafe, "none") = Erase(StaleOfProducer) \o <<v, w>>
  BY DEF ProducerWrites
<1>3. <<v, w>> \in Seq({v, w})
  OBVIOUS
<1> HIDE DEF x
<1>4. Apply(NoFiles, ProducerWrites(r, Commit[r], unsafe, "none"))
      = Apply(Apply(NoFiles, <<v>>), <<w>>)
  <2>1. Apply(NoFiles, Erase(StaleOfProducer) \o <<v, w>>)
        = Apply(Apply(NoFiles, Erase(StaleOfProducer)), <<v, w>>)
    <3>0. PICK S : <<v, w>> \in Seq(S)
      BY <1>3
    <3>1. PICK rest \in Seq(S) : rest = <<v, w>>
      BY <3>0
    <3> HIDE DEF v, w
    <3>2. Apply(NoFiles, Erase(StaleOfProducer) \o rest)
          = Apply(Apply(NoFiles, Erase(StaleOfProducer)), rest)
      <4>1. StaleOfProducer \in Seq(FileNames)
        BY StaleFiles
      <4> QED
        BY <4>1, ClearedThenWritten
    <3> QED
      BY <3>1, <3>2
  <2>2. Apply(NoFiles, <<v, w>>) = Apply(Apply(NoFiles, <<v>>), <<w>>)
    BY TwoWrites
  <2> HIDE DEF v, w
  <2> QED
    BY <1>2, <2>1, <2>2, Cleared
<1>5. Apply(NoFiles, <<v>>) = [n \in FileNames |-> IF n = "raw" THEN x ELSE NoFiles[n]]
  BY ApplyOne
<1>6. Apply(Apply(NoFiles, <<v>>), <<w>>)
      = [n \in FileNames |-> IF n = "manifest" THEN x ELSE Apply(NoFiles, <<v>>)[n]]
  BY ApplyOne
<1>7. Apply(Apply(NoFiles, <<v>>), <<w>>) = Produced(x)
  <2>1. PICK g : g = Apply(NoFiles, <<v>>)
    OBVIOUS
  <2> HIDE DEF v, w
  <2> QED
    BY <1>5, <1>6, <2>1 DEF Produced, NoFiles
<1> QED
  BY <1>1, <1>4, <1>7

LEMMA MeasuredByCI ==
  ASSUME NEW r \in Runs, NEW x \in Own(r)
  PROVE  /\ Apply(Produced(x), AdapterWrites(Produced(x), r, Commit[r])) = Measured(r, x)
         /\ AdapterSucceeds(Measured(r, x)) <=> x \in Passing(r)
<1> DEFINE f == Produced(x)
           w == <<"summary", SummaryOf(r, x)>>
<1>1. /\ x # None /\ x \in Own(r) /\ SummaryOf(r, x) # None
      /\ f["raw"] = x /\ f["manifest"] = x /\ Measured(r, x)["summary"] = SummaryOf(r, x)
      /\ \A n \in FileNames : f[n] = IF n \in {"raw", "manifest"} THEN x ELSE None
  BY OwnTypes, Assumed, Lookups DEF FileNames
<1>2. AdapterWrites(f, r, Commit[r]) = Erase(StaleOfAdapter) \o <<w>>
  <2>1. Present(f, {"raw", "manifest"}) /\ Summary(f, r, Commit[r]) = SummaryOf(r, x)
    BY <1>1 DEF Present, Summary, SummaryOf
  <2> QED
    BY <2>1 DEF AdapterWrites
<1>3. Apply(f, Erase(StaleOfAdapter) \o <<w>>) = Apply(Apply(f, Erase(StaleOfAdapter)), <<w>>)
  <2>1. <<w>> \in Seq({w})
    OBVIOUS
  <2>0. PICK S : <<w>> \in Seq(S)
    BY <2>1
  <2>2. PICK rest \in Seq(S) : rest = <<w>>
    BY <2>0
  <2> HIDE DEF f, w
  <2>3. Apply(f, Erase(StaleOfAdapter) \o rest) = Apply(Apply(f, Erase(StaleOfAdapter)), rest)
    <3>1. StaleOfAdapter \in Seq(FileNames)
      BY StaleFiles
    <3> QED
      BY <3>1, ClearedThenWritten
  <2> QED
    BY <2>2, <2>3
<1>4. PICK g : g = Apply(f, Erase(StaleOfAdapter))
  OBVIOUS
<1>5. \A n \in FileNames : g[n] = f[n]
  <2>1. g = [n \in FileNames |-> IF n \in {"raw", "manifest"} THEN f[n] ELSE None]
    BY <1>4, Cleared
  <2> HIDE DEF f
  <2> QED
    BY <1>1, <2>1
<1>6. Apply(g, <<w>>) = [n \in FileNames |-> IF n = "summary" THEN SummaryOf(r, x) ELSE g[n]]
  BY ApplyOne
<1>7. \A n \in FileNames : Apply(g, <<w>>)[n] = Measured(r, x)[n]
  <2> HIDE DEF w
  <2> QED
    BY <1>5, <1>6, Lookups
<1>8. Apply(g, <<w>>) = Measured(r, x)
  <2> HIDE DEF w
  <2> QED
    BY <1>7, ApplyFiles, FilesEqual, Lookups
<1>9. AdapterSucceeds(Measured(r, x)) <=> x \in Passing(r)
  <2>1. AdapterSucceeds(Measured(r, x)) <=> Passed(SummaryOf(r, x))
    BY <1>1 DEF AdapterSucceeds
  <2> QED
    BY <2>1 DEF Passed, SummaryOf, Passing
<1> QED
  BY <1>2, <1>3, <1>4, <1>8, <1>9

LEMMA EnvelopedByCI ==
  ASSUME NEW r \in Runs, NEW x \in Passing(r)
  PROVE  LET bundle == [subject |-> Measured(r, x)["summary"], commit |-> Commit[r]]
             result == Apply(Measured(r, x),
                             EnvelopeWrites(Measured(r, x), r, Commit[r], bundle, "none"))
         IN  bundle = BundleOf(r, x) /\ result = Enveloped(r, x) /\ result["envelope"] # None
<1> DEFINE f == Measured(r, x)
           b == BundleOf(r, x)
           v == <<"bundle", b>>
           w == <<"envelope", EnvelopeOf(r, x)>>
<1>1. /\ x # None /\ x \in Own(r) /\ SummaryOf(r, x) # None /\ EnvelopeOf(r, x) # None
      /\ f["raw"] = x /\ f["manifest"] = x /\ f["summary"] = SummaryOf(r, x)
      /\ f["bundle"] = None /\ f["envelope"] = None /\ f["report"] = None
      /\ Enveloped(r, x)["envelope"] = EnvelopeOf(r, x)
  BY PassingOwn, OwnTypes, Assumed, Lookups DEF FileNames
<1>2. [subject |-> f["summary"], commit |-> Commit[r]] = b
  BY <1>1 DEF BundleOf
<1>3. SummaryFitsEnvelope(f, r, Commit[r])
  <2>1. Present(f, {"raw", "manifest", "summary"})
    BY <1>1 DEF Present
  <2>2. /\ SummaryOf(r, x).commit = Commit[r] /\ SummaryOf(r, x).checkout = Commit[r]
        /\ SummaryOf(r, x).raw = x
    BY DEF SummaryOf
  <2>3. Passed(SummaryOf(r, x))
    BY <2>2 DEF Passed, Passing
  <2> HIDE DEF f
  <2> QED
    BY <1>1, <2>1, <2>2, <2>3 DEF SummaryFitsEnvelope
<1>4. EnvelopeWrites(f, r, Commit[r], b, "none") = Erase(StaleOfEnvelope) \o <<v, w>>
  <2>1. Envelope(f, r, b) = EnvelopeOf(r, x)
    BY <1>1 DEF Envelope, EnvelopeOf
  <2> HIDE DEF f, b
  <2> QED
    BY <1>3, <2>1 DEF EnvelopeWrites
<1>5. Apply(f, Erase(StaleOfEnvelope) \o <<v, w>>)
      = Apply(Apply(Apply(f, Erase(StaleOfEnvelope)), <<v>>), <<w>>)
  <2>1. <<v, w>> \in Seq({v, w})
    OBVIOUS
  <2>0. PICK S : <<v, w>> \in Seq(S)
    BY <2>1
  <2>2. PICK rest \in Seq(S) : rest = <<v, w>>
    BY <2>0
  <2> HIDE DEF f, v, w
  <2>3. Apply(f, Erase(StaleOfEnvelope) \o rest) = Apply(Apply(f, Erase(StaleOfEnvelope)), rest)
    <3>1. StaleOfEnvelope \in Seq(FileNames)
      BY StaleFiles
    <3> QED
      BY <3>1, ClearedThenWritten
  <2> QED
    BY <2>2, <2>3, TwoWrites
<1>6. PICK g : g = Apply(f, Erase(StaleOfEnvelope))
  OBVIOUS
<1>7. \A n \in FileNames : g[n] = f[n]
  <2>1. g = [n \in FileNames |-> IF n \in {"raw", "manifest", "summary"} THEN f[n] ELSE None]
    BY <1>6, Cleared
  <2> HIDE DEF f
  <2> QED
    BY <1>1, <2>1 DEF FileNames
<1>8. PICK h : h = Apply(g, <<v>>)
  OBVIOUS
<1>9. h = [n \in FileNames |-> IF n = "bundle" THEN b ELSE g[n]]
  BY <1>8, ApplyOne
<1>10. Apply(h, <<w>>) = [n \in FileNames |-> IF n = "envelope" THEN EnvelopeOf(r, x) ELSE h[n]]
  BY ApplyOne
<1>11. Apply(h, <<w>>) = Enveloped(r, x)
  <2> HIDE DEF w
  <2>1. \A n \in FileNames : Apply(h, <<w>>)[n] = Enveloped(r, x)[n]
    BY <1>7, <1>9, <1>10, Lookups
  <2> QED
    BY <2>1, ApplyFiles, FilesEqual, Lookups
<1>12. Apply(f, EnvelopeWrites(f, r, Commit[r], b, "none")) = Enveloped(r, x)
  <2> HIDE DEF f, b, v, w
  <2> QED
    BY <1>4, <1>5, <1>6, <1>8, <1>11
<1> QED
  BY <1>1, <1>2, <1>12

LEMMA VerifiedByCI ==
  ASSUME NEW r \in Runs, NEW x \in Passing(r)
  PROVE  LET result == Apply(Enveloped(r, x), VerifierWrites(Enveloped(r, x), r, TRUE))
         IN  result = Verified(r, x) /\ result["report"].verified
<1> DEFINE f == Enveloped(r, x)
           w == <<"report", ReportOf(r, x)>>
<1>1. /\ SummaryOf(r, x) # None /\ EnvelopeOf(r, x) # None /\ BundleOf(r, x) # None
      /\ f["summary"] = SummaryOf(r, x) /\ f["envelope"] = EnvelopeOf(r, x)
      /\ f["bundle"] = BundleOf(r, x) /\ Verified(r, x)["report"] = ReportOf(r, x)
  BY PassingOwn, OwnTypes, Assumed, Lookups DEF FileNames
<1>2. VerifierAccepts(f, Commit[r])
  <2>1. Present(f, {"summary", "envelope", "bundle"}) /\ Present(f, {"summary", "envelope"})
    BY <1>1 DEF Present
  <2>2. EnvelopeWraps(f)
    BY <1>1 DEF EnvelopeWraps, EnvelopeOf
  <2>3. Attests(f["bundle"], f["summary"], Commit[r])
    BY <1>1 DEF Attests, BundleOf
  <2> QED
    BY <2>1, <2>2, <2>3 DEF VerifierAccepts
<1>3. VerifierWrites(f, r, TRUE) = <<w>>
  <2>1. Present(f, {"summary", "envelope"})
    BY <1>1 DEF Present
  <2> HIDE DEF f
  <2>2. [verified |-> VerifierAccepts(f, Commit[r]) /\ TRUE,
         summary |-> f["summary"], envelope |-> f["envelope"]] = ReportOf(r, x)
    BY <1>1, <1>2 DEF ReportOf
  <2> QED
    BY <2>1, <2>2 DEF VerifierWrites
<1>4. Apply(f, <<w>>) = [n \in FileNames |-> IF n = "report" THEN ReportOf(r, x) ELSE f[n]]
  BY ApplyOne
<1>5. Apply(f, <<w>>) = Verified(r, x)
  <2> HIDE DEF w
  <2>1. \A n \in FileNames : Apply(f, <<w>>)[n] = Verified(r, x)[n]
    BY <1>4, Lookups
  <2> QED
    BY <2>1, ApplyFiles, FilesEqual, Lookups
<1>6. ReportOf(r, x).verified
  BY DEF ReportOf
<1> QED
  BY <1>1, <1>3, <1>5, <1>6

\* No step of a CI run refuses what the step before it left.
LEMMA AcceptedByCI ==
  ASSUME NEW r \in Runs, NEW x \in Passing(r)
  PROVE  /\ Present(Measured(r, x), {"raw", "manifest", "summary"})
         /\ Present(Verified(r, x), FileNames)
         /\ Admits(Verified(r, x), r, Commit[r])
<1> DEFINE f == Verified(r, x)
<1>1. /\ x # None /\ SummaryOf(r, x) # None /\ EnvelopeOf(r, x) # None
      /\ BundleOf(r, x) # None /\ ReportOf(r, x) # None
  BY PassingOwn, OwnTypes, Assumed
<1>2. /\ f["raw"] = x /\ f["manifest"] = x /\ f["summary"] = SummaryOf(r, x)
      /\ f["envelope"] = EnvelopeOf(r, x) /\ f["bundle"] = BundleOf(r, x)
      /\ f["report"] = ReportOf(r, x)
      /\ Measured(r, x)["raw"] = x /\ Measured(r, x)["manifest"] = x
      /\ Measured(r, x)["summary"] = SummaryOf(r, x)
  BY Lookups DEF FileNames
<1> HIDE DEF f
<1>3. Present(Measured(r, x), {"raw", "manifest", "summary"}) /\ Present(f, FileNames)
  BY <1>1, <1>2 DEF Present, FileNames
<1>4. /\ SummaryOf(r, x).run = r /\ SummaryOf(r, x).commit = Commit[r]
      /\ SummaryOf(r, x).checkout = Commit[r] /\ SummaryOf(r, x).raw = x
  BY DEF SummaryOf
<1>5. SummaryFitsRun(f, r, Commit[r])
  BY <1>1, <1>2, <1>4
     DEF SummaryFitsRun, Present, SummaryOfRun, SummaryWithin, RawUnchanged, Passed, Passing
<1>6. VerifierAccepts(f, Commit[r])
  <2>1. Present(f, {"summary", "envelope", "bundle"})
    BY <1>1, <1>2 DEF Present
  <2>2. EnvelopeWraps(f)
    BY <1>2 DEF EnvelopeWraps, EnvelopeOf
  <2>3. Attests(f["bundle"], f["summary"], Commit[r])
    BY <1>2 DEF Attests, BundleOf
  <2> QED
    BY <2>1, <2>2, <2>3 DEF VerifierAccepts
<1> QED
  BY <1>3, <1>5, <1>6 DEF Admits, f

-----------------------------------------------------------------------------
(* The steps of a CI run.                                                   *)

\* A run in whose workspace and artifacts nothing happens.
LEMMA StageKept ==
  ASSUME NEW r \in Runs, StageInv(r), bundles \subseteq bundles',
         stage'[r] = stage[r], job'[r] = job[r],
         current'[r] = current[r], attested'[r] = attested[r]
  PROVE  StageInv(r)'
BY DEF StageInv

\* What run r has left in its artifacts stays.
ArtifactsInv(r) ==
    /\ current[r] # None => \E x \in Passing(r) : current[r] = Measured(r, x)
    /\ attested[r] # None => \E x \in Passing(r) : attested[r] = Verified(r, x)
                                                /\ BundleOf(r, x) \in bundles

LEMMA ArtifactsKept ==
  ASSUME NEW r \in Runs, StageInv(r), bundles \subseteq bundles',
         current'[r] = current[r], attested'[r] = attested[r]
  PROVE  ArtifactsInv(r)'
BY DEF StageInv, ArtifactsInv

LEMMA CIKept ==
  ASSUME CIInv, NEW r \in Runs, bundles \subseteq bundles',
         NEW s, NEW j, NEW c, NEW a,
         stage' = [stage EXCEPT ![r] = s], job' = [job EXCEPT ![r] = j],
         current' = [current EXCEPT ![r] = c], attested' = [attested EXCEPT ![r] = a],
         StageInv(r)'
  PROVE  CIInv'
<1>1. /\ DOMAIN stage' = Runs /\ DOMAIN job' = Runs
      /\ DOMAIN current' = Runs /\ DOMAIN attested' = Runs
      /\ stage' = [q \in Runs |-> stage'[q]] /\ job' = [q \in Runs |-> job'[q]]
      /\ current' = [q \in Runs |-> current'[q]] /\ attested' = [q \in Runs |-> attested'[q]]
  BY DEF CIInv
<1>2. \A q \in Runs \ {r} : /\ stage'[q] = stage[q] /\ job'[q] = job[q]
                            /\ current'[q] = current[q] /\ attested'[q] = attested[q]
  BY DEF CIInv
<1>3. ASSUME NEW q \in Runs \ {r} PROVE StageInv(q)'
  BY <1>2, StageKept DEF CIInv
<1> QED
  BY <1>1, <1>3 DEF CIInv

LEMMA Unexcepted ==
  ASSUME NEW r \in Runs
  PROVE  /\ \A f : DOMAIN f = Runs /\ f = [q \in Runs |-> f[q]] => f = [f EXCEPT ![r] = f[r]]
         /\ \A f, v : DOMAIN f = Runs => [f EXCEPT ![r] = v][r] = v
<1>1. ASSUME NEW f, DOMAIN f = Runs, f = [q \in Runs |-> f[q]]
      PROVE  f = [f EXCEPT ![r] = f[r]]
  <2>1. [f EXCEPT ![r] = f[r]] = [q \in Runs |-> f[q]]
    BY <1>1
  <2> QED
    BY <1>1, <2>1
<1> QED
  BY <1>1

\* A step of run r that leaves the bundles and the artifacts alone.
LEMMA JobStep ==
  ASSUME CIInv, NEW r \in Runs, NEW s, NEW j,
         stage' = [stage EXCEPT ![r] = s], job' = [job EXCEPT ![r] = j],
         UNCHANGED <<current, attested, bundles>>,
         stage'[r] = s /\ job'[r] = j => StageInv(r)'
  PROVE  CIInv'
<1>1. stage'[r] = s /\ job'[r] = j
  BY Unexcepted DEF CIInv
<1>2. current' = [current EXCEPT ![r] = current[r]] /\ attested' = [attested EXCEPT ![r] = attested[r]]
  BY Unexcepted DEF CIInv
<1> QED
  BY <1>1, <1>2, CIKept

LEMMA CIProduceStep ==
  ASSUME CIInv, NEW r \in Runs, NEW unsafe \in 0 .. Cases, CIProduce(r, unsafe)
  PROVE  CIInv'
<1>1. PICK x \in Own(r) :
         Apply(NoFiles, ProducerWrites(r, Commit[r], unsafe, "none")) = Produced(x)
  BY ProducedByCI
<1>2. /\ stage' = [stage EXCEPT ![r] = "produced"] /\ job' = [job EXCEPT ![r] = Produced(x)]
      /\ UNCHANGED <<current, attested, bundles>>
  BY <1>1 DEF CIProduce, Step
<1>3. ArtifactsInv(r)'
  BY <1>2, ArtifactsKept DEF CIInv
<1>4. stage'[r] = "produced" /\ job'[r] = Produced(x) => StageInv(r)'
  BY <1>3 DEF StageInv, ArtifactsInv, Stages, Ended
<1> QED
  BY <1>2, <1>4, JobStep

LEMMA CIIngestStep ==
  ASSUME CIInv, NEW r \in Runs, CIIngest(r)
  PROVE  CIInv'
<1>1. PICK x \in Own(r) : job[r] = Produced(x)
  BY DEF CIIngest, Judge, Step, CIInv, StageInv
<1>2. PICK s \in {"ingested", "rejected"} :
         /\ s = IF x \in Passing(r) THEN "ingested" ELSE "rejected"
         /\ stage' = [stage EXCEPT ![r] = s] /\ job' = [job EXCEPT ![r] = Measured(r, x)]
  BY <1>1, MeasuredByCI DEF CIIngest, Judge, Step
<1>3. UNCHANGED <<current, attested, bundles>>
  BY DEF CIIngest
<1>4. ArtifactsInv(r)'
  BY <1>3, ArtifactsKept DEF CIInv
<1>5. stage'[r] = s /\ job'[r] = Measured(r, x) => StageInv(r)'
  BY <1>2, <1>4 DEF StageInv, ArtifactsInv, Stages, Ended
<1> QED
  BY <1>2, <1>3, <1>5, JobStep

LEMMA CIUploadStep ==
  ASSUME CIInv, NEW r \in Runs, CIUpload(r)
  PROVE  CIInv'
<1>1. PICK x \in Passing(r) : job[r] = Measured(r, x)
  BY DEF CIUpload, Judge, Step, CIInv, StageInv
<1>2. Present(job[r], {"raw", "manifest", "summary"})
  BY <1>1, AcceptedByCI
<1>3. /\ stage' = [stage EXCEPT ![r] = "uploaded"] /\ current' = [current EXCEPT ![r] = job[r]]
      /\ UNCHANGED <<job, attested, bundles>>
  BY <1>2 DEF CIUpload, Judge, Step
<1>4. /\ job' = [job EXCEPT ![r] = job[r]] /\ attested' = [attested EXCEPT ![r] = attested[r]]
  BY <1>3, Unexcepted DEF CIInv
<1>5. /\ stage'[r] = "uploaded" /\ job'[r] = Measured(r, x) /\ current'[r] = Measured(r, x)
      /\ attested'[r] = attested[r]
  BY <1>1, <1>3, Unexcepted DEF CIInv
<1>6. StageInv(r)'
  BY <1>3, <1>5 DEF CIInv, StageInv, Stages, Ended
<1> QED
  BY <1>3, <1>4, <1>6, CIKept

LEMMA CIAttestStep ==
  ASSUME CIInv, BundlesInv, NEW r \in Runs, CIAttest(r)
  PROVE  CIInv' /\ BundlesInv' /\ bundles \subseteq bundles'
<1>1. PICK x \in Passing(r) : current[r] = Measured(r, x)
  BY DEF CIAttest, Step, CIInv, StageInv
<1>2. [subject |-> current[r]["summary"], commit |-> Commit[r]] = BundleOf(r, x)
  BY <1>1, Lookups DEF BundleOf, FileNames
<1>3. /\ stage' = [stage EXCEPT ![r] = "attested"] /\ job' = [job EXCEPT ![r] = current[r]]
      /\ bundles' = bundles \cup {BundleOf(r, x)}
      /\ UNCHANGED <<current, attested>>
  BY <1>2 DEF CIAttest, Step
<1>4. /\ current' = [current EXCEPT ![r] = current[r]]
      /\ attested' = [attested EXCEPT ![r] = attested[r]]
  BY <1>3, Unexcepted DEF CIInv
<1>5. /\ stage'[r] = "attested" /\ job'[r] = Measured(r, x)
      /\ current'[r] = current[r] /\ attested'[r] = attested[r]
  BY <1>1, <1>3, Unexcepted DEF CIInv
<1>6. ArtifactsInv(r)'
  BY <1>3, <1>5, ArtifactsKept DEF CIInv
<1>7. StageInv(r)'
  BY <1>3, <1>5, <1>6 DEF StageInv, ArtifactsInv, Stages, Ended
<1>8. CIInv'
  BY <1>3, <1>4, <1>7, CIKept
<1>9. BundlesInv'
  BY <1>3 DEF BundlesInv
<1> QED
  BY <1>3, <1>8, <1>9

LEMMA CIEnvelopeStep ==
  ASSUME CIInv, NEW r \in Runs, CIEnvelope(r)
  PROVE  CIInv'
<1>1. PICK x \in Passing(r) : job[r] = Measured(r, x) /\ BundleOf(r, x) \in bundles
  BY DEF CIEnvelope, Judge, Step, CIInv, StageInv
<1>2. /\ stage' = [stage EXCEPT ![r] = "enveloped"] /\ job' = [job EXCEPT ![r] = Enveloped(r, x)]
  BY <1>1, EnvelopedByCI DEF CIEnvelope, Judge, Step
<1>3. UNCHANGED <<current, attested, bundles>>
  BY DEF CIEnvelope
<1>4. ArtifactsInv(r)'
  BY <1>3, ArtifactsKept DEF CIInv
<1>5. stage'[r] = "enveloped" /\ job'[r] = Enveloped(r, x) => StageInv(r)'
  BY <1>1, <1>3, <1>4 DEF StageInv, ArtifactsInv, Stages, Ended
<1> QED
  BY <1>2, <1>3, <1>5, JobStep

LEMMA CIVerifyStep ==
  ASSUME CIInv, NEW r \in Runs, CIVerify(r)
  PROVE  CIInv'
<1>1. PICK x \in Passing(r) : job[r] = Enveloped(r, x) /\ BundleOf(r, x) \in bundles
  BY DEF CIVerify, Judge, Step, CIInv, StageInv
<1>2. /\ stage' = [stage EXCEPT ![r] = "verified"] /\ job' = [job EXCEPT ![r] = Verified(r, x)]
  BY <1>1, VerifiedByCI DEF CIVerify, Judge, Step
<1>3. UNCHANGED <<current, attested, bundles>>
  BY DEF CIVerify
<1>4. ArtifactsInv(r)'
  BY <1>3, ArtifactsKept DEF CIInv
<1>5. stage'[r] = "verified" /\ job'[r] = Verified(r, x) => StageInv(r)'
  BY <1>1, <1>3, <1>4 DEF StageInv, ArtifactsInv, Stages, Ended
<1> QED
  BY <1>2, <1>3, <1>5, JobStep

LEMMA CIPublishStep ==
  ASSUME CIInv, NEW r \in Runs, CIPublish(r)
  PROVE  CIInv'
<1>1. PICK x \in Passing(r) : job[r] = Verified(r, x) /\ BundleOf(r, x) \in bundles
  BY DEF CIPublish, Judge, Step, CIInv, StageInv
<1>2. Present(job[r], FileNames)
  BY <1>1, AcceptedByCI
<1>3. /\ stage' = [stage EXCEPT ![r] = "published"] /\ attested' = [attested EXCEPT ![r] = job[r]]
      /\ UNCHANGED <<job, current, bundles>>
  BY <1>2 DEF CIPublish, Judge, Step
<1>4. /\ job' = [job EXCEPT ![r] = job[r]] /\ current' = [current EXCEPT ![r] = current[r]]
  BY <1>3, Unexcepted DEF CIInv
<1>5. /\ stage'[r] = "published" /\ job'[r] = Verified(r, x) /\ attested'[r] = Verified(r, x)
      /\ current'[r] = current[r]
  BY <1>1, <1>3, Unexcepted DEF CIInv
<1>6. StageInv(r)'
  BY <1>1, <1>3, <1>5 DEF CIInv, StageInv, Stages, Ended
<1> QED
  BY <1>3, <1>4, <1>6, CIKept

LEMMA CIAdmitStep ==
  ASSUME CIInv, NEW r \in Runs, CIAdmit(r)
  PROVE  CIInv'
<1>1. PICK x \in Passing(r) : attested[r] = Verified(r, x) /\ BundleOf(r, x) \in bundles
  BY DEF CIAdmit, Judge, Step, CIInv, StageInv
<1>2. /\ stage' = [stage EXCEPT ![r] = "admitted"] /\ job' = [job EXCEPT ![r] = Verified(r, x)]
  BY <1>1, AcceptedByCI DEF CIAdmit, Judge, Step
<1>3. UNCHANGED <<current, attested, bundles>>
  BY DEF CIAdmit
<1>4. ArtifactsInv(r)'
  BY <1>3, ArtifactsKept DEF CIInv
<1>5. stage'[r] = "admitted" /\ job'[r] = Verified(r, x) => StageInv(r)'
  BY <1>1, <1>3, <1>4 DEF StageInv, ArtifactsInv, Stages, Ended
<1> QED
  BY <1>2, <1>3, <1>5, JobStep

LEMMA CIBreakStep ==
  ASSUME CIInv, NEW r \in Runs, CIBreak(r)
  PROVE  CIInv'
<1>1. /\ stage' = [stage EXCEPT ![r] = "broken"] /\ job' = [job EXCEPT ![r] = NoFiles]
      /\ UNCHANGED <<current, attested, bundles>>
  BY DEF CIBreak
<1>2. ArtifactsInv(r)'
  BY <1>1, ArtifactsKept DEF CIInv
<1>3. stage'[r] = "broken" /\ job'[r] = NoFiles => StageInv(r)'
  BY <1>2 DEF StageInv, ArtifactsInv, Stages, Ended
<1> QED
  BY <1>1, <1>3, JobStep

LEMMA CINextStep ==
  ASSUME CIInv, BundlesInv, NEW r \in Runs, CIStep(r) \/ CIBreak(r)
  PROVE  CIInv' /\ BundlesInv' /\ bundles \subseteq bundles' /\ UNCHANGED local
<1>1. CASE CIAttest(r)
  BY <1>1, CIAttestStep DEF CIAttest
<1>2. ASSUME NEW unsafe \in 0 .. Cases, CIProduce(r, unsafe)
      PROVE  CIInv' /\ UNCHANGED <<bundles, local>>
  BY <1>2, CIProduceStep DEF CIProduce
<1>3. CASE CIIngest(r) \/ CIUpload(r) \/ CIEnvelope(r) \/ CIVerify(r) \/ CIPublish(r) \/ CIAdmit(r)
           \/ CIBreak(r)
  <2>1. CIInv'
    BY <1>3, CIIngestStep, CIUploadStep, CIEnvelopeStep, CIVerifyStep, CIPublishStep,
       CIAdmitStep, CIBreakStep
  <2>2. UNCHANGED <<bundles, local>>
    BY <1>3 DEF CIIngest, CIUpload, CIEnvelope, CIVerify, CIPublish, CIAdmit, CIBreak
  <2> QED
    BY <2>1, <2>2 DEF BundlesInv
<1> QED
  BY <1>1, <1>2, <1>3 DEF CIStep, BundlesInv

-----------------------------------------------------------------------------
(* The workspace that outlives runs.                                        *)

\* Removing files first disturbs nothing that the other writes respect.
LEMMA ErasesFirst ==
  ASSUME NEW f, IsFiles(f), NEW S, FileNames \X {None} \subseteq S,
         NEW names \in Seq(FileNames), NEW rest \in Seq(S)
  PROVE  /\ Erase(names) \o rest \in Seq(S)
         /\ DescribeEachOther(f) /\ Along(Apply(f, Erase(names)), rest)
              => Along(f, Erase(names) \o rest)
<1>1. PICK first : first = Erase(names)
  OBVIOUS
<1>2. first \in Erasures
  BY <1>1, EraseErases
<1>3. first \in Seq(S)
  BY <1>2, SeqMonotonic DEF Erasures
<1>4. first \o rest \in Seq(S)
  BY <1>3, ConcatProperties
<1>5. ASSUME DescribeEachOther(f), Along(Apply(f, first), rest)
      PROVE  Along(f, first \o rest)
  <2>1. Along(f, first)
    BY <1>2, <1>5, AlongErasures
  <2> QED
    BY <1>3, <1>5, <2>1, AlongConcat
<1> QED
  BY <1>1, <1>4, <1>5

LEMMA AlongTwo ==
  ASSUME NEW f, IsFiles(f), NEW v, NEW w, DescribeEachOther(f),
         DescribeEachOther(Apply(f, <<v>>)),
         DescribeEachOther(Apply(Apply(f, <<v>>), <<w>>))
  PROVE  Along(f, <<v, w>>)
<1>1. PICK writes : writes = <<v, w>>
  OBVIOUS
<1>2. writes \in Seq({v, w}) /\ Len(writes) = 2 /\ writes[1] = v /\ writes[2] = w
  BY <1>1
<1>3. SubSeq(writes, 1, 0) = <<>> /\ SubSeq(writes, 1, Len(writes)) = writes
  BY <1>2, SubSeqEmpty, SubSeqFull
<1>4. SubSeq(writes, 1, 1) = <<v>>
  <2>1. PICK a, b : a = SubSeq(writes, 1, 1) /\ b = <<v>>
    OBVIOUS
  <2>2. a \in Seq({v, w}) /\ Len(a) = 1 /\ a[1] = v
    BY <1>2, <2>1, SubSeqProperties
  <2>3. b \in Seq({v, w}) /\ Len(b) = 1 /\ b[1] = v
    BY <2>1
  <2>4. \A i \in 1 .. Len(a) : a[i] = b[i]
    <3>1. \A i \in 1 .. 1 : i = 1
      OBVIOUS
    <3> QED
      BY <2>2, <2>3, <3>1
  <2> QED
    BY <2>1, <2>2, <2>3, <2>4, SeqEqual
<1>5. \A k \in 0 .. Len(writes) : k = 0 \/ k = 1 \/ k = Len(writes)
  BY <1>2
<1>6. DescribeEachOther(Apply(f, writes))
  BY <1>1, TwoWrites
<1>7. ASSUME NEW k \in 0 .. Len(writes) PROVE DescribeEachOther(Apply(f, SubSeq(writes, 1, k)))
  BY <1>3, <1>4, <1>5, <1>6, ApplyNothing
<1>8. Along(f, writes)
  BY <1>7 DEF Along
<1> QED
  BY <1>1, <1>8

LEMMA AlongThenErased ==
  ASSUME NEW f, IsFiles(f), NEW v, NEW names \in Seq(FileNames), DescribeEachOther(f),
         DescribeEachOther(Apply(f, <<v>>))
  PROVE  Along(f, <<v>> \o Erase(names))
<1>1. PICK a, b : a = <<v>> /\ b = Erase(names)
  OBVIOUS
<1>2. PICK T : T = (FileNames \X {None}) \cup {v}
  OBVIOUS
<1>3. a \in Seq(T)
  BY <1>1, <1>2
<1>4. b \in Erasures /\ b \in Seq(T)
  BY <1>1, <1>2, EraseErases, SeqMonotonic DEF Erasures
<1>5. Along(f, a)
  BY <1>1, AlongOne
<1>6. Along(Apply(f, a), b)
  BY <1>1, <1>4, ApplyFiles, AlongErasures
<1>7. Along(f, a \o b)
  BY <1>3, <1>4, <1>5, <1>6, AlongConcat
<1> QED
  BY <1>1, <1>7

LEMMA WrittenFile ==
  ASSUME NEW f, NEW w, NEW g, g = Apply(f, <<w>>)
  PROVE  IsFiles(g) /\ \A n \in FileNames : g[n] = IF n = w[1] THEN w[2] ELSE f[n]
<1>1. g = [n \in FileNames |-> IF n = w[1] THEN w[2] ELSE f[n]]
  BY ApplyOne
<1> QED
  BY <1>1 DEF IsFiles

LEMMA NothingIsSound ==
  FileNames \X {None} \subseteq SoundWrites
BY DEF SoundWrites, AllWrites, Contents, Maybe, Sound

\* Attesting more keeps what is in the workspace as it is.
LEMMA LocalKept ==
  ASSUME LocalInv, bundles \subseteq bundles', UNCHANGED local
  PROVE  LocalInv'
<1>1. SoundWrites \subseteq SoundWrites'
  BY DEF SoundWrites, Sound
<1>2. SoundFiles(files)'
  BY <1>1 DEF LocalInv, SoundFiles, IsFiles, local
<1>3. PICK S, T : S = SoundWrites /\ T = SoundWrites'
  OBVIOUS
<1>4. PICK rest : rest = todo
  OBVIOUS
<1>5. rest \in Seq(T)
  BY <1>1, <1>3, <1>4, SeqMonotonic DEF LocalInv
<1>6. todo' = rest
  BY <1>4 DEF local
<1>7. todo' \in Seq(SoundWrites')
  BY <1>3, <1>5, <1>6
<1>8. ~downloaded' => Along(files', todo')
  BY DEF LocalInv, local
<1> QED
  BY <1>2, <1>7, <1>8 DEF LocalInv, local

\* A tool that starts with sound writes that respect the files.
LEMMA StartKept ==
  ASSUME LocalInv, NEW writes \in Seq(SoundWrites), Start(writes), downloaded' \in BOOLEAN,
         ~downloaded' => Along(files, writes)
  PROVE  LocalInv'
<1>1. SoundWrites' = SoundWrites
  BY DEF SoundWrites, Sound, Start, ci
<1>2. SoundFiles(files)'
  BY <1>1 DEF LocalInv, SoundFiles, IsFiles, Start
<1>3. todo' \in Seq(SoundWrites')
  BY <1>1 DEF Start
<1>4. head' \in Commits /\ used' \in 0 .. MaxTools
  BY Assumed DEF LocalInv, Start
<1>5. ~downloaded' => Along(files', todo')
  BY DEF Start
<1> QED
  BY <1>2, <1>3, <1>4, <1>5 DEF LocalInv

LEMMA FileTypes ==
  ASSUME NEW f, SoundFiles(f), NEW n \in FileNames, f[n] # None
  PROVE  Sound(n, f[n])
BY DEF SoundFiles, SoundWrites

\* A producer that starts in any state of the workspace.
LEMMA ProducerIsSound ==
  ASSUME LocalInv, NEW r \in Runs, NEW unsafe \in 0 .. Cases, NEW failure \in Failures
  PROVE  /\ ProducerWrites(r, head, unsafe, failure) \in Seq(SoundWrites)
         /\ DescribeEachOther(files) => Along(files, ProducerWrites(r, head, unsafe, failure))
<1>1. PICK writes : writes = ProducerWrites(r, head, unsafe, failure)
  OBVIOUS
<1>2. PICK f, S : f = files /\ S = SoundWrites
  OBVIOUS
<1>3. PICK x : x = Classifications(r, unsafe)
  OBVIOUS
<1>4. PICK v, w : v = <<"raw", x>> /\ w = <<"manifest", x>>
  OBVIOUS
<1>5. v \in S /\ w \in S
  <2>1. x \in Raws
    BY <1>3 DEF Classifications, Raws
  <2> QED
    BY <1>2, <1>4, <2>1 DEF SoundWrites, AllWrites, Contents, Maybe, Sound, FileNames
<1>6. IsFiles(f) /\ FileNames \X {None} \subseteq S
  BY <1>2, NothingIsSound DEF LocalInv, SoundFiles
<1>7. StaleOfProducer \in Seq(FileNames) /\ Apply(f, Erase(StaleOfProducer)) = NoFiles
  BY StaleFiles, Cleared
<1>8. IsFiles(NoFiles) /\ \A n \in FileNames : NoFiles[n] = None
  BY Lookups
<1>9. DescribeEachOther(NoFiles)
  BY <1>8 DEF DescribeEachOther, FileNames
<1>10. PICK g : g = Apply(NoFiles, <<v>>)
  OBVIOUS
<1>11. \A n \in FileNames : g[n] = IF n = "raw" THEN x ELSE None
  BY <1>4, <1>8, <1>10, WrittenFile
<1>12. DescribeEachOther(g)
  BY <1>11 DEF DescribeEachOther, FileNames
<1>13. PICK h : h = Apply(g, <<w>>)
  OBVIOUS
<1>14. \A n \in FileNames : h[n] = IF n \in {"raw", "manifest"} THEN x ELSE None
  BY <1>4, <1>11, <1>13, WrittenFile
<1>15. DescribeEachOther(h)
  BY <1>14 DEF DescribeEachOther, Names, FileNames
<1>16. \E rest \in Seq(S) : writes = Erase(StaleOfProducer) \o rest /\ Along(NoFiles, rest)
  <2>1. CASE head # Commit[r] \/ failure = "early"
    <3>1. writes = Erase(StaleOfProducer) \o <<>>
      BY <1>1, <2>1 DEF ProducerWrites
    <3>2. PICK rest : rest = <<>>
      OBVIOUS
    <3>3. rest \in Seq(S) /\ Along(NoFiles, rest)
      BY <1>8, <1>9, <3>2, AlongNothing
    <3> QED
      BY <3>1, <3>2, <3>3
  <2>2. CASE ~ (head # Commit[r] \/ failure = "early") /\ failure = "late"
    <3>1. writes = Erase(StaleOfProducer) \o (<<v>> \o Erase(StaleOfProducer))
      BY <1>1, <1>3, <1>4, <2>2 DEF ProducerWrites
    <3>2. PICK rest : rest = <<v>> \o Erase(StaleOfProducer)
      OBVIOUS
    <3>3. Along(NoFiles, rest)
      BY <1>7, <1>8, <1>9, <1>10, <1>12, <3>2, AlongThenErased
    <3>4. rest \in Seq(S)
      <4>1. PICK a, b : a = <<v>> /\ b = Erase(StaleOfProducer)
        OBVIOUS
      <4>2. a \in Seq(S)
        BY <1>5, <4>1
      <4>3. b \in Seq(S)
        BY <1>6, <1>7, <4>1, EraseErases, SeqMonotonic DEF Erasures
      <4>4. a \o b \in Seq(S)
        BY <4>2, <4>3, ConcatProperties
      <4> QED
        BY <3>2, <4>1, <4>4
    <3> QED
      BY <3>1, <3>2, <3>3, <3>4
  <2>3. CASE ~ (head # Commit[r] \/ failure = "early") /\ failure # "late"
    <3>1. writes = Erase(StaleOfProducer) \o <<v, w>>
      BY <1>1, <1>3, <1>4, <2>3 DEF ProducerWrites
    <3>2. PICK rest : rest = <<v, w>>
      OBVIOUS
    <3>3. Along(NoFiles, rest)
      BY <1>8, <1>9, <1>10, <1>12, <1>13, <1>15, <3>2, AlongTwo
    <3>4. rest \in Seq(S)
      BY <1>5, <3>2
    <3> QED
      BY <3>1, <3>2, <3>3, <3>4
  <2> QED
    BY <2>1, <2>2, <2>3
<1>17. writes \in Seq(S) /\ (DescribeEachOther(f) => Along(f, writes))
  BY <1>6, <1>7, <1>16, ErasesFirst
<1> QED
  BY <1>1, <1>2, <1>17

\* So does the adapter: it keeps the raw file and the manifest it counts.
LEMMA AdapterIsSound ==
  ASSUME LocalInv, NEW r \in Runs
  PROVE  /\ AdapterWrites(files, r, head) \in Seq(SoundWrites)
         /\ DescribeEachOther(files) => Along(files, AdapterWrites(files, r, head))
<1>1. PICK writes : writes = AdapterWrites(files, r, head)
  OBVIOUS
<1>2. PICK f, S : f = files /\ S = SoundWrites
  OBVIOUS
<1>3. IsFiles(f) /\ FileNames \X {None} \subseteq S
  BY <1>2, NothingIsSound DEF LocalInv, SoundFiles
<1>4. PICK g : g = Apply(f, Erase(StaleOfAdapter))
  OBVIOUS
<1>5. IsFiles(g) /\ \A n \in FileNames : g[n] = IF n \in {"raw", "manifest"} THEN f[n] ELSE None
  BY <1>4, Cleared, ApplyFiles
<1>6. DescribeEachOther(f) => DescribeEachOther(g)
  BY <1>5, ErasedDescribe
<1>7. \E rest \in Seq(S) : writes = Erase(StaleOfAdapter) \o rest
                           /\ (DescribeEachOther(f) => Along(g, rest))
  <2>1. CASE Present(files, {"raw", "manifest"})
    <3>1. PICK w : w = <<"summary", Summary(files, r, head)>>
      OBVIOUS
    <3>2. f["raw"] # None /\ f["manifest"] # None
      BY <1>2, <2>1 DEF Present
    <3>3. f["raw"] \in Raws /\ f["manifest"] \in Raws
      BY <1>2, <3>2, FileTypes DEF LocalInv, Sound, FileNames
    <3>4. w[2] \in Summaries /\ w[1] = "summary" /\ w[2].raw = f["raw"]
      BY <1>2, <3>1, <3>3, Assumed DEF Summary, Summaries, LocalInv
    <3>5. w \in S
      BY <1>2, <3>1, <3>4 DEF SoundWrites, AllWrites, Contents, Maybe, Sound, FileNames
    <3>6. PICK h : h = Apply(g, <<w>>)
      OBVIOUS
    <3>7. \A n \in FileNames : h[n] = IF n = "summary" THEN w[2] ELSE g[n]
      BY <3>4, <3>6, WrittenFile
    <3>8. DescribeEachOther(g) => DescribeEachOther(h)
      BY <1>5, <3>4, <3>7 DEF DescribeEachOther, Names, FileNames
    <3>9. PICK rest : rest = <<w>>
      OBVIOUS
    <3>10. DescribeEachOther(f) => Along(g, rest)
      BY <1>5, <1>6, <3>6, <3>8, <3>9, AlongOne
    <3>11. rest \in Seq(S)
      BY <3>5, <3>9
    <3>12. writes = Erase(StaleOfAdapter) \o rest
      BY <1>1, <2>1, <3>1, <3>9 DEF AdapterWrites
    <3> QED
      BY <3>10, <3>11, <3>12
  <2>2. CASE ~ Present(files, {"raw", "manifest"})
    <3>1. PICK rest : rest = <<>>
      OBVIOUS
    <3>2. rest \in Seq(S) /\ (DescribeEachOther(f) => Along(g, rest))
      BY <1>5, <1>6, <3>1, AlongNothing
    <3>3. writes = Erase(StaleOfAdapter) \o rest
      BY <1>1, <2>2, <3>1 DEF AdapterWrites
    <3> QED
      BY <3>2, <3>3
  <2> QED
    BY <2>1, <2>2
<1>8. PICK rest \in Seq(S) : writes = Erase(StaleOfAdapter) \o rest
                             /\ (DescribeEachOther(f) => Along(g, rest))
  BY <1>7
<1>9. writes \in Seq(S) /\ (DescribeEachOther(f) => Along(f, writes))
  BY <1>3, <1>4, <1>8, StaleFiles, ErasesFirst
<1> QED
  BY <1>1, <1>2, <1>9

\* So does the envelope builder, with a bundle that was attested for any run.
LEMMA EnvelopeBuilderIsSound ==
  ASSUME BundlesInv, LocalInv, NEW r \in Runs, NEW b \in bundles, NEW failure \in Failures
  PROVE  /\ EnvelopeWrites(files, r, head, b, failure) \in Seq(SoundWrites)
         /\ DescribeEachOther(files)
              => Along(files, EnvelopeWrites(files, r, head, b, failure))
<1>1. PICK writes : writes = EnvelopeWrites(files, r, head, b, failure)
  OBVIOUS
<1>2. PICK f, S : f = files /\ S = SoundWrites
  OBVIOUS
<1>3. IsFiles(f) /\ FileNames \X {None} \subseteq S
  BY <1>2, NothingIsSound DEF LocalInv, SoundFiles
<1>4. PICK g : g = Apply(f, Erase(StaleOfEnvelope))
  OBVIOUS
<1>5. IsFiles(g) /\ \A n \in FileNames :
                       g[n] = IF n \in {"raw", "manifest", "summary"} THEN f[n] ELSE None
  BY <1>4, Cleared, ApplyFiles
<1>6. DescribeEachOther(f) => DescribeEachOther(g)
  BY <1>5, ErasedDescribe
<1>7. b \in Bundles
  BY OwnTypes, PassingOwn DEF BundlesInv
<1>8. PICK v, w : v = <<"bundle", b>> /\ w = <<"envelope", Envelope(files, r, b)>>
  OBVIOUS
<1>9. v \in S
  BY <1>2, <1>7, <1>8 DEF SoundWrites, AllWrites, Contents, Maybe, Sound, FileNames
<1>10. PICK h : h = Apply(g, <<v>>)
  OBVIOUS
<1>11. IsFiles(h) /\ \A n \in FileNames : h[n] = IF n = "bundle" THEN b ELSE g[n]
  BY <1>8, <1>10, WrittenFile
<1>12. DescribeEachOther(g) => DescribeEachOther(h)
  BY <1>5, <1>11 DEF DescribeEachOther, Names, FileNames
<1>13. \E rest \in Seq(S) : writes = Erase(StaleOfEnvelope) \o rest
                            /\ (DescribeEachOther(f) => Along(g, rest))
  <2>1. CASE ~SummaryFitsEnvelope(files, r, head) \/ failure = "early"
    <3>1. PICK rest : rest = <<>>
      OBVIOUS
    <3>2. rest \in Seq(S) /\ (DescribeEachOther(f) => Along(g, rest))
      BY <1>5, <1>6, <3>1, AlongNothing
    <3>3. writes = Erase(StaleOfEnvelope) \o rest
      BY <1>1, <2>1, <3>1 DEF EnvelopeWrites
    <3> QED
      BY <3>2, <3>3
  <2>2. CASE ~ (~SummaryFitsEnvelope(files, r, head) \/ failure = "early") /\ failure = "late"
    <3>1. writes = Erase(StaleOfEnvelope) \o (<<v>> \o Erase(StaleOfEnvelope))
      BY <1>1, <1>8, <2>2 DEF EnvelopeWrites
    <3>2. PICK rest : rest = <<v>> \o Erase(StaleOfEnvelope)
      OBVIOUS
    <3>3. DescribeEachOther(f) => Along(g, rest)
      BY <1>5, <1>6, <1>10, <1>12, <3>2, StaleFiles, AlongThenErased
    <3>4. rest \in Seq(S)
      <4>1. PICK c, d : c = <<v>> /\ d = Erase(StaleOfEnvelope)
        OBVIOUS
      <4>2. c \in Seq(S)
        BY <1>9, <4>1
      <4>3. d \in Seq(S)
        BY <1>3, <4>1, StaleFiles, EraseErases, SeqMonotonic DEF Erasures
      <4>4. c \o d \in Seq(S)
        BY <4>2, <4>3, ConcatProperties
      <4> QED
        BY <3>2, <4>1, <4>4
    <3> QED
      BY <3>1, <3>2, <3>3, <3>4
  <2>3. CASE ~ (~SummaryFitsEnvelope(files, r, head) \/ failure = "early") /\ failure # "late"
    <3>1. f["raw"] # None /\ f["summary"] # None
      BY <1>2, <2>3 DEF SummaryFitsEnvelope, Present
    <3>2. f["raw"] \in Raws /\ f["summary"] \in Summaries
      BY <1>2, <3>1, FileTypes DEF LocalInv, Sound, FileNames
    <3>3. /\ w[1] = "envelope" /\ w[2] \in Envelopes
          /\ w[2].summary = f["summary"] /\ w[2].bundle = b
      BY <1>2, <1>7, <1>8, <3>2, Assumed DEF Envelope, Envelopes
    <3>4. w \in S
      BY <1>2, <1>8, <3>3 DEF SoundWrites, AllWrites, Contents, Maybe, Sound, FileNames
    <3>5. PICK k : k = Apply(h, <<w>>)
      OBVIOUS
    <3>6. \A n \in FileNames : k[n] = IF n = "envelope" THEN w[2] ELSE h[n]
      BY <3>3, <3>5, WrittenFile
    <3>7. DescribeEachOther(h) => DescribeEachOther(k)
      BY <1>5, <1>11, <3>3, <3>6 DEF DescribeEachOther, Names, FileNames
    <3>8. PICK rest : rest = <<v, w>>
      OBVIOUS
    <3>9. DescribeEachOther(f) => Along(g, rest)
      BY <1>5, <1>6, <1>10, <1>12, <3>5, <3>7, <3>8, AlongTwo
    <3>10. rest \in Seq(S)
      BY <1>9, <3>4, <3>8
    <3>11. writes = Erase(StaleOfEnvelope) \o rest
      BY <1>1, <1>8, <2>3, <3>8 DEF EnvelopeWrites
    <3> QED
      BY <3>9, <3>10, <3>11
  <2> QED
    BY <2>1, <2>2, <2>3
<1>14. PICK rest \in Seq(S) : writes = Erase(StaleOfEnvelope) \o rest
                              /\ (DescribeEachOther(f) => Along(g, rest))
  BY <1>13
<1>15. writes \in Seq(S) /\ (DescribeEachOther(f) => Along(f, writes))
  BY <1>3, <1>4, <1>14, StaleFiles, ErasesFirst
<1> QED
  BY <1>1, <1>2, <1>15

\* The verifier clears nothing: it writes its report last of all, and replaces it.
LEMMA VerifierIsSound ==
  ASSUME LocalInv, NEW r \in Runs, NEW answers \in BOOLEAN
  PROVE  /\ VerifierWrites(files, r, answers) \in Seq(SoundWrites)
         /\ DescribeEachOther(files) => Along(files, VerifierWrites(files, r, answers))
<1>1. PICK f, S : f = files /\ S = SoundWrites
  OBVIOUS
<1>2. PICK loaded \in BOOLEAN : loaded = Present(f, {"summary", "envelope"})
  BY DEF Present
<1>3. PICK verdict \in BOOLEAN : verdict = (VerifierAccepts(f, Commit[r]) /\ answers)
  BY DEF VerifierAccepts, Present, EnvelopeWraps, Attests
<1>4. PICK report : report = [verified |-> verdict,
                              summary |-> IF loaded THEN f["summary"] ELSE None,
                              envelope |-> IF loaded THEN f["envelope"] ELSE None]
  OBVIOUS
<1>5. PICK w : w = <<"report", report>>
  OBVIOUS
<1>6. PICK writes : writes = <<w>>
  OBVIOUS
<1>7. VerifierWrites(files, r, answers) = writes
  BY <1>1, <1>2, <1>3, <1>4, <1>5, <1>6 DEF VerifierWrites
<1>8. verdict => /\ loaded /\ f["bundle"] # None
                 /\ f["bundle"] = [subject |-> f["summary"], commit |-> Commit[r]]
  BY <1>2, <1>3 DEF VerifierAccepts, Present, Attests
<1>9. /\ f["summary"] # None => f["summary"] \in Summaries
      /\ f["envelope"] # None => f["envelope"] \in Envelopes
      /\ f["bundle"] # None => f["bundle"] \in bundles
  BY <1>1, FileTypes DEF LocalInv, Sound, FileNames
<1>10. report \in Reports
  <2>1. loaded => f["summary"] \in Summaries /\ f["envelope"] \in Envelopes
    BY <1>2, <1>9 DEF Present
  <2> QED
    BY <1>4, <2>1 DEF Reports, Maybe
<1>11. report.verified => \E b \in bundles : b.subject = report.summary
  BY <1>4, <1>8, <1>9
<1>12. w \in S
  BY <1>1, <1>5, <1>10, <1>11 DEF SoundWrites, AllWrites, Contents, Maybe, Sound, FileNames
<1>13. writes \in Seq(S)
  BY <1>6, <1>12
<1>14. PICK g : g = Apply(f, <<w>>)
  OBVIOUS
<1>15. \A n \in FileNames : g[n] = IF n = "report" THEN report ELSE f[n]
  BY <1>5, <1>14, WrittenFile
<1>16. DescribeEachOther(f) => DescribeEachOther(g)
  BY <1>4, <1>8, <1>15 DEF DescribeEachOther, Names, FileNames
<1>17. DescribeEachOther(f) => Along(f, writes)
  BY <1>1, <1>6, <1>14, <1>16, AlongOne DEF LocalInv, SoundFiles
<1> QED
  BY <1>1, <1>7, <1>13, <1>17

\* What the artifacts hold is sound: it is what the steps of a CI run left.
LEMMA ArtifactsAreSound ==
  ASSUME CIInv, NEW r \in Runs
  PROVE  /\ current[r] # None => \A n \in FileNames : <<n, current[r][n]>> \in SoundWrites
         /\ attested[r] # None => \A n \in FileNames : <<n, attested[r][n]>> \in SoundWrites
<1>1. ASSUME NEW x \in Passing(r), BundleOf(r, x) \in bundles, NEW n \in FileNames
      PROVE  <<n, Verified(r, x)[n]>> \in SoundWrites
  <2>1. /\ x \in Raws /\ SummaryOf(r, x) \in Summaries /\ BundleOf(r, x) \in Bundles
        /\ EnvelopeOf(r, x) \in Envelopes /\ ReportOf(r, x) \in Reports
    BY PassingOwn, OwnTypes
  <2>2. PICK c : c = Verified(r, x)[n]
    OBVIOUS
  <2>3. \/ n \in {"raw", "manifest"} /\ c = x
        \/ n = "summary" /\ c = SummaryOf(r, x)
        \/ n = "bundle" /\ c = BundleOf(r, x)
        \/ n = "envelope" /\ c = EnvelopeOf(r, x)
        \/ n = "report" /\ c = ReportOf(r, x)
    BY <2>2, Lookups DEF FileNames
  <2>4. BundleOf(r, x).subject = ReportOf(r, x).summary
    BY DEF BundleOf, ReportOf
  <2>5. <<n, c>> \in SoundWrites
    BY <1>1, <2>1, <2>3, <2>4 DEF SoundWrites, AllWrites, Contents, Maybe, Sound, FileNames
  <2> QED
    BY <2>2, <2>5
<1>2. ASSUME current[r] # None PROVE \A n \in FileNames : <<n, current[r][n]>> \in SoundWrites
  <2>1. PICK x \in Passing(r) : current[r] = Measured(r, x)
    BY <1>2 DEF CIInv, StageInv
  <2>2. ASSUME NEW n \in FileNames PROVE <<n, Measured(r, x)[n]>> \in SoundWrites
    <3>1. /\ x \in Raws /\ SummaryOf(r, x) \in Summaries
      BY PassingOwn, OwnTypes
    <3>2. \/ Measured(r, x)[n] = None
          \/ n \in {"raw", "manifest"} /\ Measured(r, x)[n] = x
          \/ n = "summary" /\ Measured(r, x)[n] = SummaryOf(r, x)
      BY Lookups
    <3> QED
      BY <3>1, <3>2 DEF SoundWrites, AllWrites, Contents, Maybe, Sound, FileNames
  <2> QED
    BY <2>1, <2>2
<1>3. ASSUME attested[r] # None PROVE \A n \in FileNames : <<n, attested[r][n]>> \in SoundWrites
  <2>1. PICK x \in Passing(r) : attested[r] = Verified(r, x) /\ BundleOf(r, x) \in bundles
    BY <1>3 DEF CIInv, StageInv
  <2>2. \A n \in FileNames : <<n, Verified(r, x)[n]>> \in SoundWrites
    BY <1>1, <2>1
  <2> QED
    BY <2>1, <2>2
<1> QED
  BY <1>2, <1>3

LEMMA DownloadIsSound ==
  ASSUME NEW S, NEW artifact, NEW names \in Seq(FileNames),
         \A n \in FileNames : <<n, artifact[n]>> \in S
  PROVE  [i \in DOMAIN names |-> <<names[i], artifact[names[i]]>>] \in Seq(S)
<1>1. Len(names) \in Nat /\ DOMAIN names = 1 .. Len(names)
      /\ \A i \in 1 .. Len(names) : names[i] \in FileNames
  BY LenProperties, ElementOfSeq
<1>2. [i \in DOMAIN names |-> <<names[i], artifact[names[i]]>>] \in [1 .. Len(names) -> S]
  BY <1>1
<1> QED
  BY <1>1, <1>2, SeqDef

LEMMA ToolsKeepLocal ==
  ASSUME CIInv, BundlesInv, LocalInv, LocalStep
  PROVE  LocalInv'
<1>1. ~downloaded => DescribeEachOther(files)
  BY AlongBegins DEF LocalInv, SoundFiles
<1>2. ASSUME NEW r \in Runs, NEW unsafe \in 0 .. Cases, NEW failure \in Failures,
             Produce(r, unsafe, failure)
      PROVE  LocalInv'
  <2>1. PICK writes : writes = ProducerWrites(r, head, unsafe, failure)
    OBVIOUS
  <2>2. writes \in Seq(SoundWrites) /\ (DescribeEachOther(files) => Along(files, writes))
    BY <2>1, ProducerIsSound
  <2>3. Start(writes) /\ downloaded' = downloaded
    BY <1>2, <2>1 DEF Produce
  <2>4. downloaded \in BOOLEAN
    BY DEF LocalInv
  <2> QED
    BY <1>1, <2>2, <2>3, <2>4, StartKept
<1>3. ASSUME NEW r \in Runs, Ingest(r) PROVE LocalInv'
  <2>1. PICK writes : writes = AdapterWrites(files, r, head)
    OBVIOUS
  <2>2. writes \in Seq(SoundWrites) /\ (DescribeEachOther(files) => Along(files, writes))
    BY <2>1, AdapterIsSound
  <2>3. Start(writes) /\ downloaded' = downloaded
    BY <1>3, <2>1 DEF Ingest
  <2>4. downloaded \in BOOLEAN
    BY DEF LocalInv
  <2> QED
    BY <1>1, <2>2, <2>3, <2>4, StartKept
<1>4. ASSUME NEW r \in Runs, NEW b \in bundles, NEW failure \in Failures,
             BuildEnvelope(r, b, failure)
      PROVE  LocalInv'
  <2>1. PICK writes : writes = EnvelopeWrites(files, r, head, b, failure)
    OBVIOUS
  <2>2. writes \in Seq(SoundWrites) /\ (DescribeEachOther(files) => Along(files, writes))
    BY <2>1, EnvelopeBuilderIsSound
  <2>3. Start(writes) /\ downloaded' = downloaded
    BY <1>4, <2>1 DEF BuildEnvelope
  <2>4. downloaded \in BOOLEAN
    BY DEF LocalInv
  <2> QED
    BY <1>1, <2>2, <2>3, <2>4, StartKept
<1>5. ASSUME NEW r \in Runs, NEW answers \in BOOLEAN, Verify(r, answers) PROVE LocalInv'
  <2>1. PICK writes : writes = VerifierWrites(files, r, answers)
    OBVIOUS
  <2>2. writes \in Seq(SoundWrites) /\ (DescribeEachOther(files) => Along(files, writes))
    BY <2>1, VerifierIsSound
  <2>3. Start(writes) /\ downloaded' = downloaded
    BY <1>5, <2>1 DEF Verify
  <2>4. downloaded \in BOOLEAN
    BY DEF LocalInv
  <2> QED
    BY <1>1, <2>2, <2>3, <2>4, StartKept
<1>6. ASSUME NEW r \in Runs,
             Download(current[r], CurrentFiles) \/ Download(attested[r], AttestedFiles)
      PROVE  LocalInv'
  <2>1. CurrentFiles \in Seq(FileNames) /\ AttestedFiles \in Seq(FileNames)
    BY DEF CurrentFiles, AttestedFiles, FileNames
  <2>2. \E writes \in Seq(SoundWrites) : Start(writes) /\ downloaded' = TRUE
    <3>1. CASE Download(current[r], CurrentFiles)
      <4>1. PICK artifact, names : artifact = current[r] /\ names = CurrentFiles
        OBVIOUS
      <4>2. \A n \in FileNames : <<n, artifact[n]>> \in SoundWrites
        BY <3>1, <4>1, ArtifactsAreSound DEF Download
      <4>3. PICK writes : writes = [i \in DOMAIN names |-> <<names[i], artifact[names[i]]>>]
        OBVIOUS
      <4>4. writes \in Seq(SoundWrites)
        BY <2>1, <4>1, <4>2, <4>3, DownloadIsSound
      <4>5. Start(writes) /\ downloaded' = TRUE
        BY <3>1, <4>1, <4>3 DEF Download, Start
      <4> QED
        BY <4>4, <4>5
    <3>2. CASE Download(attested[r], AttestedFiles)
      <4>1. PICK artifact, names : artifact = attested[r] /\ names = AttestedFiles
        OBVIOUS
      <4>2. \A n \in FileNames : <<n, artifact[n]>> \in SoundWrites
        BY <3>2, <4>1, ArtifactsAreSound DEF Download
      <4>3. PICK writes : writes = [i \in DOMAIN names |-> <<names[i], artifact[names[i]]>>]
        OBVIOUS
      <4>4. writes \in Seq(SoundWrites)
        BY <2>1, <4>1, <4>2, <4>3, DownloadIsSound
      <4>5. Start(writes) /\ downloaded' = TRUE
        BY <3>2, <4>1, <4>3 DEF Download, Start
      <4> QED
        BY <4>4, <4>5
    <3> QED
      BY <1>6, <3>1, <3>2
  <2> QED
    BY <2>2, StartKept
<1>7. CASE Write
  <2>1. PICK w, rest, f : w = Head(todo) /\ rest = Tail(todo) /\ f = files
    OBVIOUS
  <2>2. w \in SoundWrites /\ rest \in Seq(SoundWrites)
    BY <1>7, <2>1, HeadTailProperties DEF Write, LocalInv
  <2>3. PICK g : g = Apply(f, <<w>>)
    OBVIOUS
  <2>4. files' = g /\ todo' = rest
    BY <1>7, <2>1, <2>3 DEF Write
  <2>5. IsFiles(g) /\ \A n \in FileNames : g[n] = IF n = w[1] THEN w[2] ELSE f[n]
    BY <2>3, WrittenFile
  <2>6. \A n \in FileNames : <<n, f[n]>> \in SoundWrites
    BY <2>1 DEF LocalInv, SoundFiles
  <2>7. w = <<w[1], w[2]>>
    BY <2>2 DEF SoundWrites, AllWrites
  <2>8. \A n \in FileNames : <<n, g[n]>> \in SoundWrites
    BY <2>2, <2>5, <2>6, <2>7
  <2>9. SoundWrites' = SoundWrites
    BY <1>7 DEF SoundWrites, Sound, Write, ci
  <2>10. SoundFiles(g)'
    BY <2>5, <2>8, <2>9 DEF SoundFiles, IsFiles
  <2>11. ~downloaded => Along(g, rest)
    BY <1>7, <2>1, <2>3, AlongWrite DEF LocalInv, Write
  <2>12. todo' \in Seq(SoundWrites')
    BY <2>2, <2>4, <2>9
  <2>13. SoundFiles(files)'
    BY <2>4, <2>10 DEF SoundFiles, IsFiles
  <2>14. ~downloaded' => Along(files', todo')
    BY <1>7, <2>4, <2>11 DEF Write
  <2> QED
    BY <1>7, <2>12, <2>13, <2>14 DEF LocalInv, Write
<1>8. CASE Kill
  <2>1. SoundWrites' = SoundWrites
    BY <1>8 DEF SoundWrites, Sound, Kill, ci
  <2>2. SoundFiles(files)'
    BY <1>8, <2>1 DEF Kill, LocalInv, SoundFiles, IsFiles
  <2>3. todo' \in Seq(SoundWrites')
    BY <1>8 DEF Kill
  <2>4. ~downloaded => Along(files, <<>>)
    BY <1>1, AlongNothing DEF LocalInv, SoundFiles
  <2>5. ~downloaded' => Along(files', todo')
    BY <1>8, <2>4 DEF Kill
  <2> QED
    BY <1>8, <2>2, <2>3, <2>5 DEF Kill, LocalInv
<1>9. ASSUME NEW c \in Commits, Checkout(c) PROVE LocalInv'
  <2>1. SoundWrites' = SoundWrites
    BY <1>9 DEF SoundWrites, Sound, Checkout, ci
  <2>2. SoundFiles(files)'
    BY <1>9, <2>1 DEF Checkout, LocalInv, SoundFiles, IsFiles
  <2>3. todo' \in Seq(SoundWrites')
    BY <1>9, <2>1 DEF Checkout, LocalInv
  <2>4. ~downloaded' => Along(files', todo')
    BY <1>9 DEF Checkout, LocalInv
  <2> QED
    BY <1>9, <2>2, <2>3, <2>4, Assumed DEF Checkout, LocalInv
<1> QED
  BY <1>2, <1>3, <1>4, <1>5, <1>6, <1>7, <1>8, <1>9 DEF LocalStep

-----------------------------------------------------------------------------
(* The invariant holds.                                                     *)

LEMMA InitHolds ==
  Init => IInv
<1> SUFFICES ASSUME Init PROVE IInv
  OBVIOUS
<1>1. IsFiles(NoFiles) /\ \A n \in FileNames : NoFiles[n] = None
  BY Lookups
<1>2. CIInv
  <2>1. ASSUME NEW r \in Runs PROVE StageInv(r)
    <3>1. stage[r] = "new" /\ job[r] = NoFiles /\ current[r] = None /\ attested[r] = None
      BY DEF Init
    <3> QED
      BY <3>1 DEF StageInv, Stages, Ended
  <2> QED
    BY <2>1 DEF Init, CIInv
<1>3. BundlesInv
  BY DEF Init, BundlesInv
<1>4. SoundFiles(files)
  BY <1>1, NothingIsSound DEF Init, SoundFiles
<1>5. Along(files, todo)
  <2>1. DescribeEachOther(NoFiles)
    BY <1>1 DEF DescribeEachOther, FileNames
  <2>2. Along(NoFiles, <<>>)
    BY <1>1, <2>1, AlongNothing
  <2> QED
    BY <2>2 DEF Init
<1>6. todo \in Seq(SoundWrites) /\ used \in 0 .. MaxTools
  BY Assumed DEF Init
<1> QED
  BY <1>2, <1>3, <1>4, <1>5, <1>6 DEF Init, IInv, LocalInv

LEMMA NextKeeps ==
  IInv /\ [Next]_vars => IInv'
<1> SUFFICES ASSUME IInv, [Next]_vars PROVE IInv'
  OBVIOUS
<1>1. CASE LocalStep
  <2>1. LocalInv'
    BY <1>1, ToolsKeepLocal DEF IInv
  <2>2. UNCHANGED ci
    BY <1>1 DEF LocalStep, Produce, Ingest, BuildEnvelope, Verify, Download, Start, Write, Kill,
       Checkout
  <2>3. CIInv' /\ BundlesInv'
    BY <2>2 DEF IInv, CIInv, StageInv, BundlesInv, ci
  <2> QED
    BY <2>1, <2>3 DEF IInv
<1>2. ASSUME NEW r \in Runs, CIStep(r) \/ CIBreak(r) PROVE IInv'
  BY <1>2, CINextStep, LocalKept DEF IInv
<1>3. CASE UNCHANGED vars
  <2>1. UNCHANGED ci /\ UNCHANGED local
    BY <1>3 DEF vars
  <2>2. CIInv' /\ BundlesInv'
    BY <2>1 DEF IInv, CIInv, StageInv, BundlesInv, ci
  <2>3. LocalInv'
    BY <2>1, LocalKept DEF IInv, ci
  <2> QED
    BY <2>2, <2>3 DEF IInv
<1> QED
  BY <1>1, <1>2, <1>3 DEF Next

\* Everything the theorems below follow from: what a CI run has in its workspace
\* and its artifacts at every stage, that only passing summaries are attested,
\* and that the workspace that outlives runs holds, and is about to be given,
\* nothing unsound.
THEOREM Invariance == Spec => []IInv
<1>1. Init => IInv
  BY InitHolds
<1>2. IInv /\ [Next]_vars => IInv'
  BY NextKeeps
<1> QED
  BY <1>1, <1>2, PTL DEF Spec

LEMMA SoundFilesOK ==
  ASSUME BundlesInv, NEW f, SoundFiles(f)
  PROVE  FilesOK(f)
<1>1. DOMAIN f = FileNames
  BY DEF SoundFiles, IsFiles
<1>2. bundles \subseteq Bundles
  BY OwnTypes, PassingOwn DEF BundlesInv
<1>3. \A n \in FileNames : Sound(n, f[n])
  BY DEF SoundFiles, SoundWrites
<1>4. /\ f["raw"] \in Maybe(Raws) /\ f["manifest"] \in Maybe(Raws)
      /\ f["summary"] \in Maybe(Summaries) /\ f["bundle"] \in Maybe(Bundles)
      /\ f["envelope"] \in Maybe(Envelopes) /\ f["report"] \in Maybe(Reports)
  BY <1>2, <1>3 DEF Sound, Maybe, FileNames
<1> QED
  BY <1>1, <1>4 DEF FilesOK

LEMMA FilesOfCIOK ==
  ASSUME NEW r \in Runs, NEW x \in Own(r)
  PROVE  /\ FilesOK(NoFiles) /\ FilesOK(Produced(x)) /\ FilesOK(Measured(r, x))
         /\ FilesOK(Enveloped(r, x)) /\ FilesOK(Verified(r, x))
<1>1. /\ x \in Raws /\ SummaryOf(r, x) \in Summaries /\ BundleOf(r, x) \in Bundles
      /\ EnvelopeOf(r, x) \in Envelopes /\ ReportOf(r, x) \in Reports
  BY OwnTypes
<1>2. ASSUME NEW f, IsFiles(f),
             \A n \in FileNames : \/ f[n] = None
                                  \/ n \in {"raw", "manifest"} /\ f[n] = x
                                  \/ n = "summary" /\ f[n] = SummaryOf(r, x)
                                  \/ n = "bundle" /\ f[n] = BundleOf(r, x)
                                  \/ n = "envelope" /\ f[n] = EnvelopeOf(r, x)
                                  \/ n = "report" /\ f[n] = ReportOf(r, x)
      PROVE  FilesOK(f)
  <2>1. DOMAIN f = FileNames
    BY <1>2 DEF IsFiles
  <2>2. /\ f["raw"] \in Maybe(Raws) /\ f["manifest"] \in Maybe(Raws)
        /\ f["summary"] \in Maybe(Summaries) /\ f["bundle"] \in Maybe(Bundles)
        /\ f["envelope"] \in Maybe(Envelopes) /\ f["report"] \in Maybe(Reports)
    BY <1>1, <1>2 DEF Maybe, FileNames
  <2> QED
    BY <2>1, <2>2 DEF FilesOK
<1>3. FilesOK(NoFiles) /\ FilesOK(Produced(x))
  BY <1>2, Lookups
<1>4. FilesOK(Measured(r, x))
  BY <1>2, Lookups
<1>5. FilesOK(Enveloped(r, x))
  BY <1>2, Lookups
<1>6. FilesOK(Verified(r, x))
  BY <1>2, Lookups
<1> QED
  BY <1>3, <1>4, <1>5, <1>6

\* The state of the CI runs and of the workspace that outlives them always has its
\* shape: each file name holds its own kind of content, or nothing.
THEOREM TypeCorrect == Spec => []TypeOK
<1>1. ASSUME IInv PROVE TypeOK
  <2>1. ASSUME NEW r \in Runs
        PROVE  /\ stage[r] \in Stages /\ FilesOK(job[r])
               /\ current[r] # None => FilesOK(current[r])
               /\ attested[r] # None => FilesOK(attested[r])
    <3>1. StageInv(r)
      BY <1>1 DEF IInv, CIInv
    <3>2. stage[r] \in Stages
      BY <3>1 DEF StageInv
    <3>3. \E x \in Own(r) : \/ job[r] \in {NoFiles, Produced(x), Measured(r, x)}
                            \/ job[r] \in {Enveloped(r, x), Verified(r, x)}
      <4>1. [run |-> r, unsafe |-> 0] \in Own(r)
        BY Assumed DEF Own
      <4> QED
        BY <3>1, <4>1, PassingOwn DEF StageInv, Stages, Ended
    <3>4. FilesOK(job[r])
      BY <3>3, FilesOfCIOK
    <3>5. current[r] # None => FilesOK(current[r])
      BY <3>1, PassingOwn, FilesOfCIOK DEF StageInv
    <3>6. attested[r] # None => FilesOK(attested[r])
      BY <3>1, PassingOwn, FilesOfCIOK DEF StageInv
    <3> QED
      BY <3>2, <3>4, <3>5, <3>6
  <2>2. \A b \in bundles : b \in Bundles
    BY <1>1, OwnTypes, PassingOwn DEF IInv, BundlesInv
  <2>3. FilesOK(files)
    BY <1>1, SoundFilesOK DEF IInv, LocalInv
  <2>4. ASSUME NEW i \in DOMAIN todo PROVE todo[i][1] \in FileNames
    <3>1. todo[i] \in SoundWrites
      BY <1>1, LenProperties, ElementOfSeq DEF IInv, LocalInv
    <3> QED
      BY <3>1 DEF SoundWrites, AllWrites
  <2> QED
    BY <1>1, <2>1, <2>2, <2>3, <2>4 DEF TypeOK, Stages, IInv, LocalInv
<1> QED
  BY <1>1, Invariance, PTL

\* What CI attested with the name of a run is what that run's steps left.
LEMMA Attested ==
  ASSUME BundlesInv, NEW r \in Runs, NEW b \in bundles, b.subject.run = r
  PROVE  IsOfRun(b.subject, r)
<1>1. PICK q \in Runs : \E y \in Passing(q) : b = BundleOf(q, y)
  BY DEF BundlesInv
<1>2. PICK x \in Passing(q) : b = BundleOf(q, x)
  BY <1>1
<1>3. /\ b.subject = SummaryOf(q, x)
      /\ b = [subject |-> b.subject, commit |-> Commit[q]]
  BY <1>2 DEF BundleOf
<1>4. q = r
  BY <1>3 DEF SummaryOf
<1>5. x.run = r /\ x.unsafe <= Tolerated[Commit[r]]
  BY <1>4, PassingOwn, OwnTypes DEF Passing
<1> QED
  BY <1>3, <1>4, <1>5 DEF IsOfRun, SummaryOf, Attests

\* Whatever was downloaded, rebuilt, killed and mixed in the workspace before: a
\* summary that build_release_authority_candidate_v1.py admits for a run was
\* attested by CI for that attempt, counts that attempt's classifications, and is
\* within that commit's thresholds.
THEOREM AdmissionIsOfTheRun == Spec => []AdmissionIsOfThatRun
<1>1. ASSUME IInv PROVE AdmissionIsOfThatRun
  <2>1. SUFFICES ASSUME NEW r \in Runs, Admits(files, r, head)
                 PROVE  IsOfRun(files["summary"], r) /\ files["raw"] = files["summary"].raw
    BY DEF AdmissionIsOfThatRun
  <2>2. files["summary"].run = r /\ files["summary"].raw = files["raw"]
    BY <2>1 DEF Admits, SummaryFitsRun, SummaryOfRun, RawUnchanged
  <2>3. files["bundle"] # None
        /\ files["bundle"] = [subject |-> files["summary"], commit |-> Commit[r]]
    BY <2>1 DEF Admits, VerifierAccepts, Present, Attests
  <2>4. files["bundle"] \in bundles
    BY <1>1, <2>3, FileTypes DEF IInv, LocalInv, Sound, FileNames
  <2>5. files["bundle"].subject = files["summary"]
    BY <2>3
  <2>6. IsOfRun(files["bundle"].subject, r)
    BY <1>1, <2>2, <2>4, <2>5, Attested DEF IInv
  <2> QED
    BY <2>2, <2>5, <2>6
<1> QED
  BY <1>1, Invariance, PTL

\* The package verifier believes the report beside the summary; a package it
\* accepts for a run still holds what CI attested for that attempt, and no file of
\* another.
THEOREM PackageIsOfTheRun == Spec => []PackageIsOfThatRun
<1>1. ASSUME IInv PROVE PackageIsOfThatRun
  <2>1. SUFFICES ASSUME NEW r \in Runs, PackageVerifies(files, r)
                 PROVE  /\ IsOfRun(files["summary"], r)
                        /\ files["raw"] = files["summary"].raw
                        /\ files["manifest"].run = r
    BY DEF PackageIsOfThatRun
  <2>2. /\ files["summary"].run = r /\ files["manifest"].run = r
        /\ files["summary"].raw = files["raw"]
        /\ files["report"].verified /\ files["report"].summary = files["summary"]
    BY <2>1 DEF PackageVerifies, PackageRunsMatch, PackageDigestsMatch
  <2>3. files["report"] # None
    BY <2>1 DEF PackageVerifies, Present, FileNames
  <2>4. PICK b \in bundles : b.subject = files["report"].summary
    BY <1>1, <2>2, <2>3, FileTypes DEF IInv, LocalInv, Sound, FileNames
  <2>5. IsOfRun(b.subject, r)
    BY <1>1, <2>2, <2>4, Attested DEF IInv
  <2> QED
    BY <2>2, <2>4, <2>5
<1> QED
  BY <1>1, Invariance, PTL

\* The adapter writes a summary that does not pass too, and GitHub attests what it
\* is given; yet no summary beyond its checkout's threshold is ever attested.
THEOREM NothingFailingIsAttested == Spec => []NothingFailingAttested
<1>1. ASSUME IInv PROVE NothingFailingAttested
  <2>1. SUFFICES ASSUME NEW b \in bundles PROVE Passed(b.subject)
    BY DEF NothingFailingAttested
  <2>2. PICK q \in Runs : \E x \in Passing(q) : b = BundleOf(q, x)
    BY <1>1 DEF IInv, BundlesInv
  <2> QED
    BY <2>2 DEF Passing, BundleOf, SummaryOf, Passed
<1> QED
  BY <1>1, Invariance, PTL

\* Run in any order, failing or killed between any two writes, the four tools leave
\* no file that names another than the one beside it.
THEOREM ToolsDescribeEachOther == Spec => []FilesDescribeEachOther
<1>1. ASSUME IInv PROVE FilesDescribeEachOther
  BY <1>1, AlongBegins DEF IInv, LocalInv, SoundFiles, FilesDescribeEachOther
<1> QED
  BY <1>1, Invariance, PTL

\* No tool of a CI run refuses what the tool before it left: a rejected run's own
\* classifications exceed the threshold of its commit.
THEOREM PassingRunsAreNotRejected == Spec => []PassingRunNeverRejected
<1>1. ASSUME IInv PROVE PassingRunNeverRejected
  <2>1. SUFFICES ASSUME NEW r \in Runs, stage[r] = "rejected"
                 PROVE  job[r]["raw"] # None /\ job[r]["raw"].unsafe > Tolerated[Commit[r]]
    BY DEF PassingRunNeverRejected
  <2>2. PICK x \in Own(r) \ Passing(r) : job[r] = Measured(r, x)
    BY <1>1, <2>1 DEF IInv, CIInv, StageInv
  <2>3. job[r]["raw"] = x
    BY <2>2, Lookups DEF FileNames
  <2>4. x \in Raws /\ x.unsafe \in Int /\ Tolerated[Commit[r]] \in Int
    BY <2>2, OwnTypes
  <2>5. ~ (x.unsafe <= Tolerated[Commit[r]])
    BY <2>2 DEF Passing
  <2> QED
    BY <2>3, <2>4, <2>5, Assumed
<1> QED
  BY <1>1, Invariance, PTL

=============================================================================
