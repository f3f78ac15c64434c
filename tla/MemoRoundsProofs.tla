---------------------------- MODULE MemoRoundsProofs ----------------------------
(***************************************************************************)
(* Theorems about the evidence and the memo in MemoRounds: for any issues, *)
(* sources, sayings and files, any failures and crashes within their       *)
(* bounds, any number of rounds and of restarts on states saved earlier.   *)
(***************************************************************************)
EXTENDS ChallengeMapProofs, FiniteSetTheorems

--------------------------------------------------------------------------------
(* A researcher's bundle.                                                      *)

\* The source ids that a list of sources has.
IdsOf(sources) == {s.id : s \in sources}

\* The sources of issue i are web sources of its own, one for an id, and its claims cite
\* none but them.
WebSources(i) == {s \in Source : s.origin = "web" /\ \E x \in Slots : s.id = WebId(i, x)}

OneEach(sources) == \A s, u \in sources : s.id = u.id => s = u

WellMade(b, i) ==
    /\ b = [from |-> From(i), sources |-> b.sources, claims |-> b.claims]
    /\ b.sources \subseteq WebSources(i)
    /\ OneEach(b.sources)
    /\ b.claims \subseteq Claim
    /\ \A c \in b.claims : c.refs \subseteq IdsOf(b.sources)

LEMMA BuiltWellMade ==
    ASSUME NEW i \in Issues, NEW b \in Built(i)
    PROVE  WellMade(b, i)
<1> DEFINE Src(S, h) == {[id |-> WebId(i, s), origin |-> "web", holds |-> h[s]] : s \in S}
           Clm(S) == {[text |-> t, key |-> k, refs |-> r, quote |-> t] :
                         t \in Sayings, k \in BOOLEAN, r \in SUBSET {WebId(i, s) : s \in S}}
<1>0. PICK S \in SUBSET Slots :
             b \in {[from |-> From(i), sources |-> Src(S, g), claims |-> C] :
                       g \in [S -> SUBSET Sayings],
                       C \in {D \in SUBSET Clm(S) : Cardinality(D) <= MaxClaims}}
  BY DEF Built
<1>1. PICK h \in [S -> SUBSET Sayings], C \in SUBSET Clm(S) :
             b = [from |-> From(i), sources |-> Src(S, h), claims |-> C]
  BY <1>0
<1>2. b.sources = Src(S, h) /\ b.claims = C /\ b.from = From(i)
  BY <1>1
<1>3. ASSUME NEW s \in S
      PROVE  [id |-> WebId(i, s), origin |-> "web", holds |-> h[s]] \in WebSources(i)
  <2>1. WebId(i, s) \in SourceId /\ h[s] \in SUBSET Sayings /\ s \in Slots
    BY DEF SourceId, WebIds
  <2>2. QED
    BY <2>1 DEF Source, WebSources
<1>4. b.sources \subseteq WebSources(i)
  BY <1>2, <1>3
<1>5. \A s, u \in S : WebId(i, s) = WebId(i, u) => s = u
  BY DEF WebId
<1>6. OneEach(b.sources)
  BY <1>2, <1>5 DEF OneEach
<1>7. IdsOf(b.sources) = {WebId(i, s) : s \in S} /\ IdsOf(b.sources) \subseteq SourceId
  <2>1. IdsOf(b.sources) = {WebId(i, s) : s \in S}
    <3>1. \A u \in b.sources : \E s \in S : u.id = WebId(i, s)
      BY <1>2
    <3>2. ASSUME NEW s \in S PROVE \E u \in b.sources : u.id = WebId(i, s)
      <4>1. [id |-> WebId(i, s), origin |-> "web", holds |-> h[s]] \in b.sources
        BY <1>2
      <4>2. QED
        BY <4>1
    <3>3. QED
      BY <3>1, <3>2 DEF IdsOf
  <2>2. \A s \in S : WebId(i, s) \in SourceId
    BY DEF SourceId, WebIds
  <2>3. QED
    BY <2>1, <2>2
<1>8. ASSUME NEW c \in C
      PROVE  c \in Claim /\ c.refs \subseteq IdsOf(b.sources)
  <2>1. PICK t \in Sayings, k \in BOOLEAN, r \in SUBSET {WebId(i, s) : s \in S} :
               c = [text |-> t, key |-> k, refs |-> r, quote |-> t]
    BY <1>8
  <2>2. r \in SUBSET SourceId /\ t \in Sayings \cup {FileText} /\ t \in Sayings \cup {NoQuote}
    BY <1>7
  <2>3. QED
    BY <1>7, <2>1, <2>2 DEF Claim
<1>9. QED
  BY <1>1, <1>2, <1>4, <1>6, <1>8 DEF WellMade

\* A replaced excerpt keeps id and origin.
LEMMA EscalatedWellMade ==
    ASSUME NEW i \in Issues, NEW b, WellMade(b, i), NEW e \in Escalated(b)
    PROVE  WellMade(e, i)
<1> DEFINE New(F, h) == {Excerpted(s, h[s]) : s \in F}
<1> DEFINE Few(F) == {D \in SUBSET Extracted(F) : Cardinality(b.claims \cup D) <= MaxClaims}
<1>0. PICK F \in SUBSET b.sources :
             e \in {Enriched(b, F, g, C) : g \in [F -> SUBSET Sayings], C \in Few(F)}
  BY DEF Escalated
<1>1. PICK h \in [F -> SUBSET Sayings], C \in Few(F) : e = Enriched(b, F, h, C)
  <2> HIDE DEF Few
  <2>1. QED
    BY <1>0
<1>2. e = [from |-> From(i), sources |-> (b.sources \ F) \cup New(F, h),
           claims |-> b.claims \cup C]
  <2>1. b.from = From(i)
    BY DEF WellMade
  <2>2. QED
    BY <1>1, <2>1 DEF Enriched
<1>3. /\ e.sources = (b.sources \ F) \cup New(F, h) /\ e.claims = b.claims \cup C
      /\ e = [from |-> From(i), sources |-> e.sources, claims |-> e.claims]
  BY <1>2
<1>4. ASSUME NEW s \in F
      PROVE  LET n == Excerpted(s, h[s]) IN n \in WebSources(i) /\ n.id = s.id
  <2>1. s \in Source /\ s.origin = "web" /\ \E x \in Slots : s.id = WebId(i, x)
    BY DEF WellMade, WebSources
  <2>2. h[s] \in SUBSET Sayings
    OBVIOUS
  <2>3. Excerpted(s, h[s]) = [id |-> s.id, origin |-> s.origin, holds |-> h[s]]
    BY <2>1 DEF Source, Excerpted
  <2>4. s.id \in SourceId
    BY <2>1 DEF Source
  <2>5. QED
    BY <2>1, <2>2, <2>3, <2>4 DEF WebSources, Source
<1>5. e.sources \subseteq WebSources(i)
  BY <1>3, <1>4 DEF WellMade
<1>6. \A u \in e.sources :
         \/ u \in b.sources \ F
         \/ \E s \in F : u = Excerpted(s, h[s]) /\ u.id = s.id
  BY <1>3, <1>4
<1>7. OneEach(e.sources)
  BY <1>6 DEF OneEach, WellMade
<1>8. IdsOf(e.sources) = IdsOf(b.sources)
  <2>1. ASSUME NEW s \in b.sources PROVE \E u \in e.sources : u.id = s.id
    <3>1. CASE s \in F
      <4>1. Excerpted(s, h[s]) \in e.sources
        BY <1>3, <3>1
      <4>2. QED
        BY <1>4, <3>1, <4>1
    <3>2. CASE s \notin F
      BY <1>3, <3>2
    <3>3. QED
      BY <3>1, <3>2
  <2>2. \A u \in e.sources : \E s \in b.sources : u.id = s.id
    BY <1>6
  <2>3. QED
    BY <2>1, <2>2 DEF IdsOf
<1>9. ASSUME NEW c \in C PROVE c \in Claim /\ c.refs \subseteq IdsOf(b.sources)
  <2>1. PICK t \in Sayings, k \in BOOLEAN, s \in F :
               c = [text |-> t, key |-> k, refs |-> {s.id}, quote |-> t]
    BY <1>9 DEF Extracted
  <2>2. s.id \in SourceId /\ s.id \in IdsOf(b.sources)
    BY DEF WellMade, WebSources, Source, IdsOf
  <2>3. t \in Sayings \cup {FileText} /\ t \in Sayings \cup {NoQuote}
    OBVIOUS
  <2>4. QED
    BY <2>1, <2>2, <2>3 DEF Claim
<1>10. \A c \in e.claims : c \in Claim /\ c.refs \subseteq IdsOf(e.sources)
  <2>1. C \subseteq Claim /\ \A c \in C : c.refs \subseteq IdsOf(e.sources)
    BY <1>8, <1>9
  <2>2. \A c \in b.claims : c \in Claim /\ c.refs \subseteq IdsOf(e.sources)
    BY <1>8 DEF WellMade
  <2>3. QED
    BY <1>3, <2>1, <2>2
<1>11. QED
  BY <1>3, <1>5, <1>7, <1>10 DEF WellMade

LEMMA RemarkedType ==
    ASSUME NEW c \in Claim, NEW m \in [key: BOOLEAN, remark: BOOLEAN]
    PROVE  Remarked(c, m) \in Claim /\ Remarked(c, m).refs = c.refs
<1> DEFINE k == m.key
           q == IF m.remark THEN NoQuote ELSE c.quote
<1>1. /\ c.text \in Sayings \cup {FileText} /\ c.refs \in SUBSET SourceId
      /\ c.quote \in Sayings \cup {NoQuote}
      /\ c = [text |-> c.text, key |-> c.key, refs |-> c.refs, quote |-> c.quote]
  BY DEF Claim
<1>2. k \in BOOLEAN
  OBVIOUS
<1>3. q \in Sayings \cup {NoQuote}
  BY <1>1
<1>4. Remarked(c, m) = [c EXCEPT !.key = k, !.quote = q]
  BY DEF Remarked
<1> HIDE DEF k, q
<1>5. Remarked(c, m) = [text |-> c.text, key |-> k, refs |-> c.refs, quote |-> q]
  BY <1>1, <1>4
<1>6. [text |-> c.text, key |-> k, refs |-> c.refs, quote |-> q] \in Claim
  BY <1>1, <1>2, <1>3 DEF Claim
<1>7. QED
  BY <1>5, <1>6

LEMMA PrunedType ==
    ASSUME NEW c \in Claim, NEW S
    PROVE  Pruned(c, S) \in Claim /\ Pruned(c, S).refs \subseteq IdsOf(S)
<1>1. c = [text |-> c.text, key |-> c.key, refs |-> c.refs, quote |-> c.quote]
  BY DEF Claim
<1>2. Pruned(c, S) = [text |-> c.text, key |-> c.key, refs |-> c.refs \cap IdsOf(S),
                      quote |-> c.quote]
  BY <1>1 DEF Pruned, IdsOf
<1>3. QED
  BY <1>2 DEF Claim

\* The critic touches confidence and quote of a claim, not what it cites.
LEMMA CritiquedWellMade ==
    ASSUME NEW i \in Issues, NEW b, WellMade(b, i), NEW e \in Critiqued(b)
    PROVE  WellMade(e, i)
<1>1. PICK m \in [b.claims -> [key: BOOLEAN, remark: BOOLEAN]] :
             e = [from |-> b.from, sources |-> b.sources,
                  claims |-> {Remarked(c, m[c]) : c \in b.claims}]
  BY DEF Critiqued
<1>2. /\ e.claims = {Remarked(c, m[c]) : c \in b.claims} /\ e.sources = b.sources
      /\ e = [from |-> From(i), sources |-> e.sources, claims |-> e.claims]
  <2>1. b.from = From(i)
    BY DEF WellMade
  <2>2. QED
    BY <1>1, <2>1
<1>3. ASSUME NEW c \in b.claims
      PROVE  Remarked(c, m[c]) \in Claim /\ Remarked(c, m[c]).refs = c.refs
  <2>1. c \in Claim
    BY DEF WellMade
  <2>2. m[c] \in [key: BOOLEAN, remark: BOOLEAN]
    OBVIOUS
  <2>3. QED
    BY <2>1, <2>2, RemarkedType
<1>4. QED
  BY <1>2, <1>3 DEF WellMade

\* What ranking leaves: claims cite surviving sources only.
LEMMA RankedWellMade ==
    ASSUME NEW i \in Issues, NEW b, WellMade(b, i), NEW e \in Ranked(b)
    PROVE  WellMade(e, i)
<1>1. PICK S \in SUBSET b.sources :
             e = [from |-> b.from, sources |-> S, claims |-> {Pruned(c, S) : c \in b.claims}]
  BY DEF Ranked
<1>2. /\ e.claims = {Pruned(c, S) : c \in b.claims} /\ e.sources = S
      /\ e = [from |-> From(i), sources |-> e.sources, claims |-> e.claims]
  <2>1. b.from = From(i)
    BY DEF WellMade
  <2>2. QED
    BY <1>1, <2>1
<1>3. ASSUME NEW c \in b.claims
      PROVE  Pruned(c, S) \in Claim /\ Pruned(c, S).refs \subseteq IdsOf(S)
  <2>1. c \in Claim
    BY DEF WellMade
  <2>2. QED
    BY <2>1, PrunedType
<1>4. QED
  BY <1>2, <1>3 DEF WellMade, OneEach

LEMMA BundlesWellMade ==
    ASSUME NEW i \in Issues, NEW b \in BundlesOf[i]
    PROVE  WellMade(b, i)
<1>1. PICK x \in Built(i) :
             b \in UNION {UNION {Ranked(d) : d \in Critiqued(c)} : c \in Escalated(x)}
  BY DEF BundlesOf
<1>2. PICK c \in Escalated(x) : b \in UNION {Ranked(d) : d \in Critiqued(c)}
  BY <1>1
<1>3. PICK d \in Critiqued(c) : b \in Ranked(d)
  BY <1>2
<1>4. WellMade(x, i)
  BY BuiltWellMade
<1>5. WellMade(c, i)
  BY <1>4, EscalatedWellMade
<1>6. WellMade(d, i)
  BY <1>5, CritiquedWellMade
<1>7. QED
  BY <1>3, <1>6, RankedWellMade

LEMMA WellMadeType ==
    ASSUME NEW i \in Issues, NEW b, WellMade(b, i)
    PROVE  b \in Bundle /\ b.from = From(i)
<1>1. b.sources \in SUBSET Source
  BY DEF WellMade, WebSources
<1>2. QED
  BY <1>1 DEF WellMade, Bundle
--------------------------------------------------------------------------------
(* The bundle of a file, and the files there are.                              *)

FileSource(p) == [id |-> p, origin |-> "internal", holds |-> {}]

\* A file has no source and no claim, or one source that each of its claims cites.
FileMade(b, p) ==
    /\ b \in Bundle /\ b.from = p
    /\ \/ b.sources = {} /\ b.claims = {}
       \/ b.sources = {FileSource(p)} /\ \A c \in b.claims : c.refs = {p}

LEMMA FileBundleMade ==
    ASSUME NEW p \in Paths
    PROVE  FileMade(FileBundle(p), p)
<1> DEFINE C == IF KindOf(p) # "readable" THEN {}
                ELSE {[text |-> FileText, key |-> FALSE, refs |-> {p}, quote |-> NoQuote]}
           S == IF KindOf(p) = "reported" THEN {} ELSE {FileSource(p)}
<1>1. FileBundle(p) = [from |-> p, sources |-> S, claims |-> C]
  BY DEF FileBundle, FileSource
<1>2. p \in SourceId
  BY DEF SourceId
<1>3. S \in SUBSET Source /\ C \in SUBSET Claim
  <2>1. FileSource(p) \in Source
    BY <1>2 DEF FileSource, Source
  <2>2. [text |-> FileText, key |-> FALSE, refs |-> {p}, quote |-> NoQuote] \in Claim
    BY <1>2 DEF Claim
  <2>3. QED
    BY <2>1, <2>2
<1>4. \/ S = {} /\ C = {}
      \/ S = {FileSource(p)} /\ \A c \in C : c.refs = {p}
  OBVIOUS
<1> HIDE DEF S, C
<1>5. FileBundle(p) \in Bundle
  BY <1>1, <1>3 DEF Bundle
<1>6. QED
  BY <1>1, <1>4, <1>5 DEF FileMade

LEMMA PathsFinite == IsFiniteSet(Paths)
<1>1. IsFiniteSet(Issues \X Slots)
  BY IntakeAssumption, FS_Product
<1>2. [x \in Issues \X Slots |-> Note(x[1], x[2])] \in Surjection(Issues \X Slots, Notes)
  <2> DEFINE g == [x \in Issues \X Slots |-> Note(x[1], x[2])]
  <2>1. g \in [Issues \X Slots -> Notes]
    BY DEF Notes
  <2>2. ASSUME NEW n \in Notes PROVE \E x \in Issues \X Slots : g[x] = n
    <3>1. PICK i \in Issues, s \in Slots : n = Note(i, s)
      BY DEF Notes
    <3>2. <<i, s>> \in Issues \X Slots /\ g[<<i, s>>] = n
      BY <3>1
    <3>3. QED
      BY <3>2
  <2>3. QED
    BY <2>1, <2>2 DEF Surjection
<1>3. IsFiniteSet(Notes)
  BY <1>1, <1>2, FS_Surjection
<1>4. [f \in Files |-> Drop(f)] \in Surjection(Files, Dropped)
  BY DEF Surjection, Dropped
<1>5. IsFiniteSet(Dropped)
  BY <1>4, IntakeAssumption, FS_Surjection
<1>6. QED
  BY <1>3, <1>5, FS_Union DEF Paths

\* Web sources, notes, dropped files and issues are told apart by their names.
LEMMA NamesDiffer ==
    /\ \A i, j \in Issues : From(i) = From(j) => i = j
    /\ \A i \in Issues, p \in Paths : From(i) # p
    /\ \A i, j \in Issues, s, t \in Slots : WebId(i, s) = WebId(j, t) => i = j /\ s = t
    /\ \A i \in Issues, s \in Slots, p \in Paths : WebId(i, s) # p
    /\ \A f \in Files : Drop(f) \in Paths /\ Drop(f) \notin Notes
    /\ \A f, g \in Files : Drop(f) = Drop(g) => f = g
<1>1. \A p \in Paths : p[1] \in {"note", "drop"}
  <2>1. \A p \in Notes : p[1] = "note"
    BY DEF Notes, Note
  <2>2. ASSUME NEW p \in Dropped PROVE p[1] = "drop"
    <3>1. PICK f \in Files : p = Drop(f)
      BY DEF Dropped
    <3>2. Drop(f)[1] = "drop"
      BY DEF Drop
    <3>3. QED
      BY <3>1, <3>2
  <2>3. QED
    BY <2>1, <2>2 DEF Paths
<1>2. \A i, j \in Issues : From(i) = From(j) => i = j
  BY DEF From
<1>3. \A i \in Issues, p \in Paths : From(i) # p
  <2>1. \A i \in Issues : From(i)[1] = "issue"
    BY DEF From
  <2>2. QED
    BY <1>1, <2>1
<1>4. \A i, j \in Issues, s, t \in Slots : WebId(i, s) = WebId(j, t) => i = j /\ s = t
  BY DEF WebId
<1>5. \A i \in Issues, s \in Slots, p \in Paths : WebId(i, s) # p
  <2>1. \A i \in Issues, s \in Slots : WebId(i, s)[1] = "web"
    BY DEF WebId
  <2>2. QED
    BY <1>1, <2>1
<1>6. \A f \in Files : Drop(f) \in Paths /\ Drop(f) \notin Notes
  BY DEF Paths, Notes, Dropped, Note, Drop
<1>7. \A f, g \in Files : Drop(f) = Drop(g) => f = g
  BY DEF Drop
<1>8. QED
  BY <1>2, <1>3, <1>4, <1>5, <1>6, <1>7

--------------------------------------------------------------------------------
(* Sequences and listings                                                      *)

LEMMA Joined ==
    ASSUME NEW S, NEW a \in Seq(S), NEW b \in Seq(S)
    PROVE  /\ a \o b \in Seq(S)
           /\ Len(a) \in Nat /\ Len(b) \in Nat /\ Len(a \o b) = Len(a) + Len(b)
           /\ DOMAIN (a \o b) = 1..(Len(a) + Len(b))
           /\ \A k \in 1..(Len(a) + Len(b)) :
                 (a \o b)[k] = IF k <= Len(a) THEN a[k] ELSE b[k - Len(a)]
OBVIOUS

\* A listing has each unread file once.
LEMMA ListedOnce ==
    ASSUME NEW w, Unread(w) \subseteq Paths, NEW files \in Listed(w)
    PROVE  /\ files \in Seq(Paths)
           /\ \A k \in DOMAIN files : files[k] \in Unread(w)
           /\ \A j, k \in DOMAIN files : files[j] = files[k] => j = k
           /\ \A p \in Unread(w) : \E k \in DOMAIN files : files[k] = p
<1> DEFINE n == Cardinality(Unread(w))
<1>1. IsFiniteSet(Unread(w)) /\ n \in Nat
  BY PathsFinite, FS_Subset, FS_CardinalityType
<1>2. /\ files \in [1..n -> Unread(w)]
      /\ \A j, k \in 1..n : j < k => Position[files[j]] < Position[files[k]]
  BY DEF Listed
<1> HIDE DEF n
<1>3. files \in [1..n -> Paths] /\ files \in Seq(Paths)
  BY <1>1, <1>2
<1>4. ASSUME NEW j \in 1..n, NEW k \in 1..n, files[j] = files[k] PROVE j = k
  <2>1. Position[files[j]] \in Nat
    BY <1>3, IntakeAssumption
  <2>2. ~(j < k) /\ ~(k < j)
    BY <1>2, <1>4, <2>1
  <2>3. QED
    BY <1>1, <2>2
<1>5. files \in Injection(1..n, Unread(w))
  BY <1>2, <1>4 DEF Injection, IsInjective
<1>6. Cardinality(1..n) = Cardinality(Unread(w))
  BY <1>1, FS_Interval DEF n
<1>7. files \in Surjection(1..n, Unread(w))
  BY <1>1, <1>5, <1>6, FS_Injection
<1>8. QED
  BY <1>2, <1>3, <1>4, <1>7 DEF Surjection
--------------------------------------------------------------------------------
(* The intake's invariant: types, one well-made bundle for a researched issue that no    *)
(* restart has taken back, evidence that is one of the bundles or a file's, notes for    *)
(* sources of the bundles alone.                                                         *)

Reported(b) == \E j \in DOMAIN results : b = results[j]

\* evidence, the run's or a saved one
Made(list) ==
    /\ list \in Seq(Bundle)
    /\ \A k \in DOMAIN list : Reported(list[k]) \/ \E p \in Paths : FileMade(list[k], p)

BundleInv ==
    /\ researched \subseteq Issues
    /\ reopened \subseteq Issues
    /\ results \in Seq(Bundle)
    /\ \A k \in DOMAIN results : \E i \in researched \cup reopened : WellMade(results[k], i)
    /\ \A j, k \in DOMAIN results :
          (results[j].from = results[k].from /\ ~Reopened(results[j])) => j = k
    /\ Made(evidence)

StoreInv ==
    /\ notes \subseteq NotesOf
    /\ torn \subseteq notes
    /\ seen \subseteq Paths
    /\ unmarked \subseteq Notes
    /\ drops \in [Files -> 0..MaxDrops]
    /\ blocked \subseteq Issues
    /\ writeFaults \in 0..MaxFaults
    /\ crashes \in 0..MaxFaults

IntakeInv == BundleInv /\ StoreInv

LEMMA NotesOfType == ASSUME BundleInv PROVE NotesOf \subseteq Notes
<1> SUFFICES ASSUME NEW k \in DOMAIN results, NEW s \in results[k].sources
             PROVE  Note(s.id[2], s.id[3]) \in Notes
  BY DEF NotesOf
<1>1. PICK i \in Issues : WellMade(results[k], i)
  BY DEF BundleInv
<1>2. PICK x \in Slots : s.id = WebId(i, x)
  BY <1>1 DEF WellMade, WebSources
<1>3. s.id[2] = i /\ s.id[3] = x
  BY <1>2 DEF WebId
<1>4. QED
  BY <1>3 DEF Notes

LEMMA IntakeTyped == ASSUME IntakeInv PROVE IntakeTypeOK
BY NotesOfType DEF IntakeInv, BundleInv, Made, StoreInv, IntakeTypeOK

LEMMA IntakeStart == Init => IntakeInv
<1> SUFFICES ASSUME Init PROVE IntakeInv
  OBVIOUS
<1>1. BundleInv
  BY DEF Init, IntakeInit, BundleInv, Made
<1>2. StoreInv
  BY IntakeAssumption DEF Init, IntakeInit, StoreInv, NotesOf
<1>3. QED
  BY <1>1, <1>2 DEF IntakeInv

\* The reducer takes nothing back.
LEMMA ReportedStays ==
    ASSUME IntakeInv,
           \/ UNCHANGED results
           \/ \E b \in Bundle : results' = Append(results, b)
    PROVE  /\ \A c : Reported(c) => Reported(c)'
           /\ \A list : Made(list) => Made(list)'
<1>0. results \in Seq(Bundle) /\ Len(results) \in Nat
  BY DEF IntakeInv, BundleInv
<1>1. \A k \in DOMAIN results : k \in DOMAIN results' /\ results'[k] = results[k]
  BY <1>0
<1>2. \A c : Reported(c) => Reported(c)'
  BY <1>1 DEF Reported
<1>3. QED
  BY <1>2 DEF Made

\* One more bundle.
LEMMA ResearchKeeps ==
    ASSUME IntakeInv, NEW i \in Issues, Research(i), UNCHANGED past
    PROVE  IntakeInv'
<1>0. /\ researched' = researched \cup {i} /\ i \notin researched
      /\ UNCHANGED <<blocked, evidence, seen, notes, torn, drops, writeFaults, crashes>>
      /\ UNCHANGED <<reopened, unmarked>>
  BY DEF Research, Selectable, store, faults, past
<1>1. results \in Seq(Bundle) /\ Len(results) \in Nat
  BY DEF IntakeInv, BundleInv
<1>2. CASE \E b \in BundlesOf[i] : results' = Append(results, b)
  <2>1. PICK b \in BundlesOf[i] : results' = Append(results, b)
    BY <1>2
  <2>2. WellMade(b, i) /\ b \in Bundle /\ b.from = From(i)
    BY BundlesWellMade, WellMadeType
  <2>3. /\ results' \in Seq(Bundle)
        /\ DOMAIN results' = 1..(Len(results) + 1)
        /\ \A k \in 1..Len(results) : k \in DOMAIN results /\ results'[k] = results[k]
        /\ results'[Len(results) + 1] = b
    BY <1>1, <2>1, <2>2
  <2>4. \A k \in DOMAIN results' : k \in 1..Len(results) \/ k = Len(results) + 1
    BY <1>1, <2>3
  <2>5. \A k \in DOMAIN results' : \E j \in researched' \cup reopened' : WellMade(results'[k], j)
    BY <1>0, <2>2, <2>3, <2>4 DEF IntakeInv, BundleInv
  <2>6. ASSUME NEW k \in 1..Len(results), results'[k].from = From(i) PROVE i \in reopened
    <3>1. PICK j \in researched \cup reopened : WellMade(results[k], j)
      BY <2>3 DEF IntakeInv, BundleInv
    <3>2. j \in Issues
      BY <1>0, <3>1 DEF IntakeInv, BundleInv
    <3>3. results[k].from = From(j)
      BY <3>1, <3>2, WellMadeType
    <3>4. j = i
      BY <2>3, <2>6, <3>2, <3>3, NamesDiffer
    <3>5. QED
      BY <1>0, <3>1, <3>4
  <2>7. \A j, k \in DOMAIN results' :
           (results'[j].from = results'[k].from /\ ~Reopened(results[j])') => j = k
    <3> SUFFICES ASSUME NEW j \in DOMAIN results', NEW k \in DOMAIN results',
                        results'[j].from = results'[k].from, ~Reopened(results[j])'
                 PROVE  j = k
      OBVIOUS
    <3>0. \A h \in reopened : results'[j].from # From(h)
      BY <1>0 DEF Reopened
    <3>1. CASE j \in 1..Len(results) /\ k \in 1..Len(results)
      <4>1. ~Reopened(results[j])
        BY <2>3, <3>0, <3>1 DEF Reopened
      <4>2. QED
        BY <2>3, <3>1, <4>1 DEF IntakeInv, BundleInv
    <3>2. CASE j = Len(results) + 1 /\ k \in 1..Len(results)
      BY <2>2, <2>3, <2>6, <3>0, <3>2
    <3>3. CASE k = Len(results) + 1 /\ j \in 1..Len(results)
      BY <2>2, <2>3, <2>6, <3>0, <3>3
    <3>4. QED
      BY <2>4, <3>1, <3>2, <3>3
  <2>8. Made(evidence)'
    <3>1. Made(evidence) /\ \A list : Made(list) => Made(list)'
      BY <2>1, <2>2, ReportedStays DEF IntakeInv, BundleInv
    <3>2. QED
      BY <1>0, <3>1 DEF Made, Reported
  <2>9. BundleInv'
    BY <1>0, <2>3, <2>5, <2>7, <2>8 DEF IntakeInv, BundleInv
  <2>10. NotesOf \subseteq NotesOf'
    BY <2>3 DEF NotesOf
  <2>11. QED
    BY <1>0, <2>9, <2>10 DEF IntakeInv, StoreInv
<1>3. CASE UNCHANGED results
  <2>1. BundleInv'
    BY <1>0, <1>3 DEF IntakeInv, BundleInv, Made, Reported, Reopened
  <2>2. NotesOf' = NotesOf
    BY <1>3 DEF NotesOf
  <2>3. QED
    BY <1>0, <2>1, <2>2 DEF IntakeInv, StoreInv
<1>4. QED
  BY <1>2, <1>3 DEF Research

\* The writes of notes.
LEMMA StoreKept ==
    ASSUME IntakeInv, NEW w, StoreAfter(w)
    PROVE  /\ notes' \subseteq NotesOf /\ torn' \subseteq notes' /\ notes' \subseteq Notes
           /\ Outcome(w, "saved") \subseteq Notes /\ Outcome(w, "torn") \subseteq Notes
           /\ Marked(w) \subseteq Paths
<1>1. Outcome(w, "saved") \subseteq NotesOf /\ Outcome(w, "torn") \subseteq NotesOf
  BY DEF Outcome
<1>2. NotesOf \subseteq Notes /\ Notes \subseteq Paths
  BY NotesOfType DEF IntakeInv, Paths
<1>3. QED
  BY <1>1, <1>2 DEF StoreAfter, Written, IntakeInv, StoreInv, Marked

\* What the fold appends: the bundles the reducer kept, then those of the files read.
LEMMA Folded ==
    ASSUME IntakeInv, NEW w, NEW files \in Listed(w), StoreAfter(w), UNCHANGED drops,
           ScanAll(w, files) \/ ScanAborts(w, files)
    PROVE  LET E == Len(evidence)
               R == Len(results)
           IN  /\ E \in Nat /\ R \in Nat
               /\ evidence' \in Seq(Bundle)
               /\ ScanAll(w, files) => DOMAIN evidence' = 1..(E + R + Len(files))
               /\ ~ScanAll(w, files) => DOMAIN evidence' = 1..(E + R)
               /\ \A k \in 1..E : evidence'[k] = evidence[k]
               /\ \A k \in 1..R : evidence'[E + k] = results[k]
               /\ ScanAll(w, files) =>
                     \A k \in 1..Len(files) : /\ evidence'[E + R + k] = FileBundle(files[k])
                                              /\ FileMade(evidence'[E + R + k], files[k])
<1> DEFINE E == Len(evidence)
           R == Len(results)
           new == [k \in DOMAIN files |-> FileBundle(files[k])]
<1>0. evidence \in Seq(Bundle) /\ results \in Seq(Bundle) /\ E \in Nat /\ R \in Nat
  BY DEF IntakeInv, BundleInv, Made
<1>1. Unread(w) \subseteq Paths
  BY StoreKept DEF Unread, OnDisk, Paths, Dropped
<1>2. files \in Seq(Paths) /\ DOMAIN files = 1..Len(files) /\ Len(files) \in Nat
  BY <1>1, ListedOnce
<1>3. \A k \in DOMAIN files : FileMade(FileBundle(files[k]), files[k])
  BY <1>2, FileBundleMade
<1>4. /\ evidence \o results \in Seq(Bundle)
      /\ DOMAIN (evidence \o results) = 1..(E + R)
      /\ \A k \in 1..E : (evidence \o results)[k] = evidence[k]
      /\ \A k \in 1..R : (evidence \o results)[E + k] = results[k]
  <2>1. /\ evidence \o results \in Seq(Bundle)
        /\ DOMAIN (evidence \o results) = 1..(E + R)
        /\ \A k \in 1..(E + R) :
              (evidence \o results)[k] = IF k <= E THEN evidence[k] ELSE results[k - E]
    BY <1>0, Joined
  <2> HIDE DEF E, R
  <2>2. \A k \in 1..E : k \in 1..(E + R) /\ k <= E
    BY <1>0
  <2>3. \A k \in 1..R : E + k \in 1..(E + R) /\ ~(E + k <= E) /\ (E + k) - E = k
    BY <1>0
  <2>4. \A k \in 1..E : (evidence \o results)[k] = evidence[k]
    BY <2>1, <2>2
  <2>5. \A k \in 1..R : (evidence \o results)[E + k] = results[k]
    BY <2>1, <2>3
  <2>6. QED
    BY <2>1, <2>4, <2>5
<1>5. CASE ScanAll(w, files)
  <2>1. evidence' = evidence \o results \o new
    BY <1>5 DEF ScanAll
  <2>2. new \in Seq(Bundle) /\ Len(new) = Len(files)
    <3>1. new \in [1..Len(files) -> Bundle]
      BY <1>2, <1>3 DEF FileMade
    <3>2. QED
      BY <1>2, <3>1
  <2>3. /\ evidence' \in Seq(Bundle)
        /\ DOMAIN evidence' = 1..(E + R + Len(files))
        /\ \A k \in 1..(E + R + Len(files)) :
              evidence'[k] = IF k <= E + R THEN (evidence \o results)[k]
                             ELSE new[k - (E + R)]
    <3> HIDE DEF new
    <3>1. /\ evidence \o results \o new \in Seq(Bundle)
          /\ DOMAIN (evidence \o results \o new) = 1..(E + R + Len(new))
          /\ \A k \in 1..(E + R + Len(new)) :
                (evidence \o results \o new)[k] =
                   IF k <= E + R THEN (evidence \o results)[k] ELSE new[k - (E + R)]
      <4>1. PICK q \in Seq(Bundle) : q = new
        BY <2>2
      <4>2. PICK front \in Seq(Bundle) : front = evidence \o results /\ Len(front) = E + R
        BY <1>0, Joined
      <4> HIDE DEF E, R
      <4>3. /\ front \o q \in Seq(Bundle)
            /\ DOMAIN (front \o q) = 1..(Len(front) + Len(q))
            /\ \A k \in 1..(Len(front) + Len(q)) :
                  (front \o q)[k] = IF k <= Len(front) THEN front[k] ELSE q[k - Len(front)]
        BY Joined
      <4>4. QED
        BY <4>1, <4>2, <4>3
    <3> HIDE DEF E, R
    <3>2. QED
      BY <2>1, <2>2, <3>1
  <2>4. \A k \in 1..Len(files) : new[k] = FileBundle(files[k])
    BY <1>2
  <2> HIDE DEF E, R, new
  <2>5. \A k \in 1..(E + R) : k \in 1..(E + R + Len(files)) /\ k <= E + R
    BY <1>0, <1>2
  <2>6. \A k \in 1..Len(files) : /\ E + R + k \in 1..(E + R + Len(files))
                                 /\ ~(E + R + k <= E + R)
                                 /\ (E + R + k) - (E + R) = k
    BY <1>0, <1>2
  <2>7. \A k \in 1..(E + R) : evidence'[k] = (evidence \o results)[k]
    BY <2>3, <2>5
  <2>8. \A k \in 1..Len(files) : evidence'[E + R + k] = FileBundle(files[k])
    BY <2>3, <2>4, <2>6
  <2>9. /\ \A k \in 1..E : k \in 1..(E + R)
        /\ \A k \in 1..R : E + k \in 1..(E + R)
    BY <1>0
  <2>10. /\ \A k \in 1..E : evidence'[k] = evidence[k]
         /\ \A k \in 1..R : evidence'[E + k] = results[k]
    BY <1>4, <2>7, <2>9
  <2>11. \A k \in 1..Len(files) : FileMade(evidence'[E + R + k], files[k])
    BY <1>2, <1>3, <2>8
  <2>12. QED
    BY <1>0, <1>5, <2>3, <2>8, <2>10, <2>11 DEF E, R
<1>6. CASE ~ScanAll(w, files)
  <2>1. evidence' = evidence \o results
    BY <1>6 DEF ScanAborts
  <2>2. QED
    BY <1>0, <1>4, <1>6, <2>1
<1>7. QED
  BY <1>5, <1>6

\* Where an element of the evidence comes from after the fold.
LEMMA FoldedFrom ==
    ASSUME IntakeInv, NEW w, NEW files \in Listed(w), StoreAfter(w), UNCHANGED drops,
           ScanAll(w, files) \/ ScanAborts(w, files), NEW k \in DOMAIN evidence'
    PROVE  \/ k \in DOMAIN evidence /\ evidence'[k] = evidence[k]
           \/ \E j \in DOMAIN results, i \in Issues :
                 /\ k = Len(evidence) + j
                 /\ evidence'[k] = results[j] /\ results[j].from = From(i)
           \/ /\ ScanAll(w, files)
              /\ \E j \in DOMAIN files : /\ k = Len(evidence) + Len(results) + j
                                         /\ evidence'[k] = FileBundle(files[j])
                                         /\ FileMade(evidence'[k], files[j])
<1> DEFINE E == Len(evidence)
           R == Len(results)
<1>1. Unread(w) \subseteq Paths
  BY StoreKept DEF Unread, OnDisk, Paths, Dropped
<1>2. DOMAIN files = 1..Len(files) /\ Len(files) \in Nat
  BY <1>1, ListedOnce
<1>3. /\ E \in Nat /\ R \in Nat
      /\ ScanAll(w, files) => DOMAIN evidence' = 1..(E + R + Len(files))
      /\ ~ScanAll(w, files) => DOMAIN evidence' = 1..(E + R)
      /\ \A j \in 1..E : evidence'[j] = evidence[j]
      /\ \A j \in 1..R : evidence'[E + j] = results[j]
      /\ ScanAll(w, files) =>
            \A j \in 1..Len(files) : /\ evidence'[E + R + j] = FileBundle(files[j])
                                     /\ FileMade(evidence'[E + R + j], files[j])
  BY Folded
<1>4. DOMAIN evidence = 1..E /\ DOMAIN results = 1..R
  BY DEF IntakeInv, BundleInv, Made
<1>5. \A j \in DOMAIN results : \E i \in Issues : results[j].from = From(i)
  BY WellMadeType DEF IntakeInv, BundleInv
<1> HIDE DEF E, R
<1>6. CASE k \in 1..E
  BY <1>3, <1>4, <1>6
<1>7. CASE k \in (E + 1)..(E + R)
  <2>1. k - E \in 1..R /\ k = E + (k - E)
    BY <1>3, <1>7
  <2>2. PICK j \in 1..R : k = E + j
    BY <2>1
  <2>3. evidence'[k] = results[j]
    BY <1>3, <2>2
  <2>4. QED
    BY <1>4, <1>5, <2>2, <2>3 DEF E
<1>8. CASE ScanAll(w, files) /\ k \in (E + R + 1)..(E + R + Len(files))
  <2>1. k - (E + R) \in 1..Len(files) /\ k = E + R + (k - (E + R))
    BY <1>2, <1>3, <1>8
  <2>2. PICK j \in 1..Len(files) : k = E + R + j
    BY <2>1
  <2>3. evidence'[k] = FileBundle(files[j]) /\ FileMade(evidence'[k], files[j])
    BY <1>3, <1>8, <2>2
  <2>4. QED
    BY <1>2, <1>8, <2>2, <2>3 DEF E, R
<1>9. QED
  BY <1>2, <1>3, <1>6, <1>7, <1>8

LEMMA CollectKeeps ==
    ASSUME IntakeInv, NEW w \in WriteOutcomes, Collect(w), UNCHANGED past
    PROVE  IntakeInv'
<1>1. /\ IF Outcome(w, "saved") = NotesOf
         THEN UNCHANGED writeFaults
         ELSE writeFaults < MaxFaults /\ writeFaults' = writeFaults + 1
      /\ StoreAfter(w)
      /\ \E files \in Listed(w) : ScanAll(w, files) \/ ScanAborts(w, files)
      /\ UNCHANGED <<researched, blocked, results, drops, crashes, reopened, unmarked>>
  BY DEF Collect, past
<1>2. PICK files \in Listed(w) : ScanAll(w, files) \/ ScanAborts(w, files)
  BY <1>1
<1>3. Unread(w) \subseteq Paths
  BY <1>1, StoreKept DEF Unread, OnDisk, Paths, Dropped
<1>4. files \in Seq(Paths)
  BY <1>3, ListedOnce
<1>5. evidence' \in Seq(Bundle)
  BY <1>1, <1>2, Folded
<1>6. results' = results /\ researched' = researched /\ reopened' = reopened
  BY <1>1
<1>7. ASSUME NEW k \in DOMAIN evidence'
      PROVE  (\E j \in DOMAIN results' : evidence'[k] = results'[j])
             \/ \E p \in Paths : FileMade(evidence'[k], p)
  <2>1. CASE k \in DOMAIN evidence /\ evidence'[k] = evidence[k]
    BY <1>6, <2>1 DEF IntakeInv, BundleInv, Made, Reported
  <2>2. CASE \E j \in DOMAIN results : evidence'[k] = results[j]
    BY <1>6, <2>2
  <2>3. CASE \E j \in DOMAIN files : FileMade(evidence'[k], files[j])
    <3>1. \A j \in DOMAIN files : files[j] \in Paths
      BY <1>4
    <3>2. QED
      BY <2>3, <3>1
  <2>4. QED
    BY <1>1, <1>2, <2>1, <2>2, <2>3, FoldedFrom
<1>8. BundleInv'
  <2>1. \A k \in DOMAIN evidence' :
           Reported(evidence[k])' \/ \E p \in Paths : FileMade(evidence'[k], p)
    BY <1>7 DEF Reported
  <2>2. Made(evidence)'
    BY <1>5, <2>1 DEF Made
  <2>3. QED
    BY <1>6, <2>2 DEF IntakeInv, BundleInv, Reopened
<1>9. seen' \subseteq Paths
  <2>1. Marked(w) \subseteq Paths
    BY <1>1, StoreKept
  <2>2. \A k \in DOMAIN files : files[k] \in Paths
    BY <1>4
  <2>3. QED
    BY <1>2, <2>1, <2>2 DEF ScanAll, ScanAborts, ReadMarks
<1>10. NotesOf' = NotesOf
  BY <1>6 DEF NotesOf
<1>11. writeFaults' \in 0..MaxFaults
  BY <1>1, IntakeAssumption DEF IntakeInv, StoreInv
<1>12. notes' \subseteq NotesOf' /\ torn' \subseteq notes'
  BY <1>1, <1>10, StoreKept
<1>13. StoreInv'
  BY <1>1, <1>9, <1>11, <1>12 DEF IntakeInv, StoreInv
<1>14. QED
  BY <1>8, <1>13 DEF IntakeInv
\* An issue handed to a human.
Handover == /\ \E i \in Issues : blocked' = blocked \cup {i}
            /\ UNCHANGED <<researched, results, evidence, seen, store, faults>>

IntakeStep ==
    /\ \/ \E i \in Issues : Research(i)
       \/ \E f \in Files : DropFile(f)
       \/ \E w \in WriteOutcomes : Collect(w) \/ CrashInCollect(w)
       \/ Handover
       \/ UNCHANGED intake
    /\ UNCHANGED past

LEMMA OnlyIntakeSteps == ASSUME [Next]_vars PROVE IntakeStep \/ Restart
<1>1. CASE Next
  <2>1. CASE \E i \in Issues : FanOut(i)
    BY <2>1 DEF FanOut, IntakeStep
  <2>2. CASE \E i \in Issues : Push(i)
    BY <2>2 DEF Push, IntakeStep, Handover
  <2>3. CASE \E f \in Files : DropAFile(f)
    BY <2>3 DEF DropAFile, IntakeStep
  <2>4. CASE Fold \/ CrashInFold
    BY <2>4 DEF Fold, CrashInFold, IntakeStep
  <2>5. CASE \/ AlbertAudit \/ Record \/ ArtifactUpdate
             \/ NextRound \/ Stop \/ Deep \/ Review
    BY <2>5 DEF AlbertAudit, Record, ArtifactUpdate, NextRound, Stop, Deep, Review, IntakeStep
  <2>6. QED
    BY <1>1, <2>1, <2>2, <2>3, <2>4, <2>5 DEF Next
<1>2. CASE UNCHANGED vars
  BY <1>2 DEF vars, IntakeStep
<1>3. QED
  BY <1>1, <1>2

\* Steps that leave the bundles and the evidence alone.
LEMMA SameBundles ==
    ASSUME IntakeInv, UNCHANGED <<researched, results, evidence, past>>
    PROVE  BundleInv' /\ NotesOf' = NotesOf /\ unmarked' = unmarked
<1>1. /\ researched' = researched /\ results' = results /\ evidence' = evidence
      /\ reopened' = reopened /\ unmarked' = unmarked
  BY DEF past
<1>2. QED
  BY <1>1 DEF IntakeInv, BundleInv, Made, Reported, Reopened, NotesOf

LEMMA IntakeKept == ASSUME IntakeInv, IntakeStep PROVE IntakeInv'
<1>0. UNCHANGED past
  BY DEF IntakeStep
<1>1. CASE \E i \in Issues : Research(i)
  BY <1>0, <1>1, ResearchKeeps
<1>2. CASE \E w \in WriteOutcomes : Collect(w)
  BY <1>0, <1>2, CollectKeeps
<1>3. CASE \E w \in WriteOutcomes : CrashInCollect(w)
  <2>1. PICK w \in WriteOutcomes : StoreAfter(w) /\ seen' = seen \ Written(w)
    BY <1>3 DEF CrashInCollect
  <2>2. /\ BundleInv' /\ NotesOf' = NotesOf /\ unmarked' = unmarked
        /\ UNCHANGED <<blocked, drops, writeFaults>>
        /\ crashes < MaxFaults /\ crashes' = crashes + 1
    BY <1>0, <1>3, SameBundles DEF CrashInCollect
  <2>3. notes' \subseteq NotesOf' /\ torn' \subseteq notes' /\ seen' \subseteq Paths
    BY <2>1, <2>2, StoreKept DEF IntakeInv, StoreInv
  <2>4. crashes' \in 0..MaxFaults
    BY <2>2, IntakeAssumption DEF IntakeInv, StoreInv
  <2>5. QED
    BY <2>2, <2>3, <2>4 DEF IntakeInv, StoreInv
<1>4. CASE \E f \in Files : DropFile(f)
  <2>1. PICK f \in Files : DropFile(f)
    BY <1>4
  <2>2. /\ BundleInv' /\ NotesOf' = NotesOf /\ unmarked' = unmarked
        /\ UNCHANGED <<blocked, notes, torn, writeFaults, crashes>>
        /\ seen' = seen \ {Drop(f)}
    BY <1>0, <2>1, SameBundles DEF DropFile, faults
  <2>3. drops' \in [Files -> 0..MaxDrops]
    BY <2>1, IntakeAssumption DEF DropFile, IntakeInv, StoreInv
  <2>4. QED
    BY <2>2, <2>3 DEF IntakeInv, StoreInv
<1>5. CASE Handover \/ UNCHANGED intake
  <2>1. /\ BundleInv' /\ NotesOf' = NotesOf /\ unmarked' = unmarked
        /\ UNCHANGED <<seen, drops, notes, torn, writeFaults, crashes>>
    BY <1>0, <1>5, SameBundles DEF Handover, intake, store, faults
  <2>2. blocked' \subseteq Issues
    BY <1>5 DEF Handover, intake, IntakeInv, StoreInv
  <2>3. QED
    BY <2>1, <2>2 DEF IntakeInv, StoreInv
<1>6. QED
  BY <1>1, <1>2, <1>3, <1>4, <1>5 DEF IntakeStep

\* The intake of every saved state is as the run's was when it was saved.
SavedIntake ==
    /\ SavedShape
    /\ \A s \in saved :
        /\ s.researched \subseteq Issues
        /\ s.blocked \subseteq Issues
        /\ s.seen \subseteq Paths
        /\ Made(s.evidence)

IntakesInv == IntakeInv /\ SavedIntake

LEMMA IntakesStart == Init => IntakesInv
<1> SUFFICES ASSUME Init PROVE IntakesInv
  OBVIOUS
<1>1. saved = {Fresh}
  BY DEF Init
<1>2. SavedIntake
  BY <1>1 DEF SavedIntake, SavedShape, Fresh, Made
<1>3. QED
  BY <1>2, IntakeStart DEF IntakesInv

\* A restart: what the thread keeps, with the state that was loaded.
LEMMA RestartIntake ==
    ASSUME IntakesInv, Restart
    PROVE  IntakeInv'
<1>1. PICK s \in saved :
             /\ researched' = s.researched /\ blocked' = s.blocked
             /\ evidence' = s.evidence /\ seen' = s.seen
             /\ reopened' = reopened \cup (researched \ s.researched)
             /\ unmarked' = unmarked \cup ((seen \ s.seen) \cap Notes)
  BY DEF Restart
<1>2. /\ s.researched \subseteq Issues /\ s.blocked \subseteq Issues /\ s.seen \subseteq Paths
      /\ Made(s.evidence)
  BY DEF IntakesInv, SavedIntake
<1>3. UNCHANGED <<results, notes, torn, drops, writeFaults, crashes>>
  BY DEF Restart, store, faults
<1>4. BundleInv /\ StoreInv
  BY DEF IntakesInv, IntakeInv
<1>5. Made(evidence)'
  BY <1>1, <1>2, <1>3 DEF Made, Reported
<1>6. researched \cup reopened \subseteq researched' \cup reopened'
  BY <1>1
<1>7. \A j \in DOMAIN results' : ~Reopened(results[j])' => ~Reopened(results[j])
  BY <1>1, <1>3 DEF Reopened
<1>8. BundleInv'
  BY <1>1, <1>2, <1>3, <1>4, <1>5, <1>6, <1>7 DEF BundleInv
<1>9. StoreInv'
  BY <1>1, <1>2, <1>3, <1>4 DEF StoreInv, NotesOf
<1>10. QED
  BY <1>8, <1>9 DEF IntakeInv

LEMMA ResultsGrow ==
    ASSUME IntakesInv, [Next]_vars
    PROVE  \A list : Made(list) => Made(list)'
<1>1. CASE \E i \in Issues : Research(i)
  <2>1. PICK i \in Issues : Research(i)
    BY <1>1
  <2>2. \A b \in BundlesOf[i] : b \in Bundle
    BY BundlesWellMade, WellMadeType
  <2>3. QED
    BY <2>1, <2>2, ReportedStays DEF Research, IntakesInv
<1>2. CASE UNCHANGED results
  BY <1>2, ReportedStays DEF IntakesInv
<1>3. CASE IntakeStep
  BY <1>1, <1>2, <1>3 DEF IntakeStep, DropFile, Collect, CrashInCollect, Handover, intake
<1>4. CASE Restart
  BY <1>2, <1>4 DEF Restart
<1>5. QED
  BY <1>3, <1>4, OnlyIntakeSteps

LEMMA IntakesStep == ASSUME IntakesInv, [Next]_vars PROVE IntakesInv'
<1>1. IntakeInv'
  BY OnlyIntakeSteps, IntakeKept, RestartIntake DEF IntakesInv
<1>2. SavedShape' /\ \A t \in saved' : t = State' \/ \E s \in saved : Like(t, s)
  BY SavedStep DEF IntakesInv, SavedIntake
<1>3. SavedIntake'
  <2> SUFFICES ASSUME NEW t \in saved'
               PROVE  /\ t.researched \subseteq Issues /\ t.blocked \subseteq Issues
                      /\ t.seen \subseteq Paths
                      /\ Made(t.evidence)'
    BY <1>2 DEF SavedIntake
  <2>1. CASE t = State'
    <3>1. /\ t.researched = researched' /\ t.blocked = blocked' /\ t.seen = seen'
          /\ t.evidence = evidence'
      BY <2>1 DEF State
    <3>2. QED
      BY <1>1, <3>1 DEF IntakeInv, BundleInv, StoreInv
  <2>2. CASE \E s \in saved : Like(t, s)
    <3>1. PICK s \in saved : Like(t, s)
      BY <2>2
    <3>2. /\ t.researched \subseteq Issues /\ t.blocked \subseteq Issues /\ t.seen \subseteq Paths
          /\ t.evidence = s.evidence /\ Made(s.evidence)
      BY <3>1 DEF Like, IntakesInv, SavedIntake
    <3>3. QED
      BY <3>2, ResultsGrow
  <2>3. QED
    BY <1>2, <2>1, <2>2
<1>4. QED
  BY <1>1, <1>3 DEF IntakesInv

LEMMA IntakeAlways == Spec => []IntakesInv
BY IntakesStart, IntakesStep, PTL DEF Spec

--------------------------------------------------------------------------------
(* A claim and the sources it is looked up in.                                 *)

\* What a bundle of the evidence cites it has, each id once.
LEMMA CitesItsOwn ==
    ASSUME BundleInv, NEW k \in DOMAIN evidence
    PROVE  /\ OneEach(evidence[k].sources)
           /\ \A c \in evidence[k].claims : c.refs \subseteq IdsOf(evidence[k].sources)
<1>1. CASE Reported(evidence[k])
  <2>1. PICK j \in DOMAIN results : evidence[k] = results[j]
    BY <1>1 DEF Reported
  <2>2. PICK i \in Issues : WellMade(results[j], i)
    BY DEF BundleInv
  <2>3. QED
    BY <2>1, <2>2 DEF WellMade
<1>2. CASE \E p \in Paths : FileMade(evidence[k], p)
  <2>1. PICK p \in Paths : FileMade(evidence[k], p)
    BY <1>2
  <2>2. FileSource(p).id = p
    BY DEF FileSource
  <2>3. QED
    BY <2>1, <2>2 DEF FileMade, OneEach, IdsOf
<1>3. QED
  BY <1>1, <1>2 DEF BundleInv, Made

\* A source in the evidence is one of a bundle or a file's.
LEMMA SourceOrigin ==
    ASSUME BundleInv, NEW m \in DOMAIN evidence, NEW x \in evidence[m].sources
    PROVE  \/ \E n \in DOMAIN results, i \in Issues, y \in Slots :
                 /\ evidence[m] = results[n] /\ WellMade(results[n], i)
                 /\ x.id = WebId(i, y) /\ x.origin = "web"
           \/ \E p \in Paths : x = FileSource(p) /\ evidence[m].from = p
<1>0. Made(evidence)
  BY DEF BundleInv
<1>1. CASE Reported(evidence[m])
  <2>1. PICK n \in DOMAIN results : evidence[m] = results[n]
    BY <1>1 DEF Reported
  <2>2. PICK i \in Issues : WellMade(results[n], i)
    BY DEF BundleInv
  <2>3. PICK y \in Slots : x.id = WebId(i, y) /\ x.origin = "web"
    BY <2>1, <2>2 DEF WellMade, WebSources
  <2>4. QED
    BY <2>1, <2>2, <2>3
<1>2. CASE \E p \in Paths : FileMade(evidence[m], p)
  BY <1>2 DEF FileMade
<1>3. QED
  BY <1>0, <1>1, <1>2 DEF Made

\* Sources of the same id stand in bundles of the same issue or file.
LEMMA SameIdSameFrom ==
    ASSUME BundleInv, NEW j \in DOMAIN evidence, NEW k \in DOMAIN evidence,
           NEW s \in evidence[j].sources, NEW u \in evidence[k].sources, s.id = u.id
    PROVE  /\ evidence[j].from = evidence[k].from
           /\ \/ \E p \in Paths : s = FileSource(p) /\ u = FileSource(p)
              \/ /\ s.origin = "web"
                 /\ \E n, m \in DOMAIN results, i \in Issues :
                       /\ evidence[j] = results[n] /\ WellMade(results[n], i)
                       /\ evidence[k] = results[m] /\ WellMade(results[m], i)
<1>2. \A p \in Paths : FileSource(p).id = p
  BY DEF FileSource
<1>3. CASE \E p \in Paths : s = FileSource(p) /\ evidence[j].from = p
  <2>1. PICK p \in Paths : s = FileSource(p) /\ evidence[j].from = p
    BY <1>3
  <2>2. ASSUME NEW i \in Issues, NEW y \in Slots PROVE u.id # WebId(i, y)
    BY <1>2, <2>1, NamesDiffer
  <2>3. PICK q \in Paths : u = FileSource(q) /\ evidence[k].from = q
    BY <2>2, SourceOrigin
  <2>4. p = q
    BY <1>2, <2>1, <2>3
  <2>5. QED
    BY <2>1, <2>3, <2>4
<1>4. CASE \E n \in DOMAIN results, i \in Issues, y \in Slots :
              /\ evidence[j] = results[n] /\ WellMade(results[n], i)
              /\ s.id = WebId(i, y) /\ s.origin = "web"
  <2>1. PICK n \in DOMAIN results, i \in Issues, y \in Slots :
               /\ evidence[j] = results[n] /\ WellMade(results[n], i)
               /\ s.id = WebId(i, y) /\ s.origin = "web"
    BY <1>4
  <2>2. PICK m \in DOMAIN results, g \in Issues, z \in Slots :
               /\ evidence[k] = results[m] /\ WellMade(results[m], g) /\ u.id = WebId(g, z)
    <3>1. ASSUME NEW p \in Paths PROVE u # FileSource(p)
      <4>1. WebId(i, y) # p
        BY NamesDiffer
      <4>2. QED
        BY <1>2, <2>1, <4>1
    <3>2. QED
      BY <3>1, SourceOrigin
  <2>3. i = g
    <3>1. WebId(i, y) = WebId(g, z)
      BY <2>1, <2>2
    <3>2. QED
      BY <3>1, NamesDiffer
  <2>4. results[n].from = From(i) /\ results[m].from = From(i)
    BY <2>1, <2>2, <2>3, WellMadeType
  <2>5. QED
    BY <2>1, <2>2, <2>3, <2>4
<1>5. QED
  BY <1>3, <1>4, SourceOrigin

\* Unless a restart has let its issue be researched again, they are the same source.
LEMMA SameIdSameSource ==
    ASSUME BundleInv, NEW j \in DOMAIN evidence, NEW k \in DOMAIN evidence,
           NEW s \in evidence[j].sources, NEW u \in evidence[k].sources, s.id = u.id,
           ~Reopened(evidence[k])
    PROVE  s = u
<1>1. CASE \E p \in Paths : s = FileSource(p) /\ u = FileSource(p)
  BY <1>1
<1>2. CASE \E n, m \in DOMAIN results, i \in Issues :
              /\ evidence[j] = results[n] /\ WellMade(results[n], i)
              /\ evidence[k] = results[m] /\ WellMade(results[m], i)
  <2>1. PICK n \in DOMAIN results, m \in DOMAIN results, i \in Issues :
               /\ evidence[j] = results[n] /\ WellMade(results[n], i)
               /\ evidence[k] = results[m] /\ WellMade(results[m], i)
    BY <1>2
  <2>2. results[n].from = From(i) /\ results[m].from = From(i)
    BY <2>1, WellMadeType
  <2>3. m = n
    BY <2>1, <2>2 DEF BundleInv
  <2>4. QED
    BY <2>1, <2>3 DEF WellMade, OneEach
<1>3. QED
  BY <1>1, <1>2, SameIdSameFrom

\* The source that a cited id is looked up to.
LEMMA LookedUp ==
    ASSUME BundleInv, NEW k \in DOMAIN evidence, NEW s \in evidence[k].sources
    PROVE  /\ BundlesWith(s.id) # {}
           /\ ~Reopened(evidence[k]) => Lookup(s.id) = s
           /\ Reopened(evidence[k]) =>
                 /\ Lookup(s.id).id = s.id
                 /\ Lookup(s.id).origin = "web"
                 /\ \E j \in DOMAIN evidence : /\ evidence[j].from = evidence[k].from
                                              /\ Lookup(s.id) \in evidence[j].sources
<1> DEFINE B == BundlesWith(s.id)
<1>1. k \in B
  BY DEF BundlesWith
<1>2. Len(evidence) \in Nat /\ B \in SUBSET (0..Len(evidence))
  BY DEF BundlesWith, BundleInv, Made
<1>3. \E l \in B : \A j \in B : j <= l
  <2> HIDE DEF B
  <2>1. QED
    BY <1>1, <1>2, GreatestNat
<1>4. LastWith(s.id) \in B
  BY <1>3 DEF LastWith
<1>5. /\ LastWith(s.id) \in DOMAIN evidence
      /\ \E u \in evidence[LastWith(s.id)].sources : u.id = s.id
  BY <1>4 DEF BundlesWith
<1>6. Lookup(s.id) \in evidence[LastWith(s.id)].sources /\ Lookup(s.id).id = s.id
  BY <1>5 DEF Lookup
<1>7. ~Reopened(evidence[k]) => Lookup(s.id) = s
  BY <1>5, <1>6, SameIdSameSource
<1>8. ASSUME Reopened(evidence[k])
      PROVE  /\ Lookup(s.id).origin = "web"
             /\ evidence[LastWith(s.id)].from = evidence[k].from
  <2>1. PICK i \in Issues : evidence[k].from = From(i)
    BY <1>8 DEF Reopened, BundleInv
  <2>2. \A p \in Paths : s # FileSource(p) \/ evidence[k].from # p
    BY <2>1, NamesDiffer
  <2>3. PICK g \in Issues, y \in Slots : s.id = WebId(g, y)
    BY <2>2, SourceOrigin
  <2>4. \A p \in Paths : s # FileSource(p)
    BY <2>3, NamesDiffer DEF FileSource
  <2>5. QED
    BY <1>5, <1>6, <2>4, SameIdSameFrom
<1>9. QED
  BY <1>1, <1>5, <1>6, <1>7, <1>8

LEMMA DecidedByItsOwn ==
    ASSUME BundleInv, NEW k \in DOMAIN evidence, NEW c \in evidence[k].claims,
           ~Reopened(evidence[k])
    PROVE  Verified(c) = VerifiedBy(c, {s \in evidence[k].sources : s.id \in c.refs})
<1> DEFINE found == {Lookup(r) : r \in {q \in c.refs : BundlesWith(q) # {}}}
           own == {s \in evidence[k].sources : s.id \in c.refs}
<1>1. c.refs \subseteq IdsOf(evidence[k].sources)
  BY CitesItsOwn
<1>2. \A r \in c.refs : \E s \in evidence[k].sources :
         s.id = r /\ BundlesWith(r) # {} /\ Lookup(r) = s
  BY <1>1, LookedUp DEF IdsOf
<1>3. found = own
  BY <1>2, LookedUp
<1>4. QED
  BY <1>3 DEF Verified

\* The memo decides every claim as the sources of its own bundle would, unless a restart
\* on an earlier state has let the issue be researched again under the same source ids.
THEOREM ClaimsDecidedByOwnSources == Spec => []OwnSourcesDecide
<1>1. IntakesInv => OwnSourcesDecide
  BY DecidedByItsOwn DEF IntakesInv, IntakeInv, OwnSourcesDecide
<1>2. QED
  BY IntakeAlways, <1>1, PTL

\* Also then, no claim is verified but by a source of its own issue that holds its quote.
LEMMA VerifiedBorneOut ==
    ASSUME BundleInv, NEW k \in DOMAIN evidence, NEW c \in evidence[k].claims, Verified(c)
    PROVE  BorneOut(c, k)
<1>1. CASE ~Reopened(evidence[k])
  <2>1. VerifiedBy(c, {s \in evidence[k].sources : s.id \in c.refs})
    BY <1>1, DecidedByItsOwn
  <2>2. UNION {evidence[j].sources : j \in Speaking(k)} = evidence[k].sources
    BY <1>1 DEF Speaking
  <2>3. QED
    BY <2>1, <2>2 DEF BorneOut
<1>2. CASE Reopened(evidence[k])
  <2> DEFINE found == {Lookup(r) : r \in {q \in c.refs : BundlesWith(q) # {}}}
             those == {s \in UNION {evidence[j].sources : j \in Speaking(k)} : s.id \in c.refs}
  <2>1. \A r \in c.refs : \E s \in evidence[k].sources : s.id = r
    BY CitesItsOwn DEF IdsOf
  <2>2. ASSUME NEW r \in c.refs
        PROVE  Lookup(r).origin = "web" /\ Lookup(r) \in those
    <3>1. PICK s \in evidence[k].sources : s.id = r
      BY <2>1
    <3>2. PICK j \in DOMAIN evidence : /\ evidence[j].from = evidence[k].from
                                       /\ Lookup(r) \in evidence[j].sources
      BY <1>2, <3>1, LookedUp
    <3>3. j \in Speaking(k)
      BY <1>2, <3>2 DEF Speaking
    <3>4. Lookup(r).id = r /\ Lookup(r).origin = "web"
      BY <1>2, <3>1, LookedUp
    <3>5. QED
      BY <3>2, <3>3, <3>4
  <2>3. found \subseteq those /\ \A s \in found : s.origin # "internal"
    BY <2>2
  <2>4. VerifiedBy(c, found)
    BY DEF Verified
  <2> HIDE DEF found, those
  <2>5. VerifiedBy(c, those)
    BY <2>3, <2>4 DEF VerifiedBy
  <2>6. QED
    BY <2>5 DEF BorneOut, those
<1>3. QED
  BY <1>1, <1>2

--------------------------------------------------------------------------------
(* The folder.                                                                 *)

\* what NotesStayWeb says, of any evidence
Stayed(list) ==
    \A k \in DOMAIN list : list[k].from \in Notes =>
        /\ writeFaults > 0
        /\ list[k].claims = {} \/ crashes > 0 \/ list[k].from \in unmarked

\* Until a crash, a note that is not torn is marked, unless a restart took its mark.
MarkedInv == crashes = 0 => notes \ torn \subseteq seen \cup unmarked

WebInv == NotesStayWeb /\ MarkedInv

\* The notes the scan reads: none when every write succeeds; before a crash, torn ones and
\* those a restart took the marks of.
LEMMA NotesRead ==
    ASSUME IntakeInv, MarkedInv, NEW w \in WriteOutcomes, StoreAfter(w), UNCHANGED drops
    PROVE  /\ Outcome(w, "saved") = NotesOf => Unread(w) \cap Notes = {}
           /\ crashes = 0 => /\ notes' \ torn' \subseteq Marked(w) \cup unmarked
                             /\ Unread(w) \cap Notes \subseteq torn' \cup unmarked
<1>1. \A f \in Files : Drop(f) \notin Notes
  BY NamesDiffer
<1>2. ASSUME Outcome(w, "saved") = NotesOf
      PROVE  Unread(w) \cap Notes = {}
  <2>1. NotesOf \cap Outcome(w, "torn") = {}
    BY <1>2 DEF Outcome
  <2>2. notes' \subseteq Marked(w)
    BY <1>2, <2>1, StoreKept DEF Marked
  <2>3. QED
    BY <1>1, <2>2 DEF Unread, OnDisk
<1>3. ASSUME crashes = 0
      PROVE  notes' \ torn' \subseteq Marked(w) \cup unmarked
  BY <1>3 DEF MarkedInv, StoreAfter, Marked, Written
<1>4. crashes = 0 => Unread(w) \cap Notes \subseteq torn' \cup unmarked
  BY <1>1, <1>3 DEF Unread, OnDisk
<1>5. QED
  BY <1>2, <1>3, <1>4

LEMMA WebCollect ==
    ASSUME IntakeInv, WebInv, NEW w \in WriteOutcomes, Collect(w), UNCHANGED past
    PROVE  WebInv'
<1>1. /\ IF Outcome(w, "saved") = NotesOf
         THEN UNCHANGED writeFaults
         ELSE writeFaults < MaxFaults /\ writeFaults' = writeFaults + 1
      /\ StoreAfter(w)
      /\ \E files \in Listed(w) : ScanAll(w, files) \/ ScanAborts(w, files)
      /\ UNCHANGED <<drops, crashes, unmarked>>
  BY DEF Collect, past
<1>2. PICK files \in Listed(w) : ScanAll(w, files) \/ ScanAborts(w, files)
  BY <1>1
<1>3. writeFaults \in Nat /\ (writeFaults' = writeFaults \/ writeFaults' = writeFaults + 1)
  BY <1>1, IntakeAssumption DEF IntakeInv, StoreInv
<1>4. MarkedInv'
  <2>1. Marked(w) \subseteq seen'
    BY <1>2 DEF ScanAll, ScanAborts
  <2>2. QED
    BY <1>1, <2>1, NotesRead DEF WebInv, MarkedInv
<1>5. NotesStayWeb'
  <2> SUFFICES ASSUME NEW k \in DOMAIN evidence', evidence'[k].from \in Notes
               PROVE  /\ writeFaults' > 0
                      /\ \/ evidence'[k].claims = {} \/ crashes' > 0
                         \/ evidence'[k].from \in unmarked'
    BY DEF NotesStayWeb
  <2>1. CASE k \in DOMAIN evidence /\ evidence'[k] = evidence[k]
    BY <1>1, <1>3, <2>1 DEF WebInv, NotesStayWeb
  <2>2. CASE \E j \in DOMAIN results, i \in Issues :
                evidence'[k] = results[j] /\ results[j].from = From(i)
    BY <2>2, NamesDiffer DEF Paths
  <2>3. CASE \E j \in DOMAIN files : /\ evidence'[k] = FileBundle(files[j])
                                     /\ FileMade(evidence'[k], files[j])
    <3>1. PICK j \in DOMAIN files : /\ evidence'[k] = FileBundle(files[j])
                                    /\ FileMade(evidence'[k], files[j])
      BY <2>3
    <3>2. Unread(w) \subseteq Paths
      BY <1>1, StoreKept DEF Unread, OnDisk, Paths, Dropped
    <3>3. files[j] \in Unread(w) \cap Notes
      BY <3>1, <3>2, ListedOnce DEF FileMade
    <3>4. writeFaults' > 0
      BY <1>1, <1>3, <3>3, NotesRead DEF WebInv
    <3>5. CASE crashes = 0 /\ files[j] \notin unmarked
      <4>1. KindOf(files[j]) = "empty"
        BY <1>1, <3>3, <3>5, NotesRead DEF KindOf, WebInv
      <4>2. evidence'[k].claims = {}
        BY <3>1, <4>1 DEF FileBundle
      <4>3. QED
        BY <3>4, <4>2
    <3>6. CASE crashes # 0
      BY <1>1, <3>4, <3>6 DEF IntakeInv, StoreInv
    <3>7. CASE files[j] \in unmarked
      BY <1>1, <3>1, <3>4, <3>7 DEF FileMade
    <3>8. QED
      BY <3>5, <3>6, <3>7
  <2>4. QED
    BY <1>1, <1>2, <2>1, <2>2, <2>3, FoldedFrom
<1>6. QED
  BY <1>4, <1>5 DEF WebInv

LEMMA WebStep ==
    ASSUME IntakeInv, WebInv, IntakeStep
    PROVE  WebInv'
<1>0. UNCHANGED past /\ unmarked' = unmarked
  BY DEF IntakeStep, past
<1>1. CASE \E w \in WriteOutcomes : Collect(w)
  BY <1>0, <1>1, WebCollect
<1>2. CASE \E w \in WriteOutcomes : CrashInCollect(w)
  <2>1. /\ UNCHANGED <<evidence, writeFaults>>
        /\ crashes' = crashes + 1 /\ crashes \in Nat
    BY <1>2, IntakeAssumption DEF CrashInCollect, IntakeInv, StoreInv
  <2>2. QED
    BY <1>0, <2>1 DEF WebInv, NotesStayWeb, MarkedInv
<1>3. CASE \E f \in Files : DropFile(f)
  <2>1. PICK f \in Files : DropFile(f)
    BY <1>3
  <2>2. /\ seen' = seen \ {Drop(f)}
        /\ UNCHANGED <<evidence, notes, torn, writeFaults, crashes>>
    BY <2>1 DEF DropFile, faults
  <2>3. notes \subseteq Notes /\ Drop(f) \notin Notes
    BY NotesOfType, NamesDiffer DEF IntakeInv, StoreInv
  <2>4. QED
    BY <1>0, <2>2, <2>3 DEF WebInv, NotesStayWeb, MarkedInv
<1>4. CASE (\E i \in Issues : Research(i)) \/ Handover \/ UNCHANGED intake
  <2>1. UNCHANGED <<evidence, seen, notes, torn, writeFaults, crashes>>
    BY <1>4 DEF Research, Handover, intake, store, faults
  <2>2. QED
    BY <1>0, <2>1 DEF WebInv, NotesStayWeb, MarkedInv
<1>5. QED
  BY <1>1, <1>2, <1>3, <1>4 DEF IntakeStep

SavedWeb == \A s \in saved : Stayed(s.evidence)

\* What is counted against a note only grows.
LEMMA StayedStays ==
    ASSUME IntakesInv, [Next]_vars
    PROVE  \A list : Stayed(list) => Stayed(list)'
<1>1. writeFaults \in Nat /\ crashes \in Nat
  BY IntakeAssumption DEF IntakesInv, IntakeInv, StoreInv
<1>2. /\ writeFaults > 0 => writeFaults' > 0
      /\ crashes > 0 => crashes' > 0
      /\ unmarked \subseteq unmarked'
  <2>1. CASE IntakeStep
    <3>1. unmarked' = unmarked
      BY <2>1 DEF IntakeStep, past
    <3>2. /\ writeFaults' \in {writeFaults, writeFaults + 1}
          /\ crashes' \in {crashes, crashes + 1}
      BY <2>1 DEF IntakeStep, Research, DropFile, Collect, CrashInCollect, Handover, intake, faults
    <3>3. QED
      BY <1>1, <3>1, <3>2
  <2>2. CASE Restart
    BY <2>2 DEF Restart, faults
  <2>3. QED
    BY <2>1, <2>2, OnlyIntakeSteps
<1>3. QED
  BY <1>2 DEF Stayed

LEMMA WebsStep ==
    ASSUME IntakesInv, WebInv, SavedWeb, [Next]_vars
    PROVE  WebInv' /\ SavedWeb'
<1>1. ASSUME Restart PROVE WebInv'
  <2>1. PICK s \in saved :
               /\ evidence' = s.evidence /\ seen' = s.seen
               /\ unmarked' = unmarked \cup ((seen \ s.seen) \cap Notes)
    BY <1>1 DEF Restart
  <2>2. UNCHANGED <<notes, torn, writeFaults, crashes>>
    BY <1>1 DEF Restart, store, faults
  <2>3. notes \subseteq Notes
    BY NotesOfType DEF IntakesInv, IntakeInv, StoreInv
  <2>4. MarkedInv'
    BY <2>1, <2>2, <2>3 DEF WebInv, MarkedInv
  <2>5. Stayed(s.evidence)'
    BY StayedStays DEF SavedWeb
  <2>6. NotesStayWeb'
    BY <2>1, <2>5 DEF NotesStayWeb, Stayed
  <2>7. QED
    BY <2>4, <2>6 DEF WebInv
<1>2. WebInv'
  BY <1>1, WebStep, OnlyIntakeSteps DEF IntakesInv
<1>3. SavedWeb'
  <2>1. \A t \in saved' : t = State' \/ \E s \in saved : Like(t, s)
    BY SavedStep DEF IntakesInv, SavedIntake
  <2> SUFFICES ASSUME NEW t \in saved' PROVE Stayed(t.evidence)'
    BY DEF SavedWeb
  <2>2. CASE t = State'
    BY <1>2, <2>2 DEF State, WebInv, NotesStayWeb, Stayed
  <2>3. CASE \E s \in saved : Like(t, s)
    <3>1. PICK s \in saved : t.evidence = s.evidence
      BY <2>3 DEF Like
    <3>2. Stayed(t.evidence)
      BY <3>1 DEF SavedWeb
    <3>3. QED
      BY <3>2, StayedStays
  <2>4. QED
    BY <2>1, <2>2, <2>3
<1>4. QED
  BY <1>2, <1>3

\* A source of the run comes back as a dropped file only after a failed write, and then
\* without a claim unless a crash or a restart had lost the mark of its note; replays
\* alone do not do it.
THEOREM NotesAreNotIngested == Spec => []NotesStayWeb
<1>1. Init => WebInv /\ SavedWeb
  BY DEF Init, IntakeInit, Fresh, WebInv, NotesStayWeb, MarkedInv, SavedWeb, Stayed
<1>2. WebInv => NotesStayWeb
  BY DEF WebInv
<1>3. QED
  BY IntakeAlways, <1>1, <1>2, WebsStep, PTL DEF Spec

TakenIn(list, f) == {k \in DOMAIN list : list[k].from = Drop(f)}

Taken(f) == TakenIn(evidence, f)

\* A file that is there and not marked has been saved once more than taken in.
Ingested(list, marks, f) ==
    /\ Cardinality(TakenIn(list, f)) <= drops[f]
    /\ (Drop(f) \notin marks /\ drops[f] > 0) => Cardinality(TakenIn(list, f)) + 1 <= drops[f]

IngestInv == \A f \in Files : Ingested(evidence, seen, f)

SavedIngest == \A s \in saved, f \in Files : Ingested(s.evidence, s.seen, f)

LEMMA TakenFinite ==
    ASSUME NEW list \in Seq(Bundle), NEW f
    PROVE  IsFiniteSet(TakenIn(list, f)) /\ Cardinality(TakenIn(list, f)) \in Nat
<1>1. TakenIn(list, f) \subseteq 1..Len(list) /\ Len(list) \in Nat
  BY DEF TakenIn
<1>2. IsFiniteSet(1..Len(list))
  BY <1>1, FS_Interval
<1>3. QED
  BY <1>1, <1>2, FS_Subset, FS_CardinalityType

LEMMA IngestCollect ==
    ASSUME IntakeInv, IngestInv, NEW w \in WriteOutcomes, Collect(w), NEW f \in Files
    PROVE  /\ Cardinality(Taken(f)') <= drops'[f]
           /\ (Drop(f) \notin seen' /\ drops'[f] > 0) =>
                 Cardinality(Taken(f)') + 1 <= drops'[f]
<1>1. /\ StoreAfter(w)
      /\ \E files \in Listed(w) : ScanAll(w, files) \/ ScanAborts(w, files)
      /\ UNCHANGED <<results, drops>>
  BY DEF Collect
<1>2. PICK files \in Listed(w) : ScanAll(w, files) \/ ScanAborts(w, files)
  BY <1>1
<1>3. Unread(w) \subseteq Paths
  BY <1>1, StoreKept DEF Unread, OnDisk, Paths, Dropped
<1>4. /\ DOMAIN files = 1..Len(files) /\ Len(files) \in Nat
      /\ \A k \in DOMAIN files : files[k] \in Unread(w)
      /\ \A j, k \in DOMAIN files : files[j] = files[k] => j = k
  BY <1>3, ListedOnce
<1> DEFINE E == Len(evidence)
           R == Len(results)
<1>5. /\ E \in Nat /\ R \in Nat
      /\ ScanAll(w, files) => DOMAIN evidence' = 1..(E + R + Len(files))
      /\ ~ScanAll(w, files) => DOMAIN evidence' = 1..(E + R)
      /\ \A k \in 1..E : evidence'[k] = evidence[k]
      /\ ScanAll(w, files) =>
            \A k \in 1..Len(files) : FileMade(evidence'[E + R + k], files[k])
  BY <1>1, <1>2, Folded
<1>6. DOMAIN evidence = 1..E
  BY DEF IntakeInv, BundleInv, Made
<1>7. Taken(f) \subseteq Taken(f)'
  BY <1>4, <1>5, <1>6 DEF Taken, TakenIn
<1>8. ASSUME NEW k \in Taken(f)', k \notin Taken(f)
      PROVE  ScanAll(w, files) /\ \E j \in DOMAIN files : k = E + R + j /\ files[j] = Drop(f)
  <2>1. k \in DOMAIN evidence' /\ evidence'[k].from = Drop(f)
    BY <1>8 DEF Taken, TakenIn
  <2>2. CASE k \in DOMAIN evidence /\ evidence'[k] = evidence[k]
    BY <1>8, <2>1, <2>2 DEF Taken, TakenIn
  <2>3. CASE \E j \in DOMAIN results, i \in Issues :
                evidence'[k] = results[j] /\ results[j].from = From(i)
    BY <2>1, <2>3, NamesDiffer
  <2>4. CASE /\ ScanAll(w, files)
             /\ \E j \in DOMAIN files : /\ k = E + R + j
                                        /\ FileMade(evidence'[k], files[j])
    BY <2>1, <2>4 DEF FileMade
  <2>5. QED
    BY <1>1, <1>2, <2>1, <2>2, <2>3, <2>4, FoldedFrom
<1>9. Drop(f) \in seen => Drop(f) \in Marked(w)
  BY <1>1, StoreKept, NamesDiffer DEF Marked
<1>10. Marked(w) \subseteq seen'
  BY <1>2 DEF ScanAll, ScanAborts
<1>11. IsFiniteSet(Taken(f)) /\ Cardinality(Taken(f)) \in Nat
  BY TakenFinite DEF Taken, IntakeInv, BundleInv, Made
<1>12. /\ Cardinality(Taken(f)) <= drops[f]
       /\ (Drop(f) \notin seen /\ drops[f] > 0) => Cardinality(Taken(f)) + 1 <= drops[f]
       /\ drops'[f] = drops[f] /\ drops[f] \in Nat
  BY <1>1 DEF IngestInv, Ingested, Taken, IntakeInv, StoreInv
<1>13. CASE ScanAll(w, files) /\ \E j \in DOMAIN files : files[j] = Drop(f)
  <2>1. PICK j \in DOMAIN files : files[j] = Drop(f)
    BY <1>13
  <2>2. Drop(f) \in OnDisk /\ Drop(f) \notin Marked(w)
    BY <1>4, <2>1 DEF Unread
  <2>3. drops[f] > 0
    <3>1. Drop(f) \notin notes'
      BY <1>1, StoreKept, NamesDiffer
    <3>2. QED
      BY <2>2, <3>1, NamesDiffer DEF OnDisk
  <2>4. Taken(f)' \subseteq Taken(f) \cup {E + R + j}
    BY <1>4, <1>8, <2>1
  <2>5. E + R + j \in Taken(f)'
    BY <1>4, <1>5, <1>13, <2>1 DEF FileMade, Taken, TakenIn
  <2>6. Taken(f)' = Taken(f) \cup {E + R + j}
    BY <1>7, <2>4, <2>5
  <2>7. Cardinality(Taken(f)') <= Cardinality(Taken(f)) + 1
    <3>1. \A x : Cardinality(Taken(f) \cup {x}) = IF x \in Taken(f) THEN Cardinality(Taken(f))
                                                  ELSE Cardinality(Taken(f)) + 1
      BY <1>11, FS_AddElement
    <3>2. Cardinality(Taken(f)') \in {Cardinality(Taken(f)), Cardinality(Taken(f)) + 1}
      BY <2>6, <3>1
    <3>3. QED
      BY <1>11, <3>2
  <2>8. Drop(f) \in seen'
    BY <1>4, <1>13, <2>1 DEF ScanAll, ReadMarks
  <2>9. Cardinality(Taken(f)') \in Nat
    BY <1>11, <2>6, FS_AddElement, FS_CardinalityType
  <2>10. QED
    BY <1>9, <1>11, <1>12, <2>2, <2>3, <2>7, <2>8, <2>9
<1>14. CASE ~(ScanAll(w, files) /\ \E j \in DOMAIN files : files[j] = Drop(f))
  <2>1. Taken(f)' = Taken(f)
    BY <1>7, <1>8, <1>14
  <2>2. QED
    BY <1>9, <1>10, <1>12, <2>1
<1>15. QED
  BY <1>13, <1>14

LEMMA IngestStep == ASSUME IntakeInv, IngestInv, IntakeStep PROVE IngestInv'
<1> SUFFICES ASSUME NEW f \in Files
             PROVE  /\ Cardinality(Taken(f)') <= drops'[f]
                    /\ (Drop(f) \notin seen' /\ drops'[f] > 0) =>
                          Cardinality(Taken(f)') + 1 <= drops'[f]
  BY DEF IngestInv, Ingested, Taken
<1>1. CASE \E w \in WriteOutcomes : Collect(w)
  BY <1>1, IngestCollect
<1>2. ASSUME UNCHANGED evidence PROVE Taken(f)' = Taken(f)
  BY <1>2 DEF Taken, TakenIn
<1>3. /\ Cardinality(Taken(f)) <= drops[f]
      /\ (Drop(f) \notin seen /\ drops[f] > 0) => Cardinality(Taken(f)) + 1 <= drops[f]
      /\ Cardinality(Taken(f)) \in Nat /\ drops[f] \in Nat
  BY TakenFinite DEF IngestInv, Ingested, Taken, IntakeInv, BundleInv, Made, StoreInv
<1>4. CASE \E w \in WriteOutcomes : CrashInCollect(w)
  <2>1. PICK w \in WriteOutcomes : seen' = seen \ Written(w) /\ StoreAfter(w)
    BY <1>4 DEF CrashInCollect
  <2>2. Drop(f) \notin seen' => Drop(f) \notin seen
    BY <2>1, StoreKept, NamesDiffer DEF Written
  <2>3. UNCHANGED <<evidence, drops>>
    BY <1>4 DEF CrashInCollect
  <2>4. QED
    BY <1>2, <1>3, <2>2, <2>3
<1>5. CASE \E g \in Files : DropFile(g)
  <2>1. PICK g \in Files : DropFile(g)
    BY <1>5
  <2>2. /\ drops' = [drops EXCEPT ![g] = drops[g] + 1]
        /\ seen' = seen \ {Drop(g)} /\ UNCHANGED evidence
    BY <2>1 DEF DropFile
  <2>3. drops \in [Files -> 0..MaxDrops]
    BY DEF IntakeInv, StoreInv
  <2>4. CASE f = g
    <3>1. drops'[f] = drops[f] + 1
      BY <2>2, <2>3, <2>4
    <3>2. QED
      BY <1>2, <1>3, <2>2, <3>1
  <2>5. CASE f # g
    <3>1. drops'[f] = drops[f] /\ Drop(f) # Drop(g)
      BY <2>2, <2>3, <2>5, NamesDiffer
    <3>2. QED
      BY <1>2, <1>3, <2>2, <3>1
  <2>6. QED
    BY <2>4, <2>5
<1>6. CASE (\E i \in Issues : Research(i)) \/ Handover \/ UNCHANGED intake
  <2>1. UNCHANGED <<evidence, seen, drops>>
    BY <1>6 DEF Research, Handover, intake, store
  <2>2. QED
    BY <1>2, <1>3, <2>1
<1>7. QED
  BY <1>1, <1>4, <1>5, <1>6 DEF IntakeStep

\* How often a file was saved, and the marks that saved states have for it.
LEMMA DropsGrow ==
    ASSUME IntakesInv, [Next]_vars, NEW f \in Files
    PROVE  /\ drops[f] \in Nat
           /\ drops'[f] \in {drops[f], drops[f] + 1}
           /\ \A t \in saved' : \/ t = State'
                               \/ \E s \in saved :
                                     /\ Like(t, s)
                                     /\ Drop(f) \in s.seen =>
                                           Drop(f) \in t.seen \/ drops'[f] = drops[f] + 1
<1>0. SavedShape /\ IntakeInv /\ drops \in [Files -> 0..MaxDrops]
  BY DEF IntakesInv, SavedIntake, IntakeInv, StoreInv
<1>1. \A t \in saved' : t = State' \/ \E s \in saved : Like(t, s)
  BY <1>0, SavedStep
<1> DEFINE Fine == \A t \in saved' : \/ t = State'
                                     \/ \E s \in saved :
                                           /\ Like(t, s)
                                           /\ Drop(f) \in s.seen =>
                                                 Drop(f) \in t.seen \/ drops'[f] = drops[f] + 1
<1>2. CASE saved' \subseteq saved \cup {State'} /\ drops' = drops
  <2>1. \A s \in saved : Like(s, s)
    BY DEF Like
  <2>2. QED
    BY <1>0, <1>2, <2>1, IntakeAssumption
<1>3. ASSUME NEW paths, Outdated(paths)
      PROVE  \A t \in saved' : \E s \in saved : Like(t, s) /\ t.seen = s.seen \ paths
  <2> SUFFICES ASSUME NEW t \in saved'
               PROVE  \E s \in saved : Like(t, s) /\ t.seen = s.seen \ paths
    OBVIOUS
  <2>1. PICK s \in saved : t = [s EXCEPT !.seen = s.seen \ paths]
    BY <1>3 DEF Outdated
  <2>2. s = [researched |-> s.researched, blocked |-> s.blocked, evidence |-> s.evidence,
             seen |-> s.seen, challenges |-> s.challenges, audit |-> s.audit,
             tasks |-> s.tasks, explicit |-> s.explicit]
    BY <1>0 DEF SavedShape
  <2>3. t = [researched |-> s.researched, blocked |-> s.blocked, evidence |-> s.evidence,
             seen |-> s.seen \ paths, challenges |-> s.challenges, audit |-> s.audit,
             tasks |-> s.tasks, explicit |-> s.explicit]
    BY <2>1, <2>2
  <2>4. QED
    BY <2>3 DEF Like
<1>4. CASE Fold \/ CrashInFold
  <2>1. PICK w \in WriteOutcomes : /\ StoreAfter(w) /\ Outdated(Written(w)) /\ drops' = drops
    BY <1>4 DEF Fold, CrashInFold, Collect, CrashInCollect
  <2>2. Drop(f) \notin Written(w)
    BY <1>0, <2>1, StoreKept, NamesDiffer DEF Written
  <2>3. QED
    BY <1>0, <1>3, <2>1, <2>2, IntakeAssumption
<1>5. CASE \E g \in Files : DropAFile(g)
  <2>1. PICK g \in Files : /\ Outdated({Drop(g)})
                           /\ drops' = [drops EXCEPT ![g] = drops[g] + 1]
    BY <1>5 DEF DropAFile, DropFile
  <2>2. drops[f] \in Nat /\ drops'[f] = IF f = g THEN drops[f] + 1 ELSE drops[f]
    BY <1>0, <2>1, IntakeAssumption
  <2>3. f # g => Drop(f) # Drop(g)
    BY NamesDiffer
  <2>4. QED
    BY <1>3, <2>1, <2>2, <2>3
<1>6. CASE Review
  BY <1>2, <1>6 DEF Review, intake, store
<1>7. CASE ArtifactUpdate
  <2>1. State' = State /\ drops' = drops
    BY <1>7 DEF ArtifactUpdate, State, intake, store, dialogue
  <2>2. QED
    BY <1>2, <1>7, <2>1 DEF ArtifactUpdate
<1>8. CASE \/ \E i \in Issues : FanOut(i) \/ Push(i)
           \/ AlbertAudit \/ Record \/ NextRound \/ Stop \/ Deep \/ Restart
           \/ UNCHANGED vars
  BY <1>2, <1>8 DEF FanOut, Research, Push, AlbertAudit, Record, NextRound, Stop, Deep, Restart,
                    vars, intake, store
<1>9. QED
  BY <1>4, <1>5, <1>6, <1>7, <1>8 DEF Next

LEMMA IngestsStep ==
    ASSUME IntakesInv, IngestInv, SavedIngest, [Next]_vars
    PROVE  IngestInv' /\ SavedIngest'
<1>1. ASSUME Restart PROVE IngestInv'
  <2>1. PICK s \in saved : evidence' = s.evidence /\ seen' = s.seen
    BY <1>1 DEF Restart
  <2>2. drops' = drops
    BY <1>1 DEF Restart, store
  <2>3. QED
    BY <2>1, <2>2 DEF SavedIngest, IngestInv, Ingested, TakenIn
<1>2. IngestInv'
  BY <1>1, IngestStep, OnlyIntakeSteps DEF IntakesInv
<1>3. SavedIngest'
  <2> SUFFICES ASSUME NEW t \in saved', NEW f \in Files
               PROVE  Ingested(t.evidence, t.seen, f)'
    BY DEF SavedIngest
  <2>1. CASE t = State'
    <3>1. t.evidence = evidence' /\ t.seen = seen'
      BY <2>1 DEF State
    <3>2. Ingested(evidence, seen, f)'
      BY <1>2 DEF IngestInv
    <3>3. QED
      BY <3>1, <3>2 DEF Ingested
  <2>2. CASE t # State'
    <3>1. PICK s \in saved :
                 /\ Like(t, s)
                 /\ Drop(f) \in s.seen => Drop(f) \in t.seen \/ drops'[f] = drops[f] + 1
      BY <2>2, DropsGrow
    <3>2. t.evidence = s.evidence /\ s.evidence \in Seq(Bundle) /\ t.seen \subseteq s.seen
      BY <3>1 DEF Like, IntakesInv, SavedIntake, Made
    <3>3. Cardinality(TakenIn(s.evidence, f)) \in Nat
      BY <3>2, TakenFinite
    <3>4. Ingested(s.evidence, s.seen, f)
      BY DEF SavedIngest
    <3>5. drops[f] \in Nat /\ drops'[f] \in {drops[f], drops[f] + 1}
      BY DropsGrow
    <3>6. QED
      BY <3>1, <3>2, <3>3, <3>4, <3>5 DEF Ingested
  <2>3. QED
    BY <2>1, <2>2
<1>4. QED
  BY <1>2, <1>3

\* A file is in the evidence at most as often as it was saved, whatever files around it
\* raised, whenever the process died and whatever state the run was restarted on.
THEOREM FilesIngestedOnce == Spec => []IngestedOnce
<1>1. ASSUME Init PROVE IngestInv /\ SavedIngest
  <2>1. ASSUME NEW f \in Files PROVE Ingested(<<>>, {}, f)
    <3>1. TakenIn(<<>>, f) = {}
      BY DEF TakenIn
    <3>2. drops[f] = 0
      BY <1>1 DEF Init, IntakeInit
    <3>3. Cardinality(TakenIn(<<>>, f)) = 0
      BY <3>1, FS_EmptySet, Zenon
    <3>4. QED
      BY <3>2, <3>3 DEF Ingested
  <2>2. evidence = <<>> /\ seen = {} /\ saved = {Fresh}
    BY <1>1 DEF Init, IntakeInit
  <2>3. \A s \in saved : s.evidence = <<>> /\ s.seen = {}
    BY <2>2 DEF Fresh
  <2>4. QED
    BY <2>1, <2>2, <2>3 DEF IngestInv, SavedIngest
<1>2. IngestInv => IngestedOnce
  BY DEF IngestInv, Ingested, IngestedOnce, TakenIn
<1>3. QED
  BY IntakeAlways, <1>1, <1>2, IngestsStep, PTL DEF Spec

--------------------------------------------------------------------------------
(* The tasks and the memo.                                                     *)

LEMMA ClaimTexts ==
    ASSUME BundleInv, NEW k \in DOMAIN evidence, NEW c \in evidence[k].claims
    PROVE  c \in Claim /\ c.text \in Sayings \cup {FileText}
<1>1. evidence[k] \in Bundle
  BY DEF BundleInv, Made
<1>2. c \in Claim
  BY <1>1 DEF Bundle
<1>3. QED
  BY <1>2 DEF Claim

\* An unverified claim as the citation pass lists it.
Entered(c, k) == [text |-> c.text, key |-> c.key, from |-> evidence[k].from]

LEMMA UnverifiedEntries ==
    ASSUME BundleInv
    PROVE  /\ \A u \in Unverified : u.text \in Sayings \cup {FileText}
           /\ \A k \in DOMAIN evidence : \A c \in evidence[k].claims :
                 ~Verified(c) => Entered(c, k) \in Unverified
<1> DEFINE Of(k) == {Entered(c, k) : c \in {d \in evidence[k].claims : ~Verified(d)}}
<1>1. Unverified = UNION {Of(k) : k \in DOMAIN evidence}
  BY DEF Unverified, Entered
<1>2. ASSUME NEW k \in DOMAIN evidence, NEW u \in Of(k)
      PROVE  u.text \in Sayings \cup {FileText}
  <2>1. PICK c \in evidence[k].claims : u = Entered(c, k)
    OBVIOUS
  <2>2. u.text = c.text
    BY <2>1 DEF Entered
  <2>3. QED
    BY <2>2, ClaimTexts
<1>3. ASSUME NEW k \in DOMAIN evidence, NEW c \in evidence[k].claims, ~Verified(c)
      PROVE  Entered(c, k) \in Of(k)
  BY <1>3
<1> HIDE DEF Of
<1>4. QED
  BY <1>1, <1>2, <1>3

LEMMA CriticalTexts ==
    ASSUME BundleInv, NEW high
    PROVE  /\ Critical(high) \subseteq Request /\ UnverifiedKey(high) \subseteq Request
           /\ IsFiniteSet(ToAsk(high)) /\ ToAsk(high) \subseteq Request
<1>1. Critical(high) \subseteq Request /\ UnverifiedKey(high) \subseteq Request
  BY UnverifiedEntries DEF Critical, UnverifiedKey, Request
<1>2. IsFiniteSet(Sayings \cup {FileText})
  BY IntakeAssumption, FS_AddElement
<1>3. IsFiniteSet(Request)
  <2>1. Request = (Sayings \cup {FileText}) \cup {InternalData}
    BY DEF Request
  <2>2. QED
    BY <1>2, <2>1, FS_AddElement
<1>4. ToAsk(high) \subseteq Request
  BY <1>1 DEF ToAsk
<1>5. QED
  BY <1>1, <1>3, <1>4, FS_Subset

\* What a review adds to the tasks: each critical text not asked for yet, once.
LEMMA Asking ==
    ASSUME BundleInv, tasks \in Seq(Request), SupplementAskedOnce, NEW high,
           NEW s \in [1..Cardinality(ToAsk(high)) -> ToAsk(high)],
           \A j, k \in DOMAIN s : j # k => s[j] # s[k],
           tasks' = tasks \o s
    PROVE  /\ tasks' \in Seq(Request)
           /\ SupplementAskedOnce'
           /\ \A x \in Critical(high) : \E n \in DOMAIN tasks' : tasks'[n] = x
<1> DEFINE m == Cardinality(ToAsk(high))
<1>1. /\ IsFiniteSet(ToAsk(high)) /\ ToAsk(high) \subseteq Request /\ m \in Nat
  BY CriticalTexts, FS_CardinalityType
<1>2. Cardinality(1..m) = m /\ s \in [1..m -> ToAsk(high)]
  <2>1. s \in [1..m -> ToAsk(high)]
    OBVIOUS
  <2> HIDE DEF m
  <2>2. Cardinality(1..m) = m
    BY <1>1, FS_Interval
  <2>3. QED
    BY <2>1, <2>2
<1>3. s \in Injection(1..m, ToAsk(high))
  BY DEF Injection, IsInjective
<1>4. s \in Surjection(1..m, ToAsk(high))
  BY <1>1, <1>2, <1>3, FS_Injection
<1>5. \A x \in ToAsk(high) : \E j \in 1..m : s[j] = x
  BY <1>4 DEF Surjection
<1> HIDE DEF m
<1>6. s \in Seq(Request) /\ Len(s) = m /\ DOMAIN s = 1..m
  BY <1>1, <1>2
<1> DEFINE T == Len(tasks)
<1>7. /\ tasks' \in Seq(Request) /\ T \in Nat /\ DOMAIN tasks = 1..T
      /\ DOMAIN tasks' = 1..(T + m)
      /\ \A k \in 1..(T + m) : tasks'[k] = IF k <= T THEN tasks[k] ELSE s[k - T]
  BY <1>6, Joined
<1> HIDE DEF T
<1>8. \A k \in DOMAIN tasks : k \in DOMAIN tasks' /\ tasks'[k] = tasks[k]
  BY <1>1, <1>7
<1>9. ASSUME NEW j \in 1..m
      PROVE  T + j \in DOMAIN tasks' /\ tasks'[T + j] = s[j]
  <2>1. T + j \in 1..(T + m) /\ ~(T + j <= T) /\ (T + j) - T = j
    BY <1>1, <1>7
  <2>2. QED
    BY <1>7, <2>1
<1>10. \A k \in DOMAIN tasks' : k \in DOMAIN tasks \/ \E j \in 1..m : k = T + j
  <2> SUFFICES ASSUME NEW k \in 1..(T + m), ~(k \in 1..T) PROVE \E j \in 1..m : k = T + j
    BY <1>7
  <2>1. k - T \in 1..m /\ k = T + (k - T)
    BY <1>1, <1>7
  <2>2. QED
    BY <2>1
<1>11. \A j \in 1..m : s[j] \in Critical(high) /\ \A k \in DOMAIN tasks : tasks[k] # s[j]
  BY <1>2 DEF ToAsk, Asked
<1>12. SupplementAskedOnce'
  <2> SUFFICES ASSUME NEW j \in DOMAIN tasks', NEW k \in DOMAIN tasks', tasks'[j] = tasks'[k],
                      tasks'[j] # InternalData
               PROVE  j = k
    BY DEF SupplementAskedOnce, AskedOnce
  <2>1. CASE j \in DOMAIN tasks /\ k \in DOMAIN tasks
    BY <1>8, <2>1 DEF SupplementAskedOnce, AskedOnce
  <2>2. CASE \E i \in 1..m : j = T + i
    <3>1. PICK i \in 1..m : j = T + i
      BY <2>2
    <3>2. tasks'[k] = s[i]
      BY <1>9, <3>1
    <3>3. k \notin DOMAIN tasks
      BY <1>8, <1>11, <3>2
    <3>4. PICK l \in 1..m : k = T + l
      BY <1>10, <3>3
    <3>5. s[l] = s[i]
      BY <1>9, <3>2, <3>4
    <3>6. QED
      BY <1>6, <3>1, <3>4, <3>5
  <2>3. CASE j \in DOMAIN tasks /\ \E i \in 1..m : k = T + i
    BY <1>8, <1>9, <1>11, <2>3
  <2>4. QED
    BY <1>10, <2>1, <2>2, <2>3
<1>13. ASSUME NEW x \in Critical(high) PROVE \E n \in DOMAIN tasks' : tasks'[n] = x
  <2>1. CASE x \in Asked
    BY <1>8, <2>1 DEF Asked
  <2>2. CASE x \notin Asked
    <3>1. PICK j \in 1..m : s[j] = x
      BY <1>5, <2>2 DEF ToAsk
    <3>2. QED
      BY <1>9, <3>1
  <2>3. QED
    BY <2>1, <2>2
<1>14. QED
  BY <1>7, <1>12, <1>13

MemoInv ==
    /\ pc \in {"research", "audit", "record", "decide", "deep", "review", "end"}
    /\ round \in 1..MaxRounds
    /\ explicit \in BOOLEAN
    /\ tasks \in Seq(Request)
    /\ memo \in Memo
    /\ SupplementAskedOnce
    /\ EmittedIsHonest

LEMMA NoMemoType == NoMemo \in Memo
<1>1. {} \in SUBSET Request
  OBVIOUS
<1>2. QED
  BY <1>1 DEF NoMemo, Memo

LEMMA MemoStart == Init => MemoInv
<1> SUFFICES ASSUME Init PROVE MemoInv
  OBVIOUS
<1>1. pc = "research" /\ round = 1 /\ explicit = FALSE /\ tasks = <<>> /\ memo = NoMemo
  BY DEF Init
<1>2. round \in 1..MaxRounds
  BY <1>1, MemoAssumption
<1>3. tasks \in Seq(Request) /\ SupplementAskedOnce
  BY <1>1 DEF SupplementAskedOnce, AskedOnce
<1>4. EmittedIsHonest
  BY <1>1 DEF EmittedIsHonest
<1>5. QED
  BY <1>1, <1>2, <1>3, <1>4, NoMemoType DEF MemoInv

LEMMA UpTo == ASSUME NEW n \in Nat PROVE IsFiniteSet(1..n) /\ Cardinality(1..n) = n
<1>1. 1 \in Int /\ n \in Int
  OBVIOUS
<1>2. IsFiniteSet(1..n) /\ Cardinality(1..n) = IF 1 > n THEN 0 ELSE n - 1 + 1
  BY <1>1, FS_Interval, Zenon
<1>3. QED
  BY <1>2

LEMMA Complement ==
    ASSUME NEW S, IsFiniteSet(S), NEW T \in SUBSET S
    PROVE  /\ Cardinality(S) \in Nat /\ Cardinality(T) \in Nat /\ Cardinality(S \ T) \in Nat
           /\ Cardinality(S \ T) + Cardinality(T) = Cardinality(S)
<1>1. IsFiniteSet(T) /\ IsFiniteSet(S \ T)
  BY FS_Subset
<1>2. /\ Cardinality(S) \in Nat /\ Cardinality(T) \in Nat
      /\ Cardinality(S \ T) \in Nat
  BY <1>1, FS_CardinalityType
<1>3. Cardinality(S \ T) = Cardinality(S) - Cardinality(S \cap T)
  BY FS_Difference, Zenon
<1>4. S \cap T = T
  OBVIOUS
<1>5. Cardinality(S \ T) = Cardinality(S) - Cardinality(T)
  BY <1>3, <1>4, Zenon
<1>6. QED
  BY <1>2, <1>5

\* The parts of the challenge map.
LEMMA ClosedAndNot ==
    ASSUME DialogueTypeOK
    PROVE  /\ Cardinality(Closed) \in Nat /\ Cardinality(Unresolved) \in Nat
           /\ Len(challenges) \in Nat
           /\ Cardinality(Closed) + Cardinality(Unresolved) = Len(challenges)
<1>1. DOMAIN challenges = 1..Len(challenges) /\ Len(challenges) \in Nat
  BY DEF DialogueTypeOK
<1>2. IsFiniteSet(1..Len(challenges)) /\ Cardinality(1..Len(challenges)) = Len(challenges)
  BY <1>1, UpTo, Zenon
<1>3. IsFiniteSet(DOMAIN challenges) /\ Cardinality(DOMAIN challenges) = Len(challenges)
  BY <1>1, <1>2, Zenon
<1>4. Unresolved \in SUBSET DOMAIN challenges
  BY DEF Unresolved
<1>5. /\ Cardinality(Unresolved) \in Nat /\ Cardinality(Closed) \in Nat
      /\ Cardinality(Closed) + Cardinality(Unresolved) = Cardinality(DOMAIN challenges)
  BY <1>3, <1>4, Complement, Zenon DEF Closed
<1>6. QED
  BY <1>1, <1>3, <1>5, Zenon

\* Rounding does not blur the target: it is met when seven in ten challenges are closed,
\* and not before.
LEMMA TargetIsSevenInTen ==
    ASSUME DialogueTypeOK, challenges # <<>>
    PROVE  ChallengeReadiness >= ReadinessTarget
               <=> 10 * Cardinality(Unresolved) <= 3 * Len(challenges)
<1> DEFINE n == Cardinality(Closed)
           u == Cardinality(Unresolved)
           d == Len(challenges)
<1>1. n \in Nat /\ u \in Nat /\ d \in Nat /\ n + u = d
  BY ClosedAndNot
<1>2. d > 0
  BY <1>1 DEF DialogueTypeOK
<1> HIDE DEF n, u, d
<1>3. \E k \in 0..5 : Rounds(k, 5 * n, d)
  <2>1. \/ Rounds(0, 5 * n, d) \/ Rounds(1, 5 * n, d) \/ Rounds(2, 5 * n, d)
        \/ Rounds(3, 5 * n, d) \/ Rounds(4, 5 * n, d) \/ Rounds(5, 5 * n, d)
    BY <1>1, <1>2 DEF Rounds
  <2>2. QED
    BY <2>1
<1>4. PICK k \in 0..5 : k = ChallengeReadiness /\ Rounds(k, 5 * n, d)
  BY <1>3 DEF ChallengeReadiness, n, d
<1>5. k = 0 \/ k = 1 \/ k = 2 \/ k = 3 \/ k = 4 \/ k = 5
  OBVIOUS
<1>6. k >= 4 <=> 10 * u <= 3 * d
  <2>1. CASE k = 0
    BY <1>1, <1>2, <1>4, <2>1 DEF Rounds
  <2>2. CASE k = 1
    BY <1>1, <1>2, <1>4, <2>2 DEF Rounds
  <2>3. CASE k = 2
    BY <1>1, <1>2, <1>4, <2>3 DEF Rounds
  <2>4. CASE k = 3
    BY <1>1, <1>2, <1>4, <2>4 DEF Rounds
  <2>5. CASE k = 4
    BY <1>1, <1>2, <1>4, <2>5 DEF Rounds
  <2>6. CASE k = 5
    BY <1>1, <1>2, <1>4, <2>6 DEF Rounds
  <2>7. QED
    BY <1>5, <2>1, <2>2, <2>3, <2>4, <2>5, <2>6
<1>7. QED
  BY <1>4, <1>6 DEF ReadinessTarget, u, d

LEMMA ReviewKeeps ==
    ASSUME IntakeInv, DialogueTypeOK, MemoInv, Review
    PROVE  MemoInv'
<1>1. PICK onIssues \in BOOLEAN, scored \in BOOLEAN :
             LET high == HighRisk \/ onIssues
             IN  /\ \E s \in [1..Cardinality(ToAsk(high)) -> ToAsk(high)] :
                      /\ \A j, k \in DOMAIN s : j # k => s[j] # s[k]
                      /\ tasks' = tasks \o s
                 /\ memo' = [emitted |-> Emits(high, scored), explicit |-> explicit,
                             supplement |-> Critical(high), unverified |-> UnverifiedKey(high)]
  BY DEF Review
<1>2. PICK high : high = (HighRisk \/ onIssues)
  OBVIOUS
<1>3. PICK s \in [1..Cardinality(ToAsk(high)) -> ToAsk(high)] :
             /\ \A j, k \in DOMAIN s : j # k => s[j] # s[k]
             /\ tasks' = tasks \o s
  BY <1>1, <1>2
<1>4. memo' = [emitted |-> Emits(high, scored), explicit |-> explicit,
               supplement |-> Critical(high), unverified |-> UnverifiedKey(high)]
  BY <1>1, <1>2
<1>5. /\ tasks' \in Seq(Request)
      /\ SupplementAskedOnce'
      /\ \A x \in Critical(high) : \E n \in DOMAIN tasks' : tasks'[n] = x
  BY <1>3, Asking DEF IntakeInv, MemoInv
<1>6. /\ pc' = "end" /\ UNCHANGED <<round, explicit, evidence, audit, challenges, reopened>>
  BY DEF Review, intake, dialogue, past
<1>7. Emits(high, scored) \in BOOLEAN
  BY DEF Emits
<1>8. memo' \in Memo
  BY <1>4, <1>7, CriticalTexts DEF Memo, IntakeInv, MemoInv
<1>9. ASSUME memo'.emitted
      PROVE  /\ AuditGenuine
             /\ explicit \/ /\ ~HighImpactUnresolved
                            /\ 10 * Cardinality(Unresolved) <= 3 * Len(challenges)
             /\ UnverifiedKey(high) = {}
  <2>1. /\ AuditGenuine
        /\ explicit \/ ~HighImpactUnresolved
        /\ UnverifiedKey(high) = {}
        /\ explicit \/ challenges = <<>> \/ ChallengeReadiness >= ReadinessTarget
    BY <1>4, <1>9 DEF Emits, TargetsMet
  <2>2. ASSUME challenges = <<>>
        PROVE  10 * Cardinality(Unresolved) <= 3 * Len(challenges)
    BY <2>2, ClosedAndNot
  <2>3. QED
    BY <2>1, <2>2, TargetIsSevenInTen
<1>10. ASSUME memo'.emitted, NEW k \in DOMAIN evidence, NEW c \in evidence[k].claims, c.key
       PROVE  BorneOut(c, k) \/ c.text \in Critical(high)
  <2>1. CASE Verified(c)
    BY <2>1, VerifiedBorneOut DEF IntakeInv
  <2>2. CASE ~Verified(c)
    <3>1. Entered(c, k) \in Unverified
      BY <2>2, UnverifiedEntries DEF IntakeInv
    <3>2. Entered(c, k).key /\ Entered(c, k).text = c.text
      BY <1>10 DEF Entered
    <3>3. c.text \notin UnverifiedKey(high)
      BY <1>9, <1>10
    <3>4. QED
      BY <3>1, <3>2, <3>3 DEF UnverifiedKey
  <2>3. QED
    BY <2>1, <2>2
<1>11. memo'.supplement = Critical(high) /\ memo'.explicit = explicit
  BY <1>4
<1>12. EmittedIsHonest'
  <2> SUFFICES ASSUME memo'.emitted
               PROVE  /\ AuditGenuine'
                      /\ memo'.explicit \/
                            /\ ~HighImpactUnresolved'
                            /\ 10 * Cardinality(Unresolved') <= 3 * Len(challenges')
                      /\ \A k \in DOMAIN evidence' : \A c \in evidence'[k].claims :
                          c.key => \/ BorneOut(c, k)'
                                   \/ /\ c.text \in memo'.supplement
                                      /\ \E n \in DOMAIN tasks' : tasks'[n] = c.text
    BY DEF EmittedIsHonest
  <2>0. Unresolved' = Unresolved /\ challenges' = challenges
    BY <1>6 DEF Unresolved
  <2>1. /\ AuditGenuine'
        /\ memo'.explicit \/ /\ ~HighImpactUnresolved'
                             /\ 10 * Cardinality(Unresolved') <= 3 * Len(challenges')
    <3>1. AuditGenuine' = AuditGenuine /\ HighImpactUnresolved' = HighImpactUnresolved
      BY <1>6, <2>0 DEF AuditGenuine, HighImpactUnresolved
    <3>2. Cardinality(Unresolved') = Cardinality(Unresolved)
      BY <2>0, Zenon
    <3>3. QED
      BY <1>9, <1>11, <2>0, <3>1, <3>2
  <2>2. \A k : \A c : BorneOut(c, k)' = BorneOut(c, k)
    BY <1>6 DEF BorneOut, Speaking, Reopened, VerifiedBy
  <2>3. QED
    BY <1>5, <1>6, <1>10, <1>11, <2>1, <2>2
<1>13. QED
  BY <1>5, <1>6, <1>8, <1>12 DEF MemoInv

\* The tasks of every saved state are as the run's were when it was saved.
SavedTasks ==
    \A s \in saved : /\ s.tasks \in Seq(Request)
                     /\ s.explicit \in BOOLEAN
                     /\ AskedOnce(s.tasks)

LEMMA MemoStep ==
    ASSUME IntakeInv, DialogueTypeOK, MemoInv, SavedTasks, [Next]_vars
    PROVE  MemoInv'
<1>0. MaxRounds \in Nat \ {0}
  BY MemoAssumption
<1>1. CASE Review
  BY <1>1, ReviewKeeps
<1>2. CASE \E i \in Issues : Push(i)
  <2>1. PICK i \in Issues : Push(i)
    BY <1>2
  <2>2. tasks' = Append(tasks, InternalData) /\ tasks \in Seq(Request) /\ Len(tasks) \in Nat
    BY <2>1 DEF Push, MemoInv
  <2>3. /\ tasks' \in Seq(Request) /\ DOMAIN tasks' = 1..(Len(tasks) + 1)
        /\ \A k \in 1..Len(tasks) : k \in DOMAIN tasks /\ tasks'[k] = tasks[k]
        /\ tasks'[Len(tasks) + 1] = InternalData
    BY <2>2 DEF Request
  <2>4. \A k \in DOMAIN tasks' : k \in 1..Len(tasks) \/ k = Len(tasks) + 1
    BY <2>2, <2>3
  <2>5. SupplementAskedOnce'
    BY <2>3, <2>4 DEF SupplementAskedOnce, AskedOnce, MemoInv
  <2>6. /\ pc' = "research" /\ round' \in 1..MaxRounds /\ UNCHANGED <<explicit, memo>>
    BY <1>0, <2>1 DEF Push, MemoInv
  <2>7. EmittedIsHonest'
    BY <2>6 DEF EmittedIsHonest
  <2>8. QED
    BY <2>3, <2>5, <2>6, <2>7 DEF MemoInv
<1>3. CASE \/ \E i \in Issues : FanOut(i)
           \/ \E f \in Files : DropAFile(f)
           \/ Fold \/ CrashInFold \/ AlbertAudit \/ Record \/ ArtifactUpdate
           \/ NextRound \/ Stop \/ Deep
  <2>1. /\ pc' \in {"research", "audit", "record", "decide", "deep", "review"} /\ UNCHANGED tasks
        /\ explicit' \in BOOLEAN /\ memo' = memo
        /\ round' \in 1..MaxRounds
    <3>0. pc \in {"research", "audit", "record", "decide", "deep", "review", "end"}
          /\ round \in 1..MaxRounds /\ explicit \in BOOLEAN
      BY DEF MemoInv
    <3>1. CASE (\E i \in Issues : FanOut(i)) \/ (\E f \in Files : DropAFile(f)) \/ CrashInFold
      BY <3>0, <3>1 DEF FanOut, DropAFile, CrashInFold
    <3>2. CASE Fold \/ AlbertAudit \/ Record \/ ArtifactUpdate \/ Deep
      BY <3>0, <3>2 DEF Fold, AlbertAudit, Record, ArtifactUpdate, Deep
    <3>3. CASE Stop
      BY <3>0, <3>3 DEF Stop
    <3>4. CASE NextRound
      <4>1. round' = round + 1 /\ round < MaxRounds
        BY <3>4 DEF NextRound
      <4>2. round' \in 1..MaxRounds
        BY <1>0, <3>0, <4>1
      <4>3. QED
        BY <3>0, <3>4, <4>2 DEF NextRound
    <3>5. QED
      BY <1>3, <3>1, <3>2, <3>3, <3>4
  <2>2. memo' \in Memo
    BY <2>1 DEF MemoInv
  <2>3. SupplementAskedOnce' /\ EmittedIsHonest'
    BY <2>1 DEF MemoInv, SupplementAskedOnce, AskedOnce, EmittedIsHonest
  <2>4. QED
    BY <2>1, <2>2, <2>3 DEF MemoInv
<1>4. CASE Restart
  <2>1. PICK s \in saved : tasks' = s.tasks /\ explicit' = s.explicit
    BY <1>4 DEF Restart
  <2>2. tasks' \in Seq(Request) /\ explicit' \in BOOLEAN /\ SupplementAskedOnce'
    BY <2>1 DEF SavedTasks, SupplementAskedOnce, AskedOnce
  <2>3. pc' = "research" /\ memo' = NoMemo /\ round' = round + 1 /\ round < MaxRounds
    BY <1>4 DEF Restart
  <2>4. round' \in 1..MaxRounds
    BY <1>0, <2>3 DEF MemoInv
  <2>5. EmittedIsHonest'
    BY <2>3 DEF EmittedIsHonest
  <2>6. QED
    BY <2>2, <2>3, <2>4, <2>5, NoMemoType DEF MemoInv
<1>5. CASE UNCHANGED vars
  <2>1. UNCHANGED <<pc, round, explicit, tasks, memo, evidence, challenges, audit, reopened>>
    BY <1>5 DEF vars, intake, dialogue, past
  <2>2. EmittedIsHonest'
    <3>1. \A k : \A c : BorneOut(c, k)' = BorneOut(c, k)
      BY <2>1 DEF BorneOut, Speaking, Reopened, VerifiedBy
    <3>2. /\ AuditGenuine' = AuditGenuine /\ HighImpactUnresolved' = HighImpactUnresolved
          /\ Unresolved' = Unresolved
      BY <2>1 DEF AuditGenuine, HighImpactUnresolved, Unresolved
    <3>3. Cardinality(Unresolved') = Cardinality(Unresolved)
      BY <3>2, Zenon
    <3>4. QED
      BY <2>1, <3>1, <3>2, <3>3 DEF MemoInv, EmittedIsHonest
  <2>3. QED
    BY <2>1, <2>2 DEF MemoInv, SupplementAskedOnce, AskedOnce
<1>6. QED
  BY <1>1, <1>2, <1>3, <1>4, <1>5 DEF Next

LEMMA SavedTasksStep ==
    ASSUME SavedShape, SavedTasks, MemoInv', [Next]_vars
    PROVE  SavedTasks'
<1> SUFFICES ASSUME NEW t \in saved'
             PROVE  t.tasks \in Seq(Request) /\ t.explicit \in BOOLEAN /\ AskedOnce(t.tasks)
  BY DEF SavedTasks, AskedOnce
<1>1. t = State' \/ \E s \in saved : Like(t, s)
  BY SavedStep
<1>2. CASE t = State'
  <2>1. t.tasks = tasks' /\ t.explicit = explicit'
    BY <1>2 DEF State
  <2>2. QED
    BY <2>1 DEF MemoInv, SupplementAskedOnce, AskedOnce
<1>3. CASE \E s \in saved : Like(t, s)
  BY <1>3 DEF Like, SavedTasks
<1>4. QED
  BY <1>1, <1>2, <1>3

LEMMA MemoAlways == Spec => [](MemoInv /\ SavedTasks)
<1>1. MapsInv => DialogueTypeOK
  BY DEF MapsInv, MapInv
<1>2. IntakesInv => IntakeInv /\ SavedShape
  BY DEF IntakesInv, SavedIntake
<1>3. Init => MemoInv /\ SavedTasks
  BY MemoStart DEF Init, Fresh, SavedTasks, AskedOnce
<1>4. ASSUME IntakesInv, MapsInv, MemoInv, SavedTasks, [Next]_vars
      PROVE  MemoInv' /\ SavedTasks'
  <2>1. MemoInv'
    BY <1>1, <1>2, <1>4, MemoStep
  <2>2. QED
    BY <1>2, <1>4, <2>1, SavedTasksStep
<1>5. QED
  BY IntakeAlways, MapAlways, <1>3, <1>4, PTL DEF Spec

\* Every variable has its type; above all, every piece of evidence is a bundle whose
\* claims and sources are.
THEOREM TypeCorrect == Spec => []TypeOK
<1>1. ASSUME IntakesInv, MapsInv, MemoInv, SavedTasks PROVE TypeOK
  <2>1. IntakeTypeOK /\ reopened \subseteq Issues /\ unmarked \subseteq Notes
    BY <1>1, IntakeTyped DEF IntakesInv, IntakeInv, BundleInv, StoreInv
  <2>2. DialogueTypeOK
    BY <1>1 DEF MapsInv, MapInv
  <2>3. ASSUME NEW s \in saved PROVE s \in Snapshot
    <3>1. s = [researched |-> s.researched, blocked |-> s.blocked, evidence |-> s.evidence,
               seen |-> s.seen, challenges |-> s.challenges, audit |-> s.audit,
               tasks |-> s.tasks, explicit |-> s.explicit]
      BY <1>1 DEF MapsInv, SavedMaps, SavedShape
    <3>2. /\ s.researched \in SUBSET Issues /\ s.blocked \in SUBSET Issues
          /\ s.seen \in SUBSET Paths /\ s.evidence \in Seq(Bundle)
      BY <1>1 DEF IntakesInv, SavedIntake, Made
    <3>3. s.challenges \in Seq(Challenge) /\ s.audit \in LastAudit
      BY <1>1 DEF MapsInv, SavedMaps
    <3>4. s.tasks \in Seq(Request) /\ s.explicit \in BOOLEAN
      BY <1>1 DEF SavedTasks
    <3>5. QED
      BY <3>1, <3>2, <3>3, <3>4 DEF Snapshot
  <2>4. QED
    BY <1>1, <2>1, <2>2, <2>3 DEF MemoInv, TypeOK
<1>2. QED
  BY IntakeAlways, MapAlways, MemoAlways, <1>1, PTL

\* Over the bundles that repeat a claim and the restarts that bring a list of tasks back,
\* its support is asked for once.
THEOREM SupplementOnce == Spec => []SupplementAskedOnce
<1>1. MemoInv /\ SavedTasks => SupplementAskedOnce
  BY DEF MemoInv
<1>2. QED
  BY MemoAlways, <1>1, PTL

\* A memo is emitted on a genuine audit, and each key claim is borne out by the sources of
\* its own bundle (where a restart has reopened its issue: of a bundle of that issue), or a
\* human has been asked for its support.
THEOREM MemoIsHonest == Spec => []EmittedIsHonest
<1>1. MemoInv /\ SavedTasks => EmittedIsHonest
  BY DEF MemoInv
<1>2. QED
  BY MemoAlways, <1>1, PTL
================================================================================
