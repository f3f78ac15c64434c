----------------------------- MODULE EvidenceIntake -----------------------------
(***************************************************************************)
(* Where evidence comes from: the researchers' bundles, kept by the        *)
(* reducer and folded by node_collect in every round, and the files of the *)
(* run's reference folder, which node_collect scans in the same step.  The *)
(* folder holds what a human dropped and the notes node_collect itself     *)
(* writes for the sources of the bundles.  A file whose key (name and      *)
(* mtime) is in processed_references is not read again.                    *)
(*                                                                         *)
(* A saying is a claim together with its verbatim quote; a text is the set *)
(* of sayings it contains (to 85 of 100, citation/verify.py).              *)
(*                                                                         *)
(* The researchers work on a proxy that holds the issue alone: no grid, no *)
(* challenges, no internal documents.  So the route is the web, and a web  *)
(* bundle is what reaches the fold.                                        *)
(***************************************************************************)
EXTENDS Naturals, Sequences, FiniteSets

CONSTANTS
    Issues,       \* issue ids, one title each
    Slots,        \* positions in a bundle's list of sources
    Sayings,
    Files,        \* files a human may drop
    Kind,         \* what convert_to_fragment does with each
    Position,     \* place of a path in sorted(rglob("*"))
    MaxClaims,    \* bound on the claims of a bundle
    MaxDrops,     \* bound on the times a human saves a file
    MaxFaults     \* bound on failed note writes and on crashes, each

Kinds == {"readable",   \* a fragment with text
          "empty",      \* a fragment without
          "reported",   \* unsupported extension, PaperworkScriptError
          "raises"}     \* any other exception: docling, no paperwork home

\* paths, source ids and origins of a bundle are triples
WebId(i, s) == <<"web", i, s>>
Note(i, s)  == <<"note", i, s>>
Drop(f)     == <<"drop", f, "">>
From(i)     == <<"issue", i, "">>

WebIds  == {WebId(i, s) : i \in Issues, s \in Slots}
Notes   == {Note(i, s) : i \in Issues, s \in Slots}
Dropped == {Drop(f) : f \in Files}
Paths   == Notes \cup Dropped

ASSUME IntakeAssumption ==
    /\ IsFiniteSet(Issues) /\ IsFiniteSet(Slots) /\ IsFiniteSet(Sayings) /\ IsFiniteSet(Files)
    /\ Kind \in [Files -> Kinds]
    /\ Position \in [Paths -> Nat]
    /\ MaxClaims \in Nat /\ MaxDrops \in Nat /\ MaxFaults \in Nat

\* the quote of a claim whose notes the critic has written over
NoQuote  == "no quote"
FileText == "dropped reference"

SourceId == WebIds \cup Paths
Source   == [id: SourceId, origin: {"web", "internal"}, holds: SUBSET Sayings]
Claim    == [text: Sayings \cup {FileText}, key: BOOLEAN, refs: SUBSET SourceId,
             quote: Sayings \cup {NoQuote}]
Bundle   == [from: {From(i) : i \in Issues} \cup Paths, sources: SUBSET Source,
             claims: SUBSET Claim]

VARIABLES
    researched,  \* researched_queries
    blocked,     \* issues handed to a human
    results,     \* worker_results: the reducer only adds
    evidence,    \* rs.evidence
    seen,        \* paths whose present key is in processed_references
    drops,       \* times a human has saved each file
    notes,       \* notes in reference/sources/
    torn,        \* those left empty by a failed write
    writeFaults, crashes

store  == <<notes, torn, drops>>
faults == <<writeFaults, crashes>>
intake == <<researched, blocked, results, evidence, seen, store, faults>>

IntakeInit ==
    /\ researched = {}
    /\ blocked = {}
    /\ results = <<>>
    /\ evidence = <<>>
    /\ seen = {}
    /\ drops = [f \in Files |-> 0]
    /\ notes = {}
    /\ torn = {}
    /\ writeFaults = 0
    /\ crashes = 0

--------------------------------------------------------------------------------
(* One researcher's bundle (brains/real.py, ranking/pipeline.py).  At most      *)
(* MaxClaims claims of a bundle are followed.                                   *)

\* _build_bundle: sources with their excerpts, claims quoting them or not
Built(i) ==
    UNION {
        {[from |-> From(i),
          sources |-> {[id |-> WebId(i, s), origin |-> "web", holds |-> h[s]] : s \in S},
          claims |-> C] :
            h \in [S -> SUBSET Sayings],
            C \in {D \in SUBSET {[text |-> t, key |-> k, refs |-> r, quote |-> t] :
                                    t \in Sayings, k \in BOOLEAN,
                                    r \in SUBSET {WebId(i, s) : s \in S}} :
                        Cardinality(D) <= MaxClaims}} :
        S \in SUBSET Slots}

\* a source whose document was fetched
Excerpted(s, holds) == [s EXCEPT !.holds = holds]

\* claims extracted from the documents of some sources
Extracted(sources) == {[text |-> t, key |-> k, refs |-> {s.id}, quote |-> t] :
                          t \in Sayings, k \in BOOLEAN, s \in sources}

Enriched(b, F, h, C) ==
    [from    |-> b.from,
     sources |-> (b.sources \ F) \cup {Excerpted(s, h[s]) : s \in F},
     claims  |-> b.claims \cup C]

\* _escalate_async: a fetched document's first 2000 characters become the excerpt, and
\* the claims extracted from its first 20000 are added
Escalated(b) ==
    UNION {{Enriched(b, F, h, C) :
                h \in [F -> SUBSET Sayings],
                C \in {D \in SUBSET Extracted(F) : Cardinality(b.claims \cup D) <= MaxClaims}} :
           F \in SUBSET b.sources}

\* a claim's new confidence, and the critic's remark where the notes held the quote
Remarked(c, m) == [c EXCEPT !.key = m.key, !.quote = IF m.remark THEN NoQuote ELSE @]

\* source_critic.review
Critiqued(b) ==
    {[from |-> b.from, sources |-> b.sources, claims |-> {Remarked(c, m[c]) : c \in b.claims}] :
        m \in [b.claims -> [key: BOOLEAN, remark: BOOLEAN]]}

Pruned(c, sources) == [c EXCEPT !.refs = @ \cap {s.id : s \in sources}]

\* ranking.apply: some sources survive, and the references to the others are pruned
Ranked(b) ==
    {[from |-> b.from, sources |-> S, claims |-> {Pruned(c, S) : c \in b.claims}] :
        S \in SUBSET b.sources}

BundlesOf == [i \in Issues |->
    UNION {UNION {UNION {Ranked(d) : d \in Critiqued(c)} : c \in Escalated(b)} :
               b \in Built(i)}]

\* seeded bug: the titles of earlier rounds are not looked at
BugSelectable(i) == i \notin blocked

\* select_research_issues: a title is researched once, a blocked issue not at all
Selectable(i) == i \notin blocked \cup researched

\* the fan-out for one issue; a researcher or a review that raises leaves no bundle
Research(i) ==
    /\ Selectable(i)
    /\ researched' = researched \cup {i}
    /\ \/ \E b \in BundlesOf[i] : results' = Append(results, b)
       \/ UNCHANGED results
    /\ UNCHANGED <<blocked, evidence, seen, store, faults>>

--------------------------------------------------------------------------------
(* node_collect                                                                *)

\* the notes of the bundles' sources, one per source
NotesOf == {Note(s.id[2], s.id[3]) : s \in UNION {results[k].sources : k \in DOMAIN results}}

\* What becomes of each: saved; torn, when the write fails after the file was opened;
\* skipped, when it fails before, or an earlier write of the same bundle failed.
WriteOutcomes == [NotesOf -> {"saved", "torn", "skipped"}]

Outcome(w, o) == {n \in NotesOf : w[n] = o}

Written(w) == Outcome(w, "saved") \cup Outcome(w, "torn")

StoreAfter(w) ==
    /\ notes' = notes \cup Written(w)
    /\ torn' = (torn \ Outcome(w, "saved")) \cup Outcome(w, "torn")

\* seeded bug: a note is not marked when it is saved
BugMarked(w) == seen \ Written(w)

\* a saved note is marked at once; a torn one has a new mtime, and no mark
Marked(w) == (seen \cup Outcome(w, "saved")) \ Outcome(w, "torn")

KindOf(p) == IF p \in Notes
             THEN IF p \in torn' THEN "empty" ELSE "readable"
             ELSE Kind[p[2]]

\* _bundle_from_fragment, and the bundles that record a gap
FileBundle(p) ==
    [from |-> p,
     sources |-> IF KindOf(p) = "reported" THEN {}
                 ELSE {[id |-> p, origin |-> "internal", holds |-> {}]},
     claims |-> IF KindOf(p) # "readable" THEN {}
                ELSE {[text |-> FileText, key |-> FALSE, refs |-> {p}, quote |-> NoQuote]}]

OnDisk == notes' \cup {Drop(f) : f \in {g \in Files : drops[g] > 0}}

Unread(w) == OnDisk \ Marked(w)

\* the files the scan reads, one after the other
Listed(w) == {files \in [1..Cardinality(Unread(w)) -> Unread(w)] :
                 \A j, k \in DOMAIN files : j < k => Position[files[j]] < Position[files[k]]}

\* positions of the files that make convert_to_fragment raise
Raising(files) == {k \in DOMAIN files : KindOf(files[k]) = "raises"}

\* seeded bug: what only records a gap is not marked
BugReadMarks(files) == {files[k] : k \in {j \in DOMAIN files : KindOf(files[j]) # "reported"}}

ReadMarks(files) == {files[k] : k \in DOMAIN files}

\* every unread file becomes a bundle and is marked
ScanAll(w, files) ==
    /\ Raising(files) = {}
    /\ evidence' = evidence \o results \o [k \in DOMAIN files |-> FileBundle(files[k])]
    /\ seen' = Marked(w) \cup ReadMarks(files)

\* an exception ends the scan: the marks up to that file stay, the bundles built so far
\* are lost with the call
ScanAborts(w, files) ==
    /\ Raising(files) # {}
    /\ evidence' = evidence \o results
    /\ seen' = Marked(w) \cup
               {files[k] : k \in {j \in DOMAIN files : \A r \in Raising(files) : j < r}}

\* with the notes written as w says
Collect(w) ==
    /\ IF Outcome(w, "saved") = NotesOf
       THEN UNCHANGED writeFaults
       ELSE writeFaults < MaxFaults /\ writeFaults' = writeFaults + 1
    /\ StoreAfter(w)
    /\ \E files \in Listed(w) : ScanAll(w, files) \/ ScanAborts(w, files)
    /\ UNCHANGED <<researched, blocked, results, drops, crashes>>

\* The process dies in node_collect: the notes written so far have a new mtime, the
\* checkpoint has neither their marks nor the evidence, and the node runs again.
CrashInCollect(w) ==
    /\ crashes < MaxFaults
    /\ crashes' = crashes + 1
    /\ StoreAfter(w)
    /\ seen' = seen \ Written(w)
    /\ UNCHANGED <<researched, blocked, results, evidence, drops, writeFaults>>

\* a human saves a file into the folder, at any time
DropFile(f) ==
    /\ drops[f] < MaxDrops
    /\ drops' = [drops EXCEPT ![f] = @ + 1]
    /\ seen' = seen \ {Drop(f)}
    /\ UNCHANGED <<researched, blocked, results, evidence, notes, torn, faults>>

--------------------------------------------------------------------------------
(* citation/verify.py, as synthesis/memo.py calls it                            *)

\* _collect_claims_sources: by id, a later bundle's source replaces an earlier one
BundlesWith(id) == {k \in DOMAIN evidence : id \in {s.id : s \in evidence[k].sources}}

LastWith(id) == CHOOSE k \in BundlesWith(id) : \A j \in BundlesWith(id) : j <= k

Lookup(id) == CHOOSE s \in evidence[LastWith(id)].sources : s.id = id

\* a claim against the sources it cites: internal ones are taken as verified, a web
\* claim needs its quote in one of their texts
VerifiedBy(c, sources) ==
    \/ sources # {} /\ \A s \in sources : s.origin = "internal"
    \/ \E s \in sources : c.quote \in s.holds

Verified(c) == VerifiedBy(c, {Lookup(r) : r \in {q \in c.refs : BundlesWith(q) # {}}})

--------------------------------------------------------------------------------
(* Properties                                                                  *)

IntakeTypeOK ==
    /\ researched \subseteq Issues
    /\ blocked \subseteq Issues
    /\ results \in Seq(Bundle)
    /\ evidence \in Seq(Bundle)
    /\ seen \subseteq Paths
    /\ drops \in [Files -> 0..MaxDrops]
    /\ notes \subseteq Notes
    /\ torn \subseteq notes
    /\ writeFaults \in 0..MaxFaults
    /\ crashes \in 0..MaxFaults

\* A file is taken in at most once for each time a human saved it (internal_doc.py:229),
\* whatever the scans between did with the files around it.
IngestedOnce ==
    \A f \in Files :
        Cardinality({k \in DOMAIN evidence : evidence[k].from = Drop(f)}) <= drops[f]
================================================================================
