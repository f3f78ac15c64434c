------------------------------ MODULE ChallengeMap ------------------------------
(***************************************************************************)
(* The dialogue with Albert, as the run keeps it: what the auditor returns *)
(* is mapped onto the cockpit's contract (albert/contract.py), becomes     *)
(* last_audit, and each of its challenges is upserted into the challenge   *)
(* map (artifacts/challenge_map.py), where an answer with evidence is      *)
(* promoted to resolved.                                                   *)
(*                                                                         *)
(* A challenge's id is its position in the map: ids are minted from the    *)
(* map's length and nothing is ever removed.  The auditor's own ids are    *)
(* not passed on by node_albert_audit, so a challenge is recognised by its *)
(* text alone.  The similarity of two texts is a table, in hundredths.     *)
(***************************************************************************)
EXTENDS Naturals, Sequences, FiniteSets

CONSTANTS
    Texts,           \* challenge texts
    Ratio,           \* Ratio[new, recorded]: difflib ratio, 0..100
    MergeThreshold,  \* MERGE_THRESHOLD, 85
    HighImpactConf,  \* HIGH_IMPACT_CONF, 4
    EvidenceRefs,    \* strings an auditor may give as evidence
    Raw,             \* challenges as an auditor may return them
    MaxEntries       \* bound on the challenges of one audit

\* the statuses of the vendored schema, and anything a drifting model writes
RawStatus == {"answered", "partially_answered", "needs_external_research",
              "needs_internal_data", "needs_bu_judgment", "needs_albert_decision",
              "needs_source_validation", "blocked", "unknown"}

\* how sure an auditor says it is: in a word, or by a number of the contract's scale (one
\* outside of it is refused, and the node fails)
RawConfidence == {"low", "medium", "high", "unknown", "number"}

ASSUME ChallengeAssumption ==
    /\ Ratio \in [Texts \X Texts -> 0..100]
    /\ MergeThreshold \in Nat
    /\ HighImpactConf \in Nat
    /\ Raw \subseteq [text: Texts, status: RawStatus, refs: SUBSET EvidenceRefs,
                      confidence: RawConfidence, number: 0..5]
    /\ MaxEntries \in Nat

Handed     == {"needs_internal_data", "needs_albert_decision", "needs_bu_judgment"}
HumanOwned == Handed \cup {"escalated_to_human"}
Live       == Handed \cup {"open", "answered"}
Status     == HumanOwned \cup {"open", "answered", "resolved"}

\* _STATUS_MAP and _CONFIDENCE_MAP with their defaults
StatusOf(status) == IF status \in Handed \cup {"answered"} THEN status ELSE "open"

\* a number is passed on as it is
ConfidenceOf(raw) ==
    CASE raw.confidence = "low"    -> 1
      [] raw.confidence = "medium" -> 3
      [] raw.confidence = "high"   -> 5
      [] raw.confidence = "number" -> raw.number
      [] OTHER                     -> 0

Challenge == [text: Texts, status: Status, confidence: 0..5, refs: SUBSET EvidenceRefs]

\* _entry: a returned challenge in the cockpit's terms
Entry(raw) == [text |-> raw.text, status |-> StatusOf(raw.status),
               confidence |-> ConfidenceOf(raw), refs |-> raw.refs]

\* What the rest of the run reads of an audit: whether it is degraded, and whether one
\* of its two risks is high.
Audit == [degraded: BOOLEAN, high: BOOLEAN]

\* last_audit: none, or the latest
LastAudit == {<<>>} \cup {<<a>> : a \in Audit}

\* What an auditor may return.  A failed call of the real Albert (no home, timeout, exit
\* code, unreadable output) gives the degraded audit of the adapter.
Returned ==
    {[audit |-> a, entries |-> [k \in DOMAIN s |-> Entry(s[k])]] :
        a \in Audit, s \in UNION {[1..n -> Raw] : n \in 0..MaxEntries}}
    \cup {[audit |-> [degraded |-> TRUE, high |-> FALSE], entries |-> <<>>]}

VARIABLES
    challenges,  \* albert_challenge_map
    audit,       \* last_audit: a sequence, empty or with the one audit
    pending      \* challenges of this round's audit not yet recorded

dialogue == <<challenges, audit, pending>>

DialogueInit ==
    /\ challenges = <<>>
    /\ audit = <<>>
    /\ pending = <<>>

--------------------------------------------------------------------------------
(* upsert                                                                      *)

\* seeded bug: only an open challenge is a target
BugMatches(text) ==
    {i \in DOMAIN challenges :
        /\ challenges[i].status = "open"
        /\ Ratio[<<text, challenges[i].text>>] >= MergeThreshold}

Matches(text) ==
    {i \in DOMAIN challenges :
        /\ challenges[i].status \in Live
        /\ Ratio[<<text, challenges[i].text>>] >= MergeThreshold}

\* the closest one; of two equally close the later
Closest(text) ==
    CHOOSE i \in Matches(text) :
        \A j \in Matches(text) :
            LET ri == Ratio[<<text, challenges[i].text>>]
                rj == Ratio[<<text, challenges[j].text>>]
            IN  rj < ri \/ (rj = ri /\ j <= i)

\* seeded bug: the answer alone resolves it
BugPromoted(c) ==
    IF c.status = "answered" THEN [c EXCEPT !.status = "resolved"] ELSE c

\* an answer with evidence is converged
Promoted(c) ==
    IF c.status = "answered" /\ c.refs # {} THEN [c EXCEPT !.status = "resolved"] ELSE c

\* seeded bug: the new evidence replaces the old
BugMerged(c, e) ==
    [c EXCEPT !.status = e.status,
              !.confidence = IF e.confidence # 0 THEN e.confidence ELSE @,
              !.refs = e.refs]

\* seeded bug: the confidence accumulates like the evidence
BugCounted(c, e) ==
    [c EXCEPT !.status = e.status,
              !.confidence = @ + e.confidence,
              !.refs = @ \cup e.refs]

\* the text stays, the status is overwritten, the confidence unless it is 0
Merged(c, e) ==
    [c EXCEPT !.status = e.status,
              !.confidence = IF e.confidence # 0 THEN e.confidence ELSE @,
              !.refs = @ \cup e.refs]

Mint ==
    /\ pending # <<>>
    /\ Matches(Head(pending).text) = {}
    /\ challenges' = Append(challenges, Promoted(Head(pending)))
    /\ pending' = Tail(pending)
    /\ UNCHANGED audit

Merge ==
    /\ pending # <<>>
    /\ Matches(Head(pending).text) # {}
    /\ LET i == Closest(Head(pending).text)
       IN  challenges' = [challenges EXCEPT ![i] = Promoted(Merged(@, Head(pending)))]
    /\ pending' = Tail(pending)
    /\ UNCHANGED audit

\* node_albert_audit: the new audit, whose challenges are about to be recorded
AuditArrives ==
    /\ \E r \in Returned :
        /\ audit' = <<r.audit>>
        /\ pending' = r.entries
    /\ UNCHANGED challenges

\* node_deep_audit replaces last_audit and records none of its challenges
DeepAudit ==
    /\ \E a \in {r.audit : r \in Returned} : audit' = <<a>>
    /\ UNCHANGED <<challenges, pending>>

--------------------------------------------------------------------------------
(* Convergence                                                                 *)

Unresolved == {i \in DOMAIN challenges : challenges[i].status \notin HumanOwned \cup {"resolved"}}

Closed == DOMAIN challenges \ Unresolved

\* round(n / d): the nearest integer, of two the even one
Rounds(k, n, d) ==
    /\ 2 * n <= (2 * k + 1) * d
    /\ 2 * k * d <= 2 * n + d
    /\ (2 * n = (2 * k + 1) * d \/ 2 * k * d = 2 * n + d) => k \in {0, 2, 4}

\* albert_challenge_readiness, which overrides the scorer's once there is a challenge
ChallengeReadiness == CHOOSE k \in 0..5 : Rounds(k, 5 * Cardinality(Closed), Len(challenges))

ReadinessTarget == 4

HighImpactUnresolved == \E i \in Unresolved : challenges[i].confidence >= HighImpactConf

AuditGenuine == audit # <<>> /\ ~audit[1].degraded

HighRisk == audit # <<>> /\ audit[1].high

--------------------------------------------------------------------------------
(* Properties                                                                  *)

\* The challenge map, last_audit and what is still to be recorded have their types.
DialogueTypeOK ==
    /\ challenges \in Seq(Challenge)
    /\ pending \in Seq(Challenge)
    /\ audit \in LastAudit

Distinct(map) ==
    \A i, j \in DOMAIN map :
        (i < j /\ map[i].status \in Live /\ map[j].status \in Live)
            => Ratio[<<map[j].text, map[i].text>>] < MergeThreshold

\* upsert's promise (challenge_map.py:68): of two challenges a human or a researcher
\* could still act on, the later is not a re-raise of the earlier, however they were
\* answered, handed over and re-raised in between.
DistinctLive == Distinct(challenges)

Backed(map) ==
    \A i \in DOMAIN map :
        /\ map[i].status = "resolved" => map[i].refs # {}
        /\ map[i].status = "answered" => map[i].refs = {}

\* The promotion in node_albert_audit: exactly the answers with evidence are resolved,
\* also those whose evidence came with an earlier re-raise.
ResolvedBacked == Backed(challenges)

\* a step after which no challenge, text or evidence is lost and nothing resolved is opened
MapKept ==
    \A i \in DOMAIN challenges :
        /\ i \in DOMAIN challenges'
        /\ challenges'[i].text = challenges[i].text
        /\ challenges[i].refs \subseteq challenges'[i].refs
        /\ challenges[i].status = "resolved" => challenges'[i].status = "resolved"
================================================================================
