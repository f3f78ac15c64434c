--------------------------- MODULE ChallengeMapProofs ---------------------------
(***************************************************************************)
(* Theorems about the challenge map in MemoRounds: for any texts and any   *)
(* similarity between them, any audits and any number of rounds.           *)
(***************************************************************************)
EXTENDS MemoRounds, WellFoundedInduction, TLAPS

--------------------------------------------------------------------------------
(* Numbers                                                                     *)

LEMMA LeastNat ==
    ASSUME NEW T \in SUBSET Nat, T # {}
    PROVE  \E x \in T : \A y \in T : x <= y
<1>1. PICK x \in T : \A y \in T : ~(<<y, x>> \in OpToRel(<, Nat))
  BY NatLessThanWellFounded, WFMin
<1>2. \A y \in T : ~(y < x)
  BY <1>1 DEF OpToRel
<1>3. QED
  BY <1>2

LEMMA GreatestNat ==
    ASSUME NEW n \in Nat, NEW T \in SUBSET (0..n), T # {}
    PROVE  \E x \in T : \A y \in T : y <= x
<1> DEFINE U == {n - x : x \in T}
<1>0. \A x \in T : n - x \in Nat
  OBVIOUS
<1>1. U \in SUBSET Nat /\ U # {}
  BY <1>0
<1>2. PICK u \in U : \A v \in U : u <= v
  BY <1>1, LeastNat
<1>3. PICK x \in T : u = n - x
  OBVIOUS
<1>4. \A y \in T : n - x <= n - y
  BY <1>2, <1>3
<1>5. QED
  BY <1>4

--------------------------------------------------------------------------------
(* upsert                                                                      *)

\* Where there is a re-raise, the closest recorded challenge is one of the candidates.
LEMMA ClosestMatches ==
    ASSUME DialogueTypeOK, NEW text \in Texts, Matches(text) # {}
    PROVE  Closest(text) \in Matches(text)
<1>1. Len(challenges) \in Nat /\ DOMAIN challenges = 1..Len(challenges)
  BY DEF DialogueTypeOK
<1>2. Matches(text) \in SUBSET (0..Len(challenges))
  BY <1>1 DEF Matches
<1>3. ASSUME NEW i \in Matches(text)
      PROVE  Ratio[<<text, challenges[i].text>>] \in 0..100
  <2>1. challenges[i] \in Challenge
    BY <1>1 DEF Matches, DialogueTypeOK
  <2>2. challenges[i].text \in Texts
    BY <2>1 DEF Challenge
  <2>3. QED
    BY <2>2, ChallengeAssumption
<1> DEFINE Ratios == {Ratio[<<text, challenges[i].text>>] : i \in Matches(text)}
<1>4. Ratios \in SUBSET (0..100) /\ Ratios # {}
  BY <1>3
<1>5. PICK r \in Ratios : \A s \in Ratios : s <= r
  <2> HIDE DEF Ratios
  <2>1. 100 \in Nat
    OBVIOUS
  <2>2. QED
    BY <1>4, <2>1, GreatestNat
<1> DEFINE Best == {i \in Matches(text) : Ratio[<<text, challenges[i].text>>] = r}
<1>6. Best \in SUBSET (0..Len(challenges)) /\ Best # {}
  BY <1>2, <1>5
<1>7. PICK i \in Best : \A j \in Best : j <= i
  <2> HIDE DEF Best
  <2>1. QED
    BY <1>1, <1>6, GreatestNat
<1>8. ASSUME NEW j \in Matches(text)
      PROVE  \/ Ratio[<<text, challenges[j].text>>] < Ratio[<<text, challenges[i].text>>]
             \/ /\ Ratio[<<text, challenges[j].text>>] = Ratio[<<text, challenges[i].text>>]
                /\ j <= i
  <2>1. Ratio[<<text, challenges[i].text>>] = r /\ Ratio[<<text, challenges[j].text>>] \in Ratios
    OBVIOUS
  <2>2. Ratio[<<text, challenges[j].text>>] <= r
    BY <1>5, <2>1
  <2>3. CASE Ratio[<<text, challenges[j].text>>] = r
    BY <1>7, <2>1, <2>3
  <2>4. CASE Ratio[<<text, challenges[j].text>>] # r
    <3>1. r \in 0..100 /\ Ratio[<<text, challenges[j].text>>] \in 0..100
      BY <1>3, <1>4
    <3>2. QED
      BY <2>1, <2>2, <2>4, <3>1
  <2>5. QED
    BY <2>3, <2>4
<1>9. QED
  BY <1>7, <1>8 DEF Closest

\* What an audit brings: no entry is resolved before it is recorded.
PendingRaw == \A k \in DOMAIN pending : pending[k].status # "resolved"

LEMMA EntryType ==
    ASSUME NEW raw \in Raw
    PROVE  Entry(raw) \in Challenge /\ Entry(raw).status # "resolved"
<1>1. /\ raw.text \in Texts /\ raw.refs \in SUBSET EvidenceRefs
      /\ raw.status \in RawStatus /\ raw.number \in 0..5
  BY ChallengeAssumption
<1>2. StatusOf(raw.status) \in Status \ {"resolved"}
  BY DEF StatusOf, Status, HumanOwned, Handed
<1>3. ConfidenceOf(raw) \in 0..5
  BY <1>1 DEF ConfidenceOf
<1>4. QED
  BY <1>1, <1>2, <1>3 DEF Entry, Challenge

LEMMA ReturnedType ==
    ASSUME NEW r \in Returned
    PROVE  /\ r.audit \in Audit
           /\ r.entries \in Seq(Challenge)
           /\ \A k \in DOMAIN r.entries : r.entries[k].status # "resolved"
<1>1. CASE r = [audit |-> [degraded |-> TRUE, high |-> FALSE], entries |-> <<>>]
  BY <1>1 DEF Audit
<1>2. CASE \E a \in Audit, s \in UNION {[1..n -> Raw] : n \in 0..MaxEntries} :
               r = [audit |-> a, entries |-> [k \in DOMAIN s |-> Entry(s[k])]]
  <2>0. PICK a \in Audit, s \in UNION {[1..n -> Raw] : n \in 0..MaxEntries} :
               r = [audit |-> a, entries |-> [k \in DOMAIN s |-> Entry(s[k])]]
    BY <1>2
  <2>1. PICK n \in 0..MaxEntries : s \in [1..n -> Raw]
    OBVIOUS
  <2>2. n \in Nat
    BY ChallengeAssumption
  <2>3. /\ r.entries = [k \in 1..n |-> Entry(s[k])]
        /\ r.audit = a
    BY <2>0, <2>1
  <2>4. \A k \in 1..n : Entry(s[k]) \in Challenge /\ Entry(s[k]).status # "resolved"
    BY <2>1, EntryType
  <2>5. QED
    BY <2>2, <2>3, <2>4
<1>3. QED
  BY <1>1, <1>2 DEF Returned

\* An entry as it is recorded: its text is kept, and it is resolved when it is an
\* answer with evidence.
LEMMA PromotedType ==
    ASSUME NEW c \in Challenge, c.status # "resolved"
    PROVE  /\ Promoted(c) \in Challenge
           /\ Promoted(c).text = c.text /\ Promoted(c).refs = c.refs
           /\ Promoted(c).status = "resolved" => c.refs # {}
           /\ Promoted(c).status = "answered" => c.refs = {}
BY DEF Promoted, Challenge, Status

LEMMA MergedType ==
    ASSUME NEW c \in Challenge, NEW e \in Challenge
    PROVE  /\ Merged(c, e) \in Challenge
           /\ Merged(c, e).text = c.text /\ c.refs \subseteq Merged(c, e).refs
           /\ Merged(c, e).status = e.status
<1>1. /\ c.text \in Texts /\ c.refs \in SUBSET EvidenceRefs /\ c.confidence \in 0..5
      /\ e.status \in Status /\ e.refs \in SUBSET EvidenceRefs /\ e.confidence \in 0..5
      /\ c = [text |-> c.text, status |-> c.status, confidence |-> c.confidence,
              refs |-> c.refs]
  BY DEF Challenge
<1> DEFINE conf == IF e.confidence # 0 THEN e.confidence ELSE c.confidence
<1>0. Merged(c, e) = [c EXCEPT !.status = e.status, !.confidence = conf,
                               !.refs = c.refs \cup e.refs]
  BY DEF Merged
<1>2. Merged(c, e) = [text |-> c.text, status |-> e.status,
                      confidence |-> IF e.confidence # 0 THEN e.confidence ELSE c.confidence,
                      refs |-> c.refs \cup e.refs]
  BY <1>1, <1>0
<1>3. QED
  BY <1>1, <1>2 DEF Challenge

--------------------------------------------------------------------------------
(* The steps of the dialogue.                                                  *)

DialogueStep == AuditArrives \/ Mint \/ Merge \/ DeepAudit \/ UNCHANGED dialogue

\* Every step of the run is one of them, leaves the dialogue alone, or starts anew.
LEMMA OnlyDialogueSteps == ASSUME [Next]_vars PROVE DialogueStep \/ Restart
<1>1. CASE Next
  BY <1>1 DEF Next, FanOut, Push, DropAFile, Fold, CrashInFold, AlbertAudit, Record,
              ArtifactUpdate, NextRound, Stop, Deep, Review, DialogueStep
<1>2. CASE UNCHANGED vars
  BY <1>2 DEF vars, DialogueStep
<1>3. QED
  BY <1>1, <1>2

\* What is live, resolved and said, before and after a recorded entry.
MapInv == DialogueTypeOK /\ PendingRaw /\ ResolvedBacked /\ DistinctLive

LEMMA MapStart == Init => MapInv
BY DEF Init, DialogueInit, MapInv, DialogueTypeOK, LastAudit, PendingRaw, ResolvedBacked,
       DistinctLive, Backed, Distinct

\* The entry to be recorded next, and the rest.
LEMMA HeadType ==
    ASSUME MapInv, pending # <<>>
    PROVE  /\ Head(pending) \in Challenge /\ Head(pending).status # "resolved"
           /\ Head(pending).text \in Texts
           /\ Tail(pending) \in Seq(Challenge)
           /\ \A k \in DOMAIN Tail(pending) : Tail(pending)[k].status # "resolved"
<1>1. pending \in Seq(Challenge) /\ Len(pending) \in Nat \ {0}
  BY DEF MapInv, DialogueTypeOK
<1>2. Head(pending) = pending[1] /\ 1 \in DOMAIN pending
  BY <1>1
<1>3. /\ Tail(pending) \in Seq(Challenge)
      /\ Len(Tail(pending)) = Len(pending) - 1
      /\ \A k \in 1..Len(Tail(pending)) : Tail(pending)[k] = pending[k + 1]
  BY <1>1
<1>4. Head(pending) \in Challenge
  BY <1>1, <1>2
<1>5. \A k \in 1..Len(Tail(pending)) : k + 1 \in DOMAIN pending
  BY <1>1, <1>3
<1>6. QED
  BY <1>2, <1>3, <1>4, <1>5 DEF MapInv, PendingRaw, Challenge

\* A recorded entry becomes a new challenge or replaces the one it re-raises.
Added(c) == challenges' = Append(challenges, c)
Replaced(i, c) == challenges' = [challenges EXCEPT ![i] = c]

LEMMA MintAdds ==
    ASSUME MapInv, Mint
    PROVE  LET c == Promoted(Head(pending))
           IN  /\ c \in Challenge /\ Added(c)
               /\ c.status = "resolved" => c.refs # {}
               /\ c.status = "answered" => c.refs = {}
               /\ \A i \in DOMAIN challenges : challenges[i].status \in Live =>
                     Ratio[<<c.text, challenges[i].text>>] < MergeThreshold
<1>1. pending # <<>>
  BY DEF Mint
<1>2. Head(pending) \in Challenge /\ Head(pending).status # "resolved"
      /\ Head(pending).text \in Texts
  BY <1>1, HeadType
<1>3. ASSUME NEW i \in DOMAIN challenges, challenges[i].status \in Live
      PROVE  Ratio[<<Head(pending).text, challenges[i].text>>] < MergeThreshold
  <2>0. challenges[i] \in Challenge
    BY DEF MapInv, DialogueTypeOK
  <2>1. challenges[i].text \in Texts
    BY <2>0 DEF Challenge
  <2>2. Ratio[<<Head(pending).text, challenges[i].text>>] \in 0..100 /\ MergeThreshold \in Nat
    BY <1>2, <2>1, ChallengeAssumption
  <2>3. ~(Ratio[<<Head(pending).text, challenges[i].text>>] >= MergeThreshold)
    BY <1>3 DEF Mint, Matches
  <2>4. QED
    BY <2>2, <2>3
<1>4. QED
  BY <1>2, <1>3, PromotedType DEF Mint, Added

LEMMA MergeReplaces ==
    ASSUME MapInv, Merge
    PROVE  LET i == Closest(Head(pending).text)
               c == Promoted(Merged(challenges[i], Head(pending)))
           IN  /\ i \in DOMAIN challenges /\ challenges[i].status \in Live
               /\ c \in Challenge /\ Replaced(i, c)
               /\ c.text = challenges[i].text /\ challenges[i].refs \subseteq c.refs
               /\ c.status = "resolved" => c.refs # {}
               /\ c.status = "answered" => c.refs = {}
<1> DEFINE e == Head(pending)
           i == Closest(e.text)
           m == Merged(challenges[i], e)
<1>1. e \in Challenge /\ e.status # "resolved" /\ e.text \in Texts
  BY HeadType DEF Merge
<1>2. i \in Matches(e.text)
  BY <1>1, ClosestMatches DEF MapInv, Merge
<1>3. i \in DOMAIN challenges /\ challenges[i].status \in Live
  BY <1>2 DEF Matches
<1>4. challenges[i] \in Challenge
  BY <1>3 DEF MapInv, DialogueTypeOK
<1>5. /\ m \in Challenge /\ m.status # "resolved"
      /\ m.text = challenges[i].text /\ challenges[i].refs \subseteq m.refs
  BY <1>1, <1>4, MergedType
<1>6. /\ Promoted(m) \in Challenge
      /\ Promoted(m).text = m.text /\ Promoted(m).refs = m.refs
      /\ Promoted(m).status = "resolved" => m.refs # {}
      /\ Promoted(m).status = "answered" => m.refs = {}
  BY <1>5, PromotedType
<1>7. Replaced(i, Promoted(m))
  BY DEF Merge, Replaced
<1>8. QED
  BY <1>3, <1>5, <1>6, <1>7

LEMMA MapStep == ASSUME MapInv, DialogueStep PROVE MapInv'
<1>0. challenges \in Seq(Challenge) /\ Len(challenges) \in Nat
  BY DEF MapInv, DialogueTypeOK
<1>1. CASE AuditArrives
  <2>1. PICK r \in Returned : audit' = <<r.audit>> /\ pending' = r.entries
    BY <1>1 DEF AuditArrives
  <2>2. pending' \in Seq(Challenge) /\ PendingRaw' /\ audit' = <<r.audit>> /\ r.audit \in Audit
    BY <2>1, ReturnedType DEF PendingRaw
  <2>3. challenges' = challenges
    BY <1>1 DEF AuditArrives
  <2>4. DialogueTypeOK'
    BY <1>0, <2>2, <2>3 DEF DialogueTypeOK, LastAudit
  <2>5. QED
    BY <2>2, <2>3, <2>4 DEF MapInv, ResolvedBacked, DistinctLive
<1>2. CASE Mint
  <2> DEFINE c == Promoted(Head(pending))
  <2>1. /\ c \in Challenge /\ Added(c)
        /\ c.status = "resolved" => c.refs # {}
        /\ c.status = "answered" => c.refs = {}
        /\ \A i \in DOMAIN challenges : challenges[i].status \in Live =>
              Ratio[<<c.text, challenges[i].text>>] < MergeThreshold
    BY <1>2, MintAdds
  <2> HIDE DEF c
  <2>2. /\ pending' \in Seq(Challenge) /\ PendingRaw'
        /\ audit' = audit
    BY <1>2, HeadType DEF Mint, PendingRaw
  <2>3. /\ challenges' \in Seq(Challenge)
        /\ DOMAIN challenges' = 1..(Len(challenges) + 1)
        /\ \A i \in 1..Len(challenges) : challenges'[i] = challenges[i]
        /\ challenges'[Len(challenges) + 1] = c
    BY <1>0, <2>1 DEF Added
  <2>4. \A i \in DOMAIN challenges' : i \in 1..Len(challenges) \/ i = Len(challenges) + 1
    BY <1>0, <2>3
  <2>5. DialogueTypeOK'
    BY <2>2, <2>3 DEF DialogueTypeOK, MapInv
  <2>6. ResolvedBacked'
    BY <1>0, <2>1, <2>3, <2>4 DEF ResolvedBacked, Backed, MapInv
  <2>7. DistinctLive'
    <3> SUFFICES ASSUME NEW i \in DOMAIN challenges', NEW j \in DOMAIN challenges', i < j,
                        challenges'[i].status \in Live, challenges'[j].status \in Live
                 PROVE  Ratio[<<challenges'[j].text, challenges'[i].text>>] < MergeThreshold
      BY DEF DistinctLive, Distinct
    <3>1. i \in 1..Len(challenges) /\ challenges'[i] = challenges[i]
      BY <1>0, <2>3, <2>4
    <3>2. CASE j = Len(challenges) + 1
      BY <1>0, <2>1, <2>3, <3>1, <3>2
    <3>3. CASE j \in 1..Len(challenges)
      BY <1>0, <2>3, <3>1, <3>3 DEF MapInv, DistinctLive, Distinct
    <3>4. QED
      BY <2>4, <3>2, <3>3
  <2>8. QED
    BY <2>2, <2>5, <2>6, <2>7 DEF MapInv
<1>3. CASE Merge
  <2>1. PICK i \in DOMAIN challenges, c \in Challenge :
               /\ challenges[i].status \in Live
               /\ Replaced(i, c)
               /\ c.text = challenges[i].text
               /\ c.status = "resolved" => c.refs # {}
               /\ c.status = "answered" => c.refs = {}
    BY <1>3, MergeReplaces
  <2>2. /\ pending' \in Seq(Challenge) /\ PendingRaw'
        /\ audit' = audit
    BY <1>3, HeadType DEF Merge, PendingRaw
  <2>3. /\ challenges' \in Seq(Challenge)
        /\ DOMAIN challenges' = DOMAIN challenges
        /\ \A j \in DOMAIN challenges : j # i => challenges'[j] = challenges[j]
        /\ challenges'[i] = c
    BY <1>0, <2>1 DEF Replaced
  <2>4. DialogueTypeOK'
    BY <2>2, <2>3 DEF DialogueTypeOK, MapInv
  <2>5. ResolvedBacked'
    BY <2>1, <2>3 DEF ResolvedBacked, Backed, MapInv
  <2>6. \A j \in DOMAIN challenges :
           /\ challenges'[j].text = challenges[j].text
           /\ challenges'[j].status \in Live => challenges[j].status \in Live
    BY <2>1, <2>3
  <2>7. DistinctLive'
    BY <2>3, <2>6 DEF DistinctLive, Distinct, MapInv
  <2>8. QED
    BY <2>2, <2>4, <2>5, <2>7 DEF MapInv
<1>4. CASE DeepAudit
  <2>1. PICK r \in Returned : audit' = <<r.audit>>
    BY <1>4 DEF DeepAudit
  <2>2. audit' = <<r.audit>> /\ r.audit \in Audit
    BY <2>1, ReturnedType
  <2>3. challenges' = challenges /\ pending' = pending
    BY <1>4 DEF DeepAudit
  <2>4. DialogueTypeOK'
    BY <2>2, <2>3 DEF DialogueTypeOK, LastAudit, MapInv
  <2>5. QED
    BY <2>3, <2>4 DEF MapInv, PendingRaw, ResolvedBacked, DistinctLive
<1>5. CASE UNCHANGED dialogue
  BY <1>5 DEF dialogue, MapInv, DialogueTypeOK, PendingRaw, ResolvedBacked, DistinctLive
<1>6. QED
  BY <1>1, <1>2, <1>3, <1>4, <1>5 DEF DialogueStep

--------------------------------------------------------------------------------
(* What a restart finds.                                                       *)

\* A saved state has the fields of one.
SavedShape ==
    \A s \in saved :
        s = [researched |-> s.researched, blocked |-> s.blocked, evidence |-> s.evidence,
             seen |-> s.seen, challenges |-> s.challenges, audit |-> s.audit,
             tasks |-> s.tasks, explicit |-> s.explicit]

\* the same state, of whose marks some have become void
Like(t, s) ==
    /\ t.researched = s.researched /\ t.blocked = s.blocked /\ t.evidence = s.evidence
    /\ t.seen \subseteq s.seen
    /\ t.challenges = s.challenges /\ t.audit = s.audit
    /\ t.tasks = s.tasks /\ t.explicit = s.explicit

LEMMA OutdatedLike ==
    ASSUME SavedShape, NEW paths, Outdated(paths)
    PROVE  SavedShape' /\ \A t \in saved' : \E s \in saved : Like(t, s)
<1> SUFFICES ASSUME NEW t \in saved'
             PROVE  /\ t = [researched |-> t.researched, blocked |-> t.blocked,
                            evidence |-> t.evidence, seen |-> t.seen,
                            challenges |-> t.challenges, audit |-> t.audit,
                            tasks |-> t.tasks, explicit |-> t.explicit]
                    /\ \E s \in saved : Like(t, s)
  BY DEF SavedShape
<1>1. PICK s \in saved : t = [s EXCEPT !.seen = s.seen \ paths]
  BY DEF Outdated
<1>2. s = [researched |-> s.researched, blocked |-> s.blocked, evidence |-> s.evidence,
           seen |-> s.seen, challenges |-> s.challenges, audit |-> s.audit,
           tasks |-> s.tasks, explicit |-> s.explicit]
  BY DEF SavedShape
<1>3. t = [researched |-> s.researched, blocked |-> s.blocked, evidence |-> s.evidence,
           seen |-> s.seen \ paths, challenges |-> s.challenges, audit |-> s.audit,
           tasks |-> s.tasks, explicit |-> s.explicit]
  BY <1>1, <1>2
<1>4. Like(t, s)
  BY <1>3 DEF Like
<1>5. QED
  BY <1>3, <1>4

\* Nothing is saved but the present state.
LEMMA SavedStep ==
    ASSUME SavedShape, [Next]_vars
    PROVE  SavedShape' /\ \A t \in saved' : t = State' \/ \E s \in saved : Like(t, s)
<1>1. CASE \/ saved' = saved
           \/ saved' = saved \cup {State'}
  <2>1. \A t \in saved' : t = State' \/ t \in saved
    BY <1>1
  <2>2. \A s \in saved : Like(s, s)
    BY DEF Like
  <2>3. SavedShape'
    BY <2>1 DEF SavedShape, State
  <2>4. QED
    BY <2>1, <2>2, <2>3
<1>2. CASE \E paths : Outdated(paths)
  BY <1>2, OutdatedLike
<1>3. CASE Fold \/ CrashInFold \/ \E f \in Files : DropAFile(f)
  BY <1>2, <1>3 DEF Fold, CrashInFold, DropAFile
<1>4. CASE ArtifactUpdate
  <2>1. State' = State
    BY <1>4 DEF ArtifactUpdate, State, intake, dialogue
  <2>2. QED
    BY <1>1, <1>4, <2>1 DEF ArtifactUpdate
<1>5. CASE Review
  BY <1>1, <1>5 DEF Review
<1>6. CASE \/ \E i \in Issues : FanOut(i) \/ Push(i)
           \/ AlbertAudit \/ Record \/ NextRound \/ Stop \/ Deep \/ Restart
  BY <1>1, <1>6 DEF FanOut, Push, AlbertAudit, Record, NextRound, Stop, Deep, Restart
<1>7. CASE UNCHANGED vars
  BY <1>1, <1>7 DEF vars
<1>8. QED
  BY <1>3, <1>4, <1>5, <1>6, <1>7 DEF Next

\* The challenge map of every saved state is as the run's was when it was saved.
SavedMaps ==
    /\ SavedShape
    /\ \A s \in saved :
        /\ s.challenges \in Seq(Challenge)
        /\ s.audit \in LastAudit
        /\ Backed(s.challenges)
        /\ Distinct(s.challenges)

MapsInv == MapInv /\ SavedMaps

LEMMA MapsStart == Init => MapsInv
<1> SUFFICES ASSUME Init PROVE MapsInv
  OBVIOUS
<1>1. saved = {Fresh}
  BY DEF Init
<1>2. SavedMaps
  BY <1>1 DEF SavedMaps, SavedShape, Fresh, LastAudit, Backed, Distinct
<1>3. QED
  BY <1>2, MapStart DEF MapsInv

LEMMA MapsStep == ASSUME MapsInv, [Next]_vars PROVE MapsInv'
<1>1. ASSUME DialogueStep PROVE MapInv'
  BY <1>1, MapStep DEF MapsInv
<1>2. ASSUME Restart PROVE MapInv'
  <2>1. PICK s \in saved : challenges' = s.challenges /\ audit' = s.audit /\ pending' = <<>>
    BY <1>2 DEF Restart
  <2>2. /\ s.challenges \in Seq(Challenge)
        /\ s.audit \in LastAudit
        /\ Backed(s.challenges)
        /\ Distinct(s.challenges)
    BY DEF MapsInv, SavedMaps
  <2>3. QED
    <3>1. DialogueTypeOK' /\ PendingRaw'
      BY <2>1, <2>2 DEF DialogueTypeOK, PendingRaw
    <3>2. ResolvedBacked' /\ DistinctLive'
      BY <2>1, <2>2 DEF ResolvedBacked, DistinctLive, Backed, Distinct
    <3>3. QED
      BY <3>1, <3>2 DEF MapInv
<1>3. MapInv'
  BY <1>1, <1>2, OnlyDialogueSteps
<1>4. SavedShape' /\ \A t \in saved' : t = State' \/ \E s \in saved : Like(t, s)
  BY SavedStep DEF MapsInv, SavedMaps
<1>5. SavedMaps'
  <2> SUFFICES ASSUME NEW t \in saved'
               PROVE  /\ t.challenges \in Seq(Challenge)
                      /\ t.audit \in LastAudit
                      /\ Backed(t.challenges)
                      /\ Distinct(t.challenges)
    BY <1>4 DEF SavedMaps
  <2>1. CASE t = State'
    <3>1. t.challenges = challenges' /\ t.audit = audit'
      BY <2>1 DEF State
    <3>2. QED
      <4>1. DialogueTypeOK' /\ ResolvedBacked' /\ DistinctLive'
        BY <1>3 DEF MapInv
      <4>2. QED
        BY <3>1, <4>1 DEF DialogueTypeOK, ResolvedBacked, DistinctLive, Backed, Distinct
  <2>2. CASE \E s \in saved : Like(t, s)
    <3>1. PICK s \in saved : t.challenges = s.challenges /\ t.audit = s.audit
      BY <2>2 DEF Like
    <3>2. QED
      BY <3>1 DEF MapsInv, SavedMaps
  <2>3. QED
    BY <1>4, <2>1, <2>2
<1>6. QED
  BY <1>3, <1>5 DEF MapsInv

LEMMA MapAlways == Spec => []MapsInv
BY MapsStart, MapsStep, PTL DEF Spec

\* However often a challenge is answered, handed over and re-raised: of two that can
\* still be acted on, the later is not a re-raise of the earlier.
THEOREM LiveAreDistinct == Spec => []DistinctLive
<1>1. MapsInv => DistinctLive
  BY DEF MapsInv, MapInv
<1>2. QED
  BY MapAlways, <1>1, PTL

\* A challenge is resolved exactly when it is answered with evidence, in whatever round
\* the evidence came.
THEOREM ResolvedHaveEvidence == Spec => []ResolvedBacked
<1>1. MapsInv => ResolvedBacked
  BY DEF MapsInv, MapInv
<1>2. QED
  BY MapAlways, <1>1, PTL

\* The map only grows, until the run is started anew: no challenge, no text, no evidence
\* and no resolution is undone by what later audits return.
THEOREM MapForgetsNothing == Spec => NothingForgotten
<1>1. ASSUME MapInv, DialogueStep PROVE [MapKept]_challenges
  <2>0. challenges \in Seq(Challenge) /\ Len(challenges) \in Nat
    BY <1>1 DEF MapInv, DialogueTypeOK
  <2>1. CASE Mint
    <3>1. Added(Promoted(Head(pending))) /\ Promoted(Head(pending)) \in Challenge
      BY <1>1, <2>1, MintAdds
    <3>2. \A i \in DOMAIN challenges : i \in DOMAIN challenges' /\ challenges'[i] = challenges[i]
      BY <2>0, <3>1 DEF Added
    <3>3. QED
      BY <3>2 DEF MapKept
  <2>2. CASE Merge
    <3>1. PICK i \in DOMAIN challenges, c \in Challenge :
                 /\ challenges[i].status \in Live
                 /\ Replaced(i, c)
                 /\ c.text = challenges[i].text /\ challenges[i].refs \subseteq c.refs
      BY <1>1, <2>2, MergeReplaces
    <3>2. /\ DOMAIN challenges' = DOMAIN challenges
          /\ \A j \in DOMAIN challenges : j # i => challenges'[j] = challenges[j]
          /\ challenges'[i] = c
      BY <2>0, <3>1 DEF Replaced
    <3>3. challenges[i].status # "resolved"
      BY <3>1 DEF Live, Handed
    <3>4. QED
      BY <3>1, <3>2, <3>3 DEF MapKept
  <2>3. CASE AuditArrives \/ DeepAudit \/ UNCHANGED dialogue
    BY <2>3 DEF AuditArrives, DeepAudit, dialogue
  <2>4. QED
    BY <1>1, <2>1, <2>2, <2>3 DEF DialogueStep
<1>2. ASSUME MapsInv, [Next]_vars PROVE [MapKept \/ Restart]_challenges
  BY <1>1, <1>2, OnlyDialogueSteps DEF MapsInv
<1>3. QED
  BY MapAlways, <1>2, PTL DEF Spec, NothingForgotten
================================================================================
