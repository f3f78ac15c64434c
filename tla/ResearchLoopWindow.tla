-------------------------- MODULE ResearchLoopWindow --------------------------
(***************************************************************************)
(* Issues under way never fill what the lost ones leave of the window, for *)
(* any issues, impacts, challenges, steers and rounds.  The argument       *)
(* counts the bundles the reducer keeps: an issue of the round before last *)
(* was folded twice and has left the window, so what is under way was      *)
(* sent out in the last round, and that is TopK issues at most.            *)
(***************************************************************************)
EXTENDS ResearchLoopSafety, FiniteSetTheorems, WellFoundedInduction
-----------------------------------------------------------------------------
(* The order of the selection.                                              *)

LEMMA LeastNat ==
    ASSUME NEW T \in SUBSET Nat, T # {}
    PROVE  \E x \in T : \A y \in T : x <= y
<1>1. PICK x \in T : \A y \in T : ~(<<y, x>> \in OpToRel(<, Nat))
  BY NatLessThanWellFounded, WFMin
<1>2. \A y \in T : ~(y < x)
  BY <1>1 DEF OpToRel
<1> QED
  BY <1>2

LEMMA LeastBy ==
    ASSUME NEW S \in SUBSET Issue, S # {}, NEW f \in [Issue -> Nat]
    PROVE  \E x \in S : \A y \in S : f[x] <= f[y]
<1> DEFINE T == {f[x] : x \in S}
<1>1. T \in SUBSET Nat /\ T # {}
  OBVIOUS
<1>2. PICK t \in T : \A u \in T : t <= u
  BY <1>1, LeastNat
<1>3. PICK x \in S : t = f[x]
  OBVIOUS
<1> QED
  BY <1>2, <1>3

LEMMA IssueNumbers == Issue \subseteq Nat /\ IsFiniteSet(Issue)
<1>1. NumSeeds + 1 \in Nat
  BY Constants
<1> QED
  BY <1>1, FS_Interval DEF Issue

\* Of any issues one is chosen before all others.
LEMMA FirstOf ==
    ASSUME TypeOK, NEW S \in SUBSET Issue, S # {}
    PROVE  \E x \in S : \A y \in S : ~Before(y, x)
<1> DEFINE T == IF S \cap challenged # {} THEN S \cap challenged ELSE S
           f == [i \in Issue |-> 5 - impact[i]]
           g == [i \in Issue |-> i]
<1>0. impact \in [Issue -> 0..5]
  BY DEF TypeOK, IssuesType
<1>1. f \in [Issue -> Nat] /\ g \in [Issue -> Nat]
  BY <1>0, IssueNumbers
<1>2. T \in SUBSET Issue /\ T # {} /\ T \subseteq S
  OBVIOUS
<1>3. PICK m \in T : \A y \in T : f[m] <= f[y]
  BY <1>1, <1>2, LeastBy
<1> DEFINE M == {i \in T : impact[i] = impact[m]}
<1>4. M \in SUBSET Issue /\ M # {}
  BY <1>2
<1> HIDE DEF M
<1>5. PICK x \in M : \A y \in M : g[x] <= g[y]
  BY <1>1, <1>4, LeastBy
<1> USE DEF M
<1>6. \A y \in T : impact[y] <= impact[x] /\ (impact[y] = impact[x] => x <= y)
  <2> TAKE y \in T
  <2>1. impact[x] = impact[m] /\ x \in T
    BY <1>5
  <2>2. 5 - impact[m] <= 5 - impact[y] /\ impact[m] \in 0..5 /\ impact[y] \in 0..5
    BY <1>0, <1>2, <1>3
  <2>3. impact[y] = impact[x] => x <= y
    BY <1>2, <1>5, <2>1
  <2> QED
    BY <2>1, <2>2, <2>3
<1>7. ASSUME NEW y \in S PROVE ~Before(y, x)
  <2>1. x \in S /\ x \in T
    BY <1>5
  <2>2. impact[x] \in 0..5 /\ impact[y] \in 0..5 /\ x \in Nat /\ y \in Nat
    BY <1>0, <2>1, IssueNumbers
  <2>3. CASE y \in T
    <3>1. (x \in challenged) = (y \in challenged)
      BY <2>1, <2>3
    <3> QED
      BY <1>6, <2>2, <2>3, <3>1 DEF Before
  <2>4. CASE y \notin T
    <3>1. x \in challenged /\ y \notin challenged
      BY <2>1, <2>4
    <3> QED
      BY <3>1 DEF Before
  <2> QED
    BY <2>3, <2>4
<1> QED
  BY <1>2, <1>5, <1>7

\* And one after all others.
LEMMA LastOf ==
    ASSUME TypeOK, NEW S \in SUBSET Issue, S # {}
    PROVE  \E x \in S : \A y \in S : y = x \/ Before(y, x)
<1> DEFINE T == IF S \ challenged # {} THEN S \ challenged ELSE S
           f == [i \in Issue |-> impact[i]]
           g == [i \in Issue |-> NumSeeds + 1 - i]
<1>0. impact \in [Issue -> 0..5] /\ NumSeeds \in Nat
  BY LoopAssumption DEF TypeOK, IssuesType
<1>1. f \in [Issue -> Nat] /\ g \in [Issue -> Nat]
  BY <1>0 DEF Issue
<1>2. T \in SUBSET Issue /\ T # {} /\ T \subseteq S
  OBVIOUS
<1>3. PICK m \in T : \A y \in T : f[m] <= f[y]
  BY <1>1, <1>2, LeastBy
<1> DEFINE M == {i \in T : impact[i] = impact[m]}
<1>4. M \in SUBSET Issue /\ M # {}
  BY <1>2
<1> HIDE DEF M
<1>5. PICK x \in M : \A y \in M : g[x] <= g[y]
  BY <1>1, <1>4, LeastBy
<1> USE DEF M
<1>6. \A y \in T : impact[x] <= impact[y] /\ (impact[y] = impact[x] => y <= x)
  <2> TAKE y \in T
  <2>1. impact[x] = impact[m] /\ x \in T
    BY <1>5
  <2>2. impact[m] <= impact[y]
    BY <1>2, <1>3
  <2>3. impact[y] = impact[x] => NumSeeds + 1 - x <= NumSeeds + 1 - y
    BY <1>2, <1>5, <2>1
  <2>4. x \in Nat /\ y \in Nat
    BY <1>2, <2>1, IssueNumbers
  <2> QED
    BY <1>0, <2>1, <2>2, <2>3, <2>4
<1>7. ASSUME NEW y \in S, y # x PROVE Before(y, x)
  <2>1. x \in S /\ x \in T
    BY <1>5
  <2>2. impact[x] \in 0..5 /\ impact[y] \in 0..5 /\ x \in Nat /\ y \in Nat
    BY <1>0, <2>1, IssueNumbers
  <2>3. CASE y \in T
    <3>1. (x \in challenged) = (y \in challenged)
      BY <2>1, <2>3
    <3> QED
      BY <1>6, <1>7, <2>2, <2>3, <3>1 DEF Before
  <2>4. CASE y \notin T
    <3>1. x \notin challenged /\ y \in challenged
      BY <2>1, <2>4
    <3> QED
      BY <3>1 DEF Before
  <2> QED
    BY <2>3, <2>4
<1> QED
  BY <1>2, <1>5, <1>7

LEMMA TopKType == TopK \in Nat \ {0} /\ Window \in Nat \ {0}
BY LoopAssumption

\* A round sends out TopK issues at most.
LEMMA SelectedFew ==
    ASSUME TypeOK
    PROVE  /\ Selected \subseteq Issue /\ IsFiniteSet(Selected)
           /\ Cardinality(Selected) <= TopK
<1>1. Selected \subseteq Candidates /\ Candidates \subseteq Issue
  BY DEF Selected, Candidates, RawIds, AddressableIssues
<1>2. IsFiniteSet(Candidates) /\ IsFiniteSet(Selected)
  BY <1>1, IssueNumbers, FS_Subset
<1>3. CASE Selected = {}
  BY <1>1, <1>2, <1>3, FS_EmptySet, TopKType
<1>4. CASE Selected # {}
  <2>1. Selected \in SUBSET Issue
    BY <1>1
  <2>2. PICK x \in Selected : \A y \in Selected : y = x \/ Before(y, x)
    BY <1>4, <2>1, LastOf
  <2> DEFINE B == {j \in Candidates : Before(j, x)}
  <2>3. Cardinality(B) < TopK
    BY <2>2 DEF Selected
  <2>4. Selected \ {x} \subseteq B
    BY <1>1, <2>2
  <2>5. IsFiniteSet(B)
    BY <1>2, FS_Subset
  <2> HIDE DEF B
  <2>6. Cardinality(Selected \ {x}) <= Cardinality(B)
    BY <2>4, <2>5, FS_Subset
  <2>7. Cardinality(Selected \ {x}) = Cardinality(Selected) - 1
    BY <1>2, <2>2, FS_RemoveElement
  <2>8. /\ Cardinality(Selected) \in Nat /\ Cardinality(Selected \ {x}) \in Nat
        /\ Cardinality(B) \in Nat
    BY <1>2, <2>5, FS_CardinalityType, FS_RemoveElement
  <2> QED
    BY <1>1, <1>2, <2>3, <2>6, <2>7, <2>8, TopKType
<1> QED
  BY <1>3, <1>4
-----------------------------------------------------------------------------
(* What the reducer keeps.                                                  *)

Delivered == {i \in Issue : buffer[i] > 0}

\* delivered and not folded; folded less than twice
Unfolded == {i \in Delivered : evidence[i] = 0}
UnderWay == {i \in Delivered : evidence[i] < 2}

\* A status follows the evidence folded, and evidence the bundles kept.
FoldInv ==
    \A i \in Issue :
        /\ buffer[i] <= dispatched[i]
        /\ evidence[i] > 0 => dispatched[i] > 0
        /\ dispatched[i] > 0 => status[i] # "absent"
        /\ evidence[i] > 0 => status[i] # "open"
        /\ evidence[i] > 1 => status[i] \notin Addressable

\* What is unfolded at collect, and under way elsewhere, is of one round.
OneRoundInv ==
    /\ pc = "collect" => Cardinality(Unfolded) <= TopK
    /\ pc \notin {"collect", "aborted"} =>
          Unfolded = {} /\ Cardinality(UnderWay) <= TopK

WindowInv == FoldInv /\ OneRoundInv

LEMMA WindowInit == Init => WindowInv
<1> SUFFICES ASSUME Init PROVE WindowInv
  OBVIOUS
<1>1. \A i \in Issue : buffer[i] = 0 /\ evidence[i] = 0 /\ dispatched[i] = 0
  BY DEF Init
<1>2. FoldInv
  BY <1>1 DEF FoldInv
<1>4. Unfolded = {} /\ UnderWay = {}
  BY <1>1 DEF Unfolded, UnderWay, Delivered
<1>5. OneRoundInv
  BY <1>4, FS_EmptySet, TopKType DEF OneRoundInv, Init
<1> QED
  BY <1>2, <1>5 DEF WindowInv

\* A step that neither sends out nor folds.
LEMMA WindowKept ==
    ASSUME TypeOK, WindowInv, UNCHANGED <<buffer, evidence, dispatched>>,
           pc # "collect" \/ pc' \in {"collect", "aborted"},
           pc' = "collect" => pc = "collect",
           pc = "aborted" => pc' = "aborted",
           \A i \in Issue : \/ status'[i] = status[i]
                            \/ status'[i] = "blocked_by_internal_data"
                            \/ status[i] = "absent"
    PROVE  WindowInv'
<1>1. FoldInv'
  <2>1. \A i \in Issue : evidence[i] \in Nat
    BY DEF TypeOK, IssuesType
  <2> SUFFICES ASSUME NEW i \in Issue
               PROVE  /\ buffer[i] <= dispatched[i]
                      /\ evidence[i] > 0 => dispatched[i] > 0
                      /\ dispatched[i] > 0 => status'[i] # "absent"
                      /\ evidence[i] > 0 => status'[i] # "open"
                      /\ evidence[i] > 1 => status'[i] \notin Addressable
    BY DEF FoldInv
  <2>2. /\ buffer[i] <= dispatched[i]
        /\ evidence[i] > 0 => dispatched[i] > 0
        /\ dispatched[i] > 0 => status[i] # "absent"
        /\ evidence[i] > 0 => status[i] # "open"
        /\ evidence[i] > 1 => status[i] \notin Addressable
    BY DEF WindowInv, FoldInv
  <2>3. CASE status'[i] = status[i]
    BY <2>2, <2>3
  <2>4. CASE status'[i] = "blocked_by_internal_data"
    BY <2>2, <2>4 DEF Addressable
  <2>5. CASE status[i] = "absent"
    BY <2>1, <2>2, <2>5
  <2> QED
    BY <2>3, <2>4, <2>5
<1>3. Unfolded' = Unfolded /\ UnderWay' = UnderWay
  BY DEF Unfolded, UnderWay, Delivered
<1>4. OneRoundInv'
  BY <1>3 DEF WindowInv, OneRoundInv
<1> QED
  BY <1>1, <1>4 DEF WindowInv

\* Only an issue that is not there yet is made open.
LEMMA ExpandedAbsent ==
    \A i \in Issue : Expanded[i] = status[i] \/ status[i] = "absent"
BY DEF Expanded

LEMMA SetsFinite == IsFiniteSet(Unfolded) /\ IsFiniteSet(UnderWay)
BY IssueNumbers, FS_Subset DEF Unfolded, UnderWay, Delivered

LEMMA WindowFanout ==
    ASSUME TypeOK, DispatchInv, WindowInv, ResearchFanout
    PROVE  WindowInv'
<1>0. /\ buffer \in [Issue -> Nat] /\ dispatched \in [Issue -> Nat]
      /\ evidence \in [Issue -> Nat] /\ status \in [Issue -> Status]
  BY DEF TypeOK, ChannelsType, IssuesType, HistoryType
<1>1. PICK delivered \in SUBSET Selected :
         buffer' = [i \in Issue |-> IF i \in delivered THEN buffer[i] + 1 ELSE buffer[i]]
  BY DEF ResearchFanout
<1>2. /\ dispatched' = [i \in Issue |-> IF i \in Selected THEN dispatched[i] + 1
                                        ELSE dispatched[i]]
      /\ evidence' = evidence /\ status' = status
      /\ pc = "research_fanout" /\ pc' = "collect"
  BY DEF ResearchFanout, Ready, Goto
<1>3. Selected \subseteq Issue /\ IsFiniteSet(Selected) /\ Cardinality(Selected) <= TopK
  BY SelectedFew
<1>4. \A i \in Selected : status[i] \in Addressable
  BY DEF Selected, Candidates, RawIds, AddressableIssues
<1>5. FoldInv'
  <2> SUFFICES ASSUME NEW i \in Issue
               PROVE  /\ buffer'[i] <= dispatched'[i]
                      /\ evidence[i] > 0 => dispatched'[i] > 0
                      /\ dispatched'[i] > 0 => status[i] # "absent"
                      /\ evidence[i] > 0 => status[i] # "open"
                      /\ evidence[i] > 1 => status[i] \notin Addressable
    BY <1>2 DEF FoldInv
  <2>1. /\ buffer[i] <= dispatched[i]
        /\ evidence[i] > 0 => dispatched[i] > 0
        /\ dispatched[i] > 0 => status[i] # "absent"
        /\ evidence[i] > 0 => status[i] # "open"
        /\ evidence[i] > 1 => status[i] \notin Addressable
    BY DEF WindowInv, FoldInv
  <2>2. buffer[i] \in Nat /\ dispatched[i] \in Nat
    BY <1>0
  <2>3. CASE i \in Selected
    <3>1. dispatched'[i] = dispatched[i] + 1 /\ buffer'[i] <= buffer[i] + 1
      BY <1>1, <1>2, <2>2, <2>3
    <3>2. buffer'[i] \in Nat
      BY <1>1, <2>2
    <3>3. status[i] # "absent"
      BY <1>4, <2>3 DEF Addressable
    <3> QED
      BY <2>1, <2>2, <3>1, <3>2, <3>3
  <2>4. CASE i \notin Selected
    <3>1. dispatched'[i] = dispatched[i] /\ buffer'[i] = buffer[i]
      BY <1>1, <1>2, <2>4
    <3> QED
      BY <2>1, <3>1
  <2> QED
    BY <2>3, <2>4
<1>7. Unfolded' \subseteq Selected
  <2> SUFFICES ASSUME NEW i \in Unfolded', i \notin Selected PROVE FALSE
    OBVIOUS
  <2>1. i \in Issue /\ buffer'[i] > 0 /\ evidence[i] = 0
    BY <1>2 DEF Unfolded, Delivered
  <2>2. buffer'[i] = buffer[i]
    BY <1>1, <2>1
  <2>3. i \in Unfolded
    BY <2>1, <2>2 DEF Unfolded, Delivered
  <2> QED
    BY <1>2, <2>3 DEF WindowInv, OneRoundInv
<1>8. Cardinality(Unfolded') <= TopK
  <2>1. IsFiniteSet(Unfolded') /\ Cardinality(Unfolded') <= Cardinality(Selected)
    BY <1>3, <1>7, FS_Subset
  <2> QED
    BY <1>3, <2>1, FS_CardinalityType, TopKType
<1>9. OneRoundInv'
  BY <1>2, <1>8, TopKType DEF OneRoundInv
<1> QED
  BY <1>5, <1>9 DEF WindowInv

LEMMA WindowCollect ==
    ASSUME TypeOK, DispatchInv, WindowInv, Collect
    PROVE  WindowInv'
<1>0. /\ buffer \in [Issue -> Nat] /\ dispatched \in [Issue -> Nat]
      /\ evidence \in [Issue -> Nat] /\ status \in [Issue -> Status]
  BY DEF TypeOK, ChannelsType, IssuesType, HistoryType
<1>1. /\ evidence' = [i \in Issue |-> evidence[i] + buffer[i]]
      /\ status' = [i \in Issue |-> Advance(status[i], buffer[i])]
      /\ buffer' = buffer /\ dispatched' = dispatched
      /\ pc = "collect" /\ pc' = "skeptic"
  BY DEF Collect, history, Ready, Goto
<1>2. FoldInv'
  <2> SUFFICES ASSUME NEW i \in Issue
               PROVE  /\ buffer[i] <= dispatched[i]
                      /\ evidence'[i] > 0 => dispatched[i] > 0
                      /\ dispatched[i] > 0 => status'[i] # "absent"
                      /\ evidence'[i] > 0 => status'[i] # "open"
                      /\ evidence'[i] > 1 => status'[i] \notin Addressable
    BY <1>1 DEF FoldInv
  <2>1. /\ buffer[i] <= dispatched[i]
        /\ evidence[i] > 0 => dispatched[i] > 0
        /\ dispatched[i] > 0 => status[i] # "absent"
        /\ evidence[i] > 0 => status[i] # "open"
        /\ evidence[i] > 1 => status[i] \notin Addressable
        /\ dispatched[i] <= 1
    BY DEF WindowInv, FoldInv, DispatchInv
  <2>2. /\ buffer[i] \in Nat /\ dispatched[i] \in Nat /\ evidence[i] \in Nat
        /\ status[i] \in Status
    BY <1>0
  <2>3. /\ evidence'[i] = evidence[i] + buffer[i]
        /\ status'[i] = Advance(status[i], buffer[i])
    BY <1>1
  <2>4. CASE buffer[i] = 0
    <3>1. status'[i] = status[i] /\ evidence'[i] = evidence[i]
      BY <2>2, <2>3, <2>4 DEF Advance
    <3> QED
      BY <2>1, <3>1
  <2>5. CASE buffer[i] = 1
    <3>1. evidence'[i] = evidence[i] + 1 /\ dispatched[i] = 1
      BY <2>1, <2>2, <2>3, <2>5
    <3>2. CASE status[i] = "open"
      <4>1. status'[i] = "partially_answered" /\ evidence[i] = 0
        BY <2>1, <2>2, <2>3, <2>5, <3>2 DEF Advance
      <4> QED
        BY <2>1, <3>1, <4>1
    <3>3. CASE status[i] = "partially_answered"
      <4>1. status'[i] = "answered"
        BY <2>3, <2>5, <3>3 DEF Advance
      <4> QED
        BY <2>1, <3>1, <4>1 DEF Addressable
    <3>4. CASE status[i] \notin {"open", "partially_answered"}
      <4>1. status'[i] = status[i]
        BY <2>3, <3>4 DEF Advance
      <4> QED
        BY <2>1, <3>1, <3>4, <4>1 DEF Addressable
    <3> QED
      BY <3>2, <3>3, <3>4
  <2> QED
    BY <2>1, <2>2, <2>4, <2>5
<1>4. Unfolded' = {} /\ UnderWay' \subseteq Unfolded
  <2> SUFFICES ASSUME NEW i \in Issue, buffer[i] > 0
               PROVE  evidence'[i] # 0 /\ (evidence'[i] < 2 => evidence[i] = 0)
    BY <1>1 DEF Unfolded, UnderWay, Delivered
  <2>1. buffer[i] \in Nat /\ evidence[i] \in Nat
    BY <1>0
  <2>2. evidence'[i] = evidence[i] + buffer[i]
    BY <1>1
  <2> QED
    BY <2>1, <2>2
<1>5. Cardinality(UnderWay') <= TopK
  <2>1. Cardinality(UnderWay') <= Cardinality(Unfolded) /\ IsFiniteSet(UnderWay')
    BY <1>4, SetsFinite, FS_Subset
  <2>2. Cardinality(Unfolded) <= TopK
    BY <1>1 DEF WindowInv, OneRoundInv
  <2> QED
    BY <2>1, <2>2, SetsFinite, FS_CardinalityType, TopKType
<1>6. OneRoundInv'
  BY <1>1, <1>4, <1>5 DEF OneRoundInv
<1> QED
  BY <1>2, <1>6 DEF WindowInv

LEMMA WindowStep == TypeOK /\ DispatchInv /\ WindowInv /\ [Next]_vars => WindowInv'
<1> SUFFICES ASSUME TypeOK, DispatchInv, WindowInv, [Next]_vars PROVE WindowInv'
  OBVIOUS
<1>1. CASE Intake
  BY <1>1, WindowKept DEF Intake, Ready, Goto, channels, issues, history
<1>2. CASE Scope
  BY <1>2, WindowKept DEF Scope, Ready, Goto, channels, issues, history
<1>3. CASE ClarifyPass
  BY <1>3, WindowKept DEF ClarifyPass, Ready, Goto, channels, issues, history
<1>4. CASE ClarifyAsk
  BY <1>4, WindowKept DEF ClarifyAsk, Ready, Goto, Interrupt, channels, issues, history
<1>5. CASE ClarifyAnswered
  BY <1>5, WindowKept DEF ClarifyAnswered, Ready, Goto, Answering, Resume, channels, issues, history
<1>6. CASE WriteBrief
  BY <1>6, WindowKept DEF WriteBrief, Ready, Goto, channels, issues, history
<1>7. CASE OrchestratorPlan
  <2>1. \A i \in Issue : \/ status'[i] = status[i]
                           \/ status'[i] = "blocked_by_internal_data"
                           \/ status[i] = "absent"
    BY <1>7, ExpandedAbsent DEF OrchestratorPlan
  <2> QED
    BY <1>7, <2>1, WindowKept DEF OrchestratorPlan, Ready, Goto, channels, issues, history
<1>8. CASE PlanAuditSkip
  BY <1>8, WindowKept DEF PlanAuditSkip, Ready, Goto, channels, issues, history
<1>9. CASE PlanAudit
  BY <1>9, WindowKept DEF PlanAudit, Ready, Goto, channels, issues, history
<1>10. CASE PlanApprovalPass
  BY <1>10, WindowKept DEF PlanApprovalPass, Ready, Goto, channels, issues, history
<1>11. CASE PlanApprovalAsk
  BY <1>11, WindowKept DEF PlanApprovalAsk, Ready, Goto, Interrupt, channels, issues, history
<1>12. CASE PlanApprovalAnswered
  BY <1>12, WindowKept DEF PlanApprovalAnswered, Ready, Goto, Answering, Resume, channels, issues, history
<1>13. CASE IssueExpansion
  <2>1. \A i \in Issue : \/ status'[i] = status[i]
                           \/ status'[i] = "blocked_by_internal_data"
                           \/ status[i] = "absent"
    BY <1>13, ExpandedAbsent DEF IssueExpansion
  <2> QED
    BY <1>13, <2>1, WindowKept DEF IssueExpansion, Ready, Goto, channels, issues, history
<1>14. CASE Supervisor
  BY <1>14, WindowKept DEF Supervisor, Ready, Goto, channels, issues, history
<1>15. CASE ResearchFanout
  BY <1>15, WindowFanout
<1>16. CASE Collect
  BY <1>16, WindowCollect
<1>17. CASE Skeptic
  BY <1>17, WindowKept DEF Skeptic, Ready, Goto, channels, issues, history
<1>18. CASE AlbertAudit
  BY <1>18, WindowKept DEF AlbertAudit, Ready, Goto, channels, issues, history
<1>19. CASE ArtifactUpdate
  BY <1>19, WindowKept DEF ArtifactUpdate, Ready, Goto, channels, issues, history
<1>20. CASE ReadinessScoring
  BY <1>20, WindowKept DEF ReadinessScoring, Ready, Goto, channels, issues, history
<1>21. CASE AntiPremature
  BY <1>21, WindowKept DEF AntiPremature, Ready, Goto, channels, issues, history
<1>22. CASE CosDecision
  <2>1. \A i \in Issue : \/ status'[i] = status[i]
                           \/ status'[i] = "blocked_by_internal_data"
                           \/ status[i] = "absent"
    BY <1>22 DEF CosDecision, CanMaterialize, TypeOK, IssuesType
  <2> QED
    BY <1>22, <2>1, WindowKept DEF CosDecision, Ready, Goto, Route, channels, issues, history
<1>23. CASE DeepAudit
  BY <1>23, WindowKept DEF DeepAudit, Ready, Goto, channels, issues, history
<1>24. CASE HumanPullDefault
  BY <1>24, WindowKept DEF HumanPullDefault, Ready, Goto, AfterPull, channels, issues, history
<1>25. CASE HumanPullAsk
  BY <1>25, WindowKept DEF HumanPullAsk, Ready, Goto, Interrupt, channels, issues, history
<1>26. CASE HumanPullAnswered
  BY <1>26, WindowKept DEF HumanPullAnswered, Ready, Goto, AfterPull, Answering, Resume, channels, issues, history
<1>27. CASE HumanPush
  <2>1. \A i \in Issue : \/ status'[i] = status[i]
                           \/ status'[i] = "blocked_by_internal_data"
                           \/ status[i] = "absent"
    BY <1>27 DEF HumanPush
  <2> QED
    BY <1>27, <2>1, WindowKept DEF HumanPush, Ready, Goto, channels, issues, history
<1>28. CASE HumanReviewPass
  BY <1>28, WindowKept DEF HumanReviewPass, Ready, Goto, channels, issues, history
<1>29. CASE HumanReviewAsk
  BY <1>29, WindowKept DEF HumanReviewAsk, Ready, Goto, Interrupt, channels, issues, history
<1>30. CASE HumanReviewAnswered
  BY <1>30, WindowKept DEF HumanReviewAnswered, Ready, Goto, Answering, Resume, channels, issues, history
<1>31. CASE Abort
  BY <1>31, WindowKept DEF Abort, Ready, Goto, channels, issues, history
<1>32. CASE UNCHANGED vars
  BY <1>32, WindowKept DEF vars, channels, issues, history
<1> QED
  BY <1>1, <1>2, <1>3, <1>4, <1>5, <1>6, <1>7, <1>8, <1>9, <1>10, <1>11, <1>12, <1>13, <1>14, <1>15, <1>16, <1>17, <1>18, <1>19, <1>20, <1>21, <1>22, <1>23, <1>24, <1>25, <1>26, <1>27, <1>28, <1>29, <1>30, <1>31, <1>32
     DEF Next, System, Human, Finished, Research
-----------------------------------------------------------------------------
(* The window.                                                              *)

\* Addressable issues that no researcher is sent for again.
Busy == {i \in AddressableIssues : Title[i] \in researched}

\* They are under way, or lost.
LEMMA BusyFew ==
    ASSUME TypeOK, WindowInv, pc = "research_fanout"
    PROVE  /\ IsFiniteSet(Busy) /\ IsFiniteSet(Lost)
           /\ Cardinality(Busy) \in Nat /\ Cardinality(Lost) \in Nat
           /\ Cardinality(Busy) <= TopK + Cardinality(Lost)
<1>1. Busy \subseteq UnderWay \cup Lost
  <2> SUFFICES ASSUME NEW i \in Busy, i \notin Lost PROVE i \in UnderWay
    OBVIOUS
  <2>1. i \in Issue /\ status[i] \in Addressable /\ buffer[i] # 0
    BY DEF Busy, Lost, AddressableIssues
  <2>2. ~(evidence[i] > 1) /\ evidence[i] \in Nat /\ buffer[i] \in Nat
    BY <2>1 DEF WindowInv, FoldInv, TypeOK, IssuesType, ChannelsType
  <2> QED
    BY <2>1, <2>2 DEF UnderWay, Delivered
<1>2. Cardinality(UnderWay) <= TopK
  BY DEF WindowInv, OneRoundInv
<1>3. Lost \subseteq Issue /\ Busy \subseteq Issue
  BY DEF Lost, Busy, AddressableIssues
<1>4. IsFiniteSet(Lost) /\ IsFiniteSet(Busy) /\ IsFiniteSet(UnderWay)
  BY <1>3, IssueNumbers, SetsFinite, FS_Subset
<1>5. /\ IsFiniteSet(UnderWay \cup Lost) /\ IsFiniteSet(UnderWay \cap Lost)
      /\ Cardinality(UnderWay \cup Lost) =
            Cardinality(UnderWay) + Cardinality(Lost) - Cardinality(UnderWay \cap Lost)
  BY <1>4, FS_Union, FS_Intersection
<1>6. Cardinality(Busy) <= Cardinality(UnderWay \cup Lost)
  BY <1>1, <1>5, FS_Subset
<1>7. /\ Cardinality(UnderWay) \in Nat /\ Cardinality(Lost) \in Nat /\ Cardinality(Busy) \in Nat
      /\ Cardinality(UnderWay \cap Lost) \in Nat
  BY <1>4, <1>5, FS_CardinalityType
<1> QED
  BY <1>2, <1>4, <1>5, <1>6, <1>7, TopKType

\* The first addressable issue of a new title is inside the window.
LEMMA NewInWindow ==
    ASSUME TypeOK, WindowInv, Cardinality(Lost) + TopK < Window, pc = "research_fanout",
           NEW k \in AddressableIssues, Title[k] \notin researched
    PROVE  Candidates # {}
<1> DEFINE New == {i \in AddressableIssues : Title[i] \notin researched}
           g   == [i \in Issue |-> i]
<1>0. AddressableIssues \subseteq Issue
  BY DEF AddressableIssues
<1>1. New \in SUBSET Issue /\ New # {} /\ g \in [Issue -> Nat]
  BY <1>0, IssueNumbers
<1> HIDE DEF New
<1>2. PICK m \in New : \A i \in New : g[m] <= g[i]
  BY <1>1, LeastBy
<1> USE DEF New
<1>3. m \in AddressableIssues /\ m \in Issue /\ Title[m] \notin researched
  BY <1>0, <1>2
<1> DEFINE Ahead == {j \in AddressableIssues : j < m}
<1>4. Ahead \subseteq Busy
  <2> SUFFICES ASSUME NEW j \in AddressableIssues, j < m PROVE Title[j] \in researched
    BY DEF Busy
  <2>1. j \in Issue /\ j \in Nat /\ m \in Nat
    BY <1>0, <1>3, IssueNumbers
  <2>2. g[m] = m /\ g[j] = j
    BY <1>3, <2>1
  <2>3. j \notin New
    BY <1>2, <2>1, <2>2
  <2> QED
    BY <2>3
<1> HIDE DEF Ahead
<1>5. Cardinality(Ahead) < Window
  <2>1. /\ IsFiniteSet(Busy) /\ Cardinality(Busy) <= TopK + Cardinality(Lost)
        /\ Cardinality(Busy) \in Nat /\ Cardinality(Lost) \in Nat
    BY BusyFew
  <2>2. IsFiniteSet(Ahead) /\ Cardinality(Ahead) <= Cardinality(Busy)
    BY <1>4, <2>1, FS_Subset
  <2>3. Cardinality(Ahead) \in Nat
    BY <2>2, FS_CardinalityType
  <2> QED
    BY <2>1, <2>2, <2>3, TopKType
<1>6. m \in RawIds
  BY <1>3, <1>5 DEF RawIds, Ahead
<1> QED
  BY <1>3, <1>6 DEF Candidates

LEMMA CandidatesSelected ==
    ASSUME TypeOK, Candidates # {} PROVE Selected # {}
<1>1. Candidates \in SUBSET Issue
  BY DEF Candidates, RawIds, AddressableIssues
<1>2. PICK x \in Candidates : \A y \in Candidates : ~Before(y, x)
  BY <1>1, FirstOf
<1>3. {j \in Candidates : Before(j, x)} = {}
  BY <1>2
<1>4. Cardinality({j \in Candidates : Before(j, x)}) < TopK
  BY <1>3, FS_EmptySet, TopKType
<1> QED
  BY <1>4 DEF Selected

\* A round finds something new to research, whatever was sent out before, unless failed
\* researchers have filled the supervisor's window (brains/stubs.py, select, and graph.py,
\* select_research_issues).
THEOREM WindowFree == Spec => []WindowNotClogged
<1>1. Spec => []DispatchInv
  BY TypeCorrect, DispatchInit, DispatchStep, PTL DEF Spec
<1>2. Spec => []WindowInv
  BY <1>1, TypeCorrect, WindowInit, WindowStep, PTL DEF Spec
<1>3. TypeOK /\ WindowInv => WindowNotClogged
  BY NewInWindow, CandidatesSelected DEF WindowNotClogged
<1> QED
  BY <1>2, <1>3, TypeCorrect, PTL
=============================================================================
