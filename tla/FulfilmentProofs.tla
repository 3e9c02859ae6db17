-------------------------- MODULE FulfilmentProofs --------------------------
(***************************************************************************)
(* Fulfilment for any number of allocations, results and rows: the shapes  *)
(* of its tables, the finality of a successful writeback, the log that     *)
(* explains the state of a case, the reopening of cases, the evidence of   *)
(* a response, and the freeze of an exited case.                           *)
(*                                                                         *)
(* What readers are shown of an export is its attempt with the highest     *)
(* number; a success there answers every later call, so only the attempts  *)
(* of other exports can still be appended.  The log, the reopenings and    *)
(* the evidence rest on every table being append-only: a transition, an    *)
(* outcome, a capture or a review keeps its meaning, and what a response   *)
(* adds is counted once.  The freeze is about one case: what a call writes *)
(* belongs to the case it was made for, and each refuses an exited one.    *)
(***************************************************************************)
EXTENDS Fulfilment, SequenceTheorems, FiniteSetTheorems, WellFoundedInduction, TLAPS

AttemptRows == [alloc : Allocs, result : Results]

AttemptsTyped == attempts \in Seq(AttemptRows)

\* A recorded attempt is appended to the log and belongs to an export that has not succeeded.
LEMMA AttemptsStep ==
    ASSUME AttemptsTyped, [Next]_vars
    PROVE  \/ UNCHANGED attempts
           \/ \E b \in Allocs, result \in Results :
                 /\ ~Replayed(b)
                 /\ attempts' = Append(attempts, [alloc |-> b, result |-> result])
<1>1. ASSUME NEW a \in Allocs, NEW result \in Results, RecordAttempt(a, result)
      PROVE  /\ ~Replayed(a)
             /\ attempts' = Append(attempts, [alloc |-> a, result |-> result])
  BY <1>1 DEF RecordAttempt
<1>2. ASSUME NEW a \in Allocs,
             \/ Approve(a) \/ Retire(a) \/ RecordDelivery(a)
             \/ \E kind \in Kinds : RecordLearnerFeedback(a, kind)
      PROVE  UNCHANGED attempts
  BY <1>2 DEF Approve, Retire, RecordDelivery, RecordLearnerFeedback
<1>3. ASSUME NEW d \in DOMAIN deliveries, NEW response \in Responses, RecordOutcome(d, response)
      PROVE  UNCHANGED attempts
  BY <1>3 DEF RecordOutcome
<1>4. ASSUME NEW c \in Cases,
             SafetyExit(c) \/ \E to \in {"open", "active", "closed"} : Transition(c, to)
      PROVE  UNCHANGED attempts
  BY <1>4 DEF SafetyExit, Transition
<1>5. CASE UNCHANGED vars
  BY <1>5 DEF vars
<1> QED BY <1>1, <1>2, <1>3, <1>4, <1>5 DEF Next

\* The log of writeback attempts only ever holds attempts for allocations.
THEOREM AttemptsAlwaysTyped == Spec => []AttemptsTyped
<1>1. Init => AttemptsTyped
  BY DEF Init, AttemptsTyped
<1>2. AttemptsTyped /\ [Next]_vars => AttemptsTyped'
  <2>1. SUFFICES ASSUME AttemptsTyped, [Next]_vars PROVE AttemptsTyped'
    OBVIOUS
  <2>2. \A b \in Allocs, result \in Results : [alloc |-> b, result |-> result] \in AttemptRows
    BY DEF AttemptRows
  <2>3. CASE UNCHANGED attempts
    BY <2>1, <2>3 DEF AttemptsTyped
  <2>4. ASSUME NEW b \in Allocs, NEW result \in Results,
               attempts' = Append(attempts, [alloc |-> b, result |-> result])
        PROVE  AttemptsTyped'
    BY <2>1, <2>2, <2>4 DEF AttemptsTyped
  <2> QED BY <2>1, <2>3, <2>4, AttemptsStep
<1> QED BY <1>1, <1>2, PTL DEF Spec

\* One step never takes back a success.
LEMMA StepKeepsSuccess ==
    ASSUME AttemptsTyped, [Next]_vars, NEW a \in Allocs, LocalState(a) = "succeeded"
    PROVE  LocalState(a)' = "succeeded"
<1>1. CASE UNCHANGED attempts
  BY <1>1 DEF LocalState, Latest, AttemptsOf
<1>2. ASSUME NEW b \in Allocs, NEW result \in Results, ~Replayed(b),
             attempts' = Append(attempts, [alloc |-> b, result |-> result])
      PROVE  LocalState(a)' = "succeeded"
  <2> DEFINE last == CHOOSE i \in Latest(a) : TRUE
  <2>1. last \in Latest(a) /\ attempts[last].result = "succeeded"
    BY DEF LocalState
  <2>2. last \in DOMAIN attempts /\ attempts[last].alloc = a
    BY <2>1 DEF Latest, AttemptsOf
  <2>3. b # a
    <3>1. attempts[last] \in AttemptRows
      BY <2>2 DEF AttemptsTyped
    <3>2. attempts[last] = [alloc |-> a, result |-> "succeeded"]
      BY <2>1, <2>2, <3>1 DEF AttemptRows
    <3> QED BY <1>2, <2>2, <3>2 DEF Replayed
  <2>4. AttemptsOf(a)' = AttemptsOf(a)
    BY <1>2, <2>3 DEF AttemptsOf, AttemptsTyped, AttemptRows
  <2>5. attempts'[last] = attempts[last]
    BY <1>2, <2>2 DEF AttemptsTyped, AttemptRows
  <2>6. Latest(a)' = Latest(a)
    BY <2>4 DEF Latest
  <2> HIDE DEF last
  <2> QED BY <2>1, <2>5, <2>6 DEF LocalState, last
<1> QED BY <1>1, <1>2, AttemptsStep

\* Whatever is recorded after it, a success is what every reader of the export keeps seeing
\* (export/services.py:108-142).
THEOREM SuccessStays == Spec => SuccessIsFinal
<1>1. AttemptsTyped /\ [Next]_vars =>
          [\A a \in Allocs : LocalState(a) = "succeeded" => LocalState(a)' = "succeeded"]_vars
  BY StepKeepsSuccess
<1> QED BY <1>1, AttemptsAlwaysTyped, PTL DEF Spec, SuccessIsFinal

-----------------------------------------------------------------------------
(* Reopening                                                               *)

\* A sequence, of whatever it holds.
IsSeq(s) == s \in Seq({s[k] : k \in DOMAIN s})

\* t is s with rows added at the end.
Extends(t, s) == DOMAIN s \subseteq DOMAIN t /\ \A k \in DOMAIN s : t[k] = s[k]

LEMMA SeqDomain == ASSUME NEW s, IsSeq(s) PROVE Len(s) \in Nat /\ DOMAIN s = 1..Len(s)
  BY LenProperties DEF IsSeq

LEMMA EmptyIsSeq == IsSeq(<<>>)
  BY DEF IsSeq

LEMMA TypedIsSeq == ASSUME NEW S, NEW s \in Seq(S) PROVE IsSeq(s)
<1>1. Len(s) \in Nat /\ DOMAIN s = 1..Len(s) /\ s = [k \in 1..Len(s) |-> s[k]]
  BY LenProperties
<1>2. s \in [1..Len(s) -> {s[k] : k \in DOMAIN s}]
  BY <1>1
<1> QED BY <1>1, <1>2, SeqDef DEF IsSeq

\* Appending one row.
LEMMA AppendExtends ==
    ASSUME NEW s, IsSeq(s), NEW e
    PROVE  /\ IsSeq(Append(s, e)) /\ Extends(Append(s, e), s)
           /\ DOMAIN Append(s, e) = 1..(Len(s) + 1)
           /\ Append(s, e)[Len(s) + 1] = e
<1> DEFINE S == {s[k] : k \in DOMAIN s} \cup {e}
<1>1. s \in Seq(S) /\ e \in S
  BY SeqDomain, SeqDef DEF IsSeq
<1>2. Append(s, e) \in Seq(S) /\ Len(Append(s, e)) = Len(s) + 1
  <2> HIDE DEF S
  <2> QED BY <1>1, AppendProperties
<1>3. DOMAIN Append(s, e) = 1..(Len(s) + 1)
  BY <1>2, LenProperties
<1>4. /\ \A k \in 1..Len(s) : Append(s, e)[k] = s[k]
      /\ Append(s, e)[Len(s) + 1] = e
  <2> HIDE DEF S
  <2> QED BY <1>1, AppendProperties
<1>5. IsSeq(Append(s, e))
  <2> HIDE DEF S
  <2> QED BY <1>2, TypedIsSeq
<1> QED BY <1>3, <1>4, <1>5, SeqDomain DEF Extends


States == {"open", "active", "closed"}

\* An outcome that must reopen its case.
Unresolved(i) == outcomes[i].by = "adviser" /\ outcomes[i].response = "unresolved"

\* A transition made for an outcome: from closed, in the case of the outcome's delivery.
MoveExplained(t) ==
    /\ transitions[t].outcome \in Nat
    /\ transitions[t].outcome # 0 =>
          /\ transitions[t].outcome \in DOMAIN outcomes
          /\ Unresolved(transitions[t].outcome)
          /\ transitions[t].from = "closed"
          /\ transitions[t].case = CaseOf[deliveries[outcomes[transitions[t].outcome].delivery]]

\* The outcome has its one reopening.
Restored(i) ==
    \E t \in DOMAIN transitions :
        /\ transitions[t].outcome = i
        /\ \A u \in DOMAIN transitions : transitions[u].outcome = i => u = t

\* A review request that is still answered by the state of its case.
Heard(f) ==
    \E r \in reviews :
        /\ r.feedback = f
        /\ \/ caseState[CaseOf[feedback[f].alloc]] = "open"
           \/ \E t \in (r.after + 1)..Len(transitions) :
                 /\ transitions[t].case = CaseOf[feedback[f].alloc]
                 /\ transitions[t].by = "adviser"

TablesOK ==
    /\ IsSeq(deliveries) /\ IsSeq(outcomes) /\ IsSeq(transitions) /\ IsSeq(feedback)
    /\ caseState \in [Cases -> States]

RowsOK ==
    /\ \A d \in DOMAIN deliveries : deliveries[d] \in Allocs
    /\ \A f \in DOMAIN feedback : feedback[f].alloc \in Allocs
    /\ \A i \in DOMAIN outcomes : outcomes[i].delivery \in DOMAIN deliveries
    /\ \A r \in reviews : r.after \in 0..Len(transitions)

ReopenInv ==
    /\ TablesOK
    /\ RowsOK
    /\ \A t \in DOMAIN transitions : MoveExplained(t)
    /\ \A i \in DOMAIN outcomes : Unresolved(i) => Restored(i)
    /\ \A f \in DOMAIN feedback : feedback[f].kind # "helped" => Heard(f)

\* Every table is what it was, with rows added.
Grown ==
    /\ TablesOK'
    /\ Extends(deliveries', deliveries) /\ Extends(outcomes', outcomes)
    /\ Extends(transitions', transitions) /\ Extends(feedback', feedback)
    /\ reviews \subseteq reviews'

LEMMA CasesOf == \A a \in Allocs : CaseOf[a] \in Cases
  BY DEF Cases

LEMMA SameExtends == ASSUME NEW s PROVE Extends(s, s)
  BY DEF Extends

\* What a logged move adds.
LEMMA MovedAdds ==
    ASSUME TablesOK, NEW c \in Cases, NEW to \in States, NEW by, NEW outcome,
           Moved(c, to, by, outcome)
    PROVE  /\ IsSeq(transitions') /\ Extends(transitions', transitions)
           /\ DOMAIN transitions' = 1..(Len(transitions) + 1)
           /\ Len(transitions') = Len(transitions) + 1
           /\ transitions'[Len(transitions) + 1] =
                 [case |-> c, from |-> caseState[c], to |-> to, by |-> by, outcome |-> outcome]
           /\ caseState' \in [Cases -> States]
           /\ caseState' = [caseState EXCEPT ![c] = to]
<1> DEFINE e == [case |-> c, from |-> caseState[c], to |-> to, by |-> by, outcome |-> outcome]
<1>1. transitions' = Append(transitions, e) /\ caseState' = [caseState EXCEPT ![c] = to]
  BY DEF Moved
<1>2. IsSeq(transitions) /\ caseState \in [Cases -> States]
  BY DEF TablesOK
<1> HIDE DEF e
<1>3. /\ IsSeq(transitions') /\ Extends(transitions', transitions)
      /\ DOMAIN transitions' = 1..(Len(transitions) + 1)
      /\ transitions'[Len(transitions) + 1] = e
  BY <1>1, <1>2, AppendExtends
<1>4. Len(transitions') = Len(transitions) + 1
  <2>1. Len(transitions) \in Nat /\ Len(transitions') \in Nat /\ DOMAIN transitions' = 1..Len(transitions')
    BY <1>2, <1>3, SeqDomain
  <2> QED BY <1>3, <2>1
<1>5. caseState' \in [Cases -> States]
  BY <1>1, <1>2
<1> QED BY <1>1, <1>3, <1>4, <1>5 DEF e

\* What explained a move goes on explaining it.
LEMMA MovesStay ==
    ASSUME ReopenInv, Grown, NEW t \in DOMAIN transitions
    PROVE  MoveExplained(t)'
<1>1. MoveExplained(t) /\ transitions'[t] = transitions[t]
  BY DEF ReopenInv, Grown, Extends
<1>2. \A i \in DOMAIN outcomes : /\ i \in DOMAIN outcomes' /\ outcomes'[i] = outcomes[i]
                                 /\ outcomes[i].delivery \in DOMAIN deliveries
  BY DEF ReopenInv, RowsOK, Grown, Extends
<1>3. \A d \in DOMAIN deliveries : deliveries'[d] = deliveries[d]
  BY DEF Grown, Extends
<1> QED BY <1>1, <1>2, <1>3 DEF MoveExplained, Unresolved

\* An outcome keeps its one reopening while no new move is made for it.
LEMMA RestoredStays ==
    ASSUME ReopenInv, Grown, NEW i \in DOMAIN outcomes, Unresolved(i)',
           \A t \in DOMAIN transitions' \ DOMAIN transitions : transitions'[t].outcome # i
    PROVE  Restored(i)'
<1>1. Unresolved(i)
  BY DEF Grown, Extends, Unresolved
<1>2. PICK t \in DOMAIN transitions : /\ transitions[t].outcome = i
                                      /\ \A u \in DOMAIN transitions : transitions[u].outcome = i => u = t
  BY <1>1 DEF ReopenInv, Restored
<1>3. /\ DOMAIN transitions \subseteq DOMAIN transitions'
      /\ \A u \in DOMAIN transitions : transitions'[u] = transitions[u]
  BY DEF Grown, Extends
<1>4. \A u \in DOMAIN transitions' : transitions'[u].outcome = i => u = t
  BY <1>2, <1>3
<1> QED BY <1>2, <1>3, <1>4 DEF Restored

\* A review is still answered when its case is untouched, taken to open, or moved by an adviser.
LEMMA HeardStays ==
    ASSUME ReopenInv, Grown, NEW f \in DOMAIN feedback, feedback[f].kind # "helped",
           \/ caseState'[CaseOf[feedback[f].alloc]] = "open"
           \/ caseState'[CaseOf[feedback[f].alloc]] = caseState[CaseOf[feedback[f].alloc]]
           \/ /\ DOMAIN transitions' = 1..(Len(transitions) + 1)
              /\ transitions'[Len(transitions) + 1].case = CaseOf[feedback[f].alloc]
              /\ transitions'[Len(transitions) + 1].by = "adviser"
    PROVE  Heard(f)'
<1> DEFINE c == CaseOf[feedback[f].alloc]
<1>1. PICK r \in reviews :
          /\ r.feedback = f
          /\ \/ caseState[c] = "open"
             \/ \E t \in (r.after + 1)..Len(transitions) :
                   transitions[t].case = c /\ transitions[t].by = "adviser"
  BY DEF ReopenInv, Heard
<1>2. r \in reviews' /\ feedback'[f] = feedback[f]
  BY DEF Grown, Extends
<1>3. PICK n \in Nat : n = Len(transitions) /\ DOMAIN transitions = 1..n
  BY SeqDomain DEF ReopenInv, TablesOK
<1>4. PICK m \in Nat : m = Len(transitions') /\ DOMAIN transitions' = 1..m
  <2>1. IsSeq(transitions')
    BY DEF Grown, TablesOK
  <2> QED BY <2>1, SeqDomain
<1>5. /\ DOMAIN transitions \subseteq DOMAIN transitions'
      /\ \A t \in DOMAIN transitions : transitions'[t] = transitions[t]
  BY DEF Grown, Extends
<1>6. PICK after \in Nat : after = r.after /\ after <= n
  <2>1. r.after \in 0..n
    BY <1>3 DEF ReopenInv, RowsOK
  <2> QED BY <1>3, <2>1
<1>7. SUFFICES \/ caseState'[c] = "open"
               \/ \E t \in (after + 1)..m :
                     transitions'[t].case = c /\ transitions'[t].by = "adviser"
  BY <1>1, <1>2, <1>4, <1>6 DEF Heard
<1>8. CASE \E t \in (after + 1)..n : transitions[t].case = c /\ transitions[t].by = "adviser"
  <2>1. PICK t \in (after + 1)..n : transitions[t].case = c /\ transitions[t].by = "adviser"
    BY <1>8
  <2>2. t \in 1..n /\ t \in 1..m
    BY <1>3, <1>4, <1>5, <2>1
  <2>3. t \in (after + 1)..m
    BY <1>6, <2>1, <2>2
  <2> QED BY <1>3, <1>5, <2>1, <2>2, <2>3
<1>9. CASE /\ DOMAIN transitions' = 1..(Len(transitions) + 1)
           /\ transitions'[Len(transitions) + 1].case = c
           /\ transitions'[Len(transitions) + 1].by = "adviser"
  <2>1. n + 1 \in 1..m
    <3>1. 1..m = 1..(n + 1)
      BY <1>3, <1>4, <1>9
    <3> QED BY <1>3, <3>1
  <2>2. n + 1 \in (after + 1)..m
    BY <1>6, <2>1
  <2> QED BY <1>3, <1>9, <2>2
<1> QED BY <1>1, <1>3, <1>6, <1>8, <1>9

\* A step keeps the invariant when what it adds does, and no case an open review waits for is
\* taken away from open by anyone but an adviser.
LEMMA GrownInv ==
    ASSUME ReopenInv, Grown, RowsOK',
           \A t \in DOMAIN transitions' \ DOMAIN transitions :
               MoveExplained(t)' /\ transitions'[t].outcome \notin DOMAIN outcomes,
           \A i \in DOMAIN outcomes' \ DOMAIN outcomes : Unresolved(i)' => Restored(i)',
           \A f \in DOMAIN feedback' \ DOMAIN feedback : feedback'[f].kind # "helped" => Heard(f)',
           \A c \in Cases :
               \/ caseState'[c] = "open"
               \/ caseState'[c] = caseState[c]
               \/ /\ DOMAIN transitions' = 1..(Len(transitions) + 1)
                  /\ transitions'[Len(transitions) + 1].case = c
                  /\ transitions'[Len(transitions) + 1].by = "adviser"
    PROVE  ReopenInv'
<1>1. \A t \in DOMAIN transitions' : MoveExplained(t)'
  BY MovesStay
<1>2. \A i \in DOMAIN outcomes' : Unresolved(i)' => Restored(i)'
  <2>1. ASSUME NEW i \in DOMAIN outcomes, Unresolved(i)' PROVE Restored(i)'
    BY <2>1, RestoredStays
  <2> QED BY <2>1
<1>3. \A f \in DOMAIN feedback' : feedback'[f].kind # "helped" => Heard(f)'
  <2>1. ASSUME NEW f \in DOMAIN feedback, feedback'[f].kind # "helped" PROVE Heard(f)'
    <3>1. feedback[f].kind # "helped"
      BY <2>1 DEF Grown, Extends
    <3>2. CaseOf[feedback[f].alloc] \in Cases
      BY CasesOf DEF ReopenInv, RowsOK
    <3> QED BY <3>1, <3>2, HeardStays
  <2> QED BY <2>1
<1> QED BY <1>1, <1>2, <1>3 DEF ReopenInv, Grown

LEMMA QuietInv ==
    ASSUME ReopenInv,
           UNCHANGED <<caseState, transitions, deliveries, outcomes, feedback, reviews>>
    PROVE  ReopenInv'
<1>1. Grown /\ RowsOK'
  BY SameExtends DEF ReopenInv, TablesOK, RowsOK, Grown
<1> QED BY <1>1, GrownInv

LEMMA DeliveryInv ==
    ASSUME ReopenInv, NEW a \in Allocs, RecordDelivery(a)
    PROVE  ReopenInv'
<1>1. /\ deliveries' = Append(deliveries, a)
      /\ UNCHANGED <<caseState, transitions, outcomes, feedback, reviews>>
  BY DEF RecordDelivery
<1>2. IsSeq(deliveries)
  BY DEF ReopenInv, TablesOK
<1>3. /\ IsSeq(deliveries') /\ Extends(deliveries', deliveries)
      /\ DOMAIN deliveries' = 1..(Len(deliveries) + 1) /\ deliveries'[Len(deliveries) + 1] = a
  BY <1>1, <1>2, AppendExtends
<1>4. Grown
  BY <1>1, <1>3, SameExtends DEF ReopenInv, TablesOK, Grown
<1>5. \A d \in DOMAIN deliveries' : deliveries'[d] \in Allocs
  <2>1. Len(deliveries) \in Nat /\ DOMAIN deliveries = 1..Len(deliveries)
    BY <1>2, SeqDomain
  <2>2. \A d \in DOMAIN deliveries' : d \in DOMAIN deliveries \/ d = Len(deliveries) + 1
    BY <1>3, <2>1
  <2> QED BY <1>3, <2>2 DEF ReopenInv, RowsOK, Extends
<1>6. RowsOK'
  BY <1>1, <1>3, <1>5 DEF ReopenInv, RowsOK, Extends
<1> QED BY <1>1, <1>4, <1>6, GrownInv

LEMMA TransitionInv ==
    ASSUME ReopenInv, NEW c \in Cases, NEW to \in States, Transition(c, to)
    PROVE  ReopenInv'
<1>1. /\ Moved(c, to, "adviser", 0)
      /\ UNCHANGED <<deliveries, outcomes, feedback, reviews>>
  BY DEF Transition, MovedByAdviser
<1>2. TablesOK
  BY DEF ReopenInv
<1>3. /\ IsSeq(transitions') /\ Extends(transitions', transitions)
      /\ DOMAIN transitions' = 1..(Len(transitions) + 1)
      /\ Len(transitions') = Len(transitions) + 1
      /\ transitions'[Len(transitions) + 1] =
            [case |-> c, from |-> caseState[c], to |-> to, by |-> "adviser", outcome |-> 0]
      /\ caseState' \in [Cases -> States]
      /\ caseState' = [caseState EXCEPT ![c] = to]
  BY <1>1, <1>2, MovedAdds
<1>4. Len(transitions) \in Nat /\ DOMAIN transitions = 1..Len(transitions)
  BY <1>2, SeqDomain DEF TablesOK
<1>5. Grown
  BY <1>1, <1>2, <1>3, SameExtends DEF TablesOK, Grown
<1>6. RowsOK'
  <2>1. \A r \in reviews' : r.after \in 0..Len(transitions')
    BY <1>1, <1>3, <1>4 DEF ReopenInv, RowsOK
  <2> QED BY <1>1, <2>1 DEF ReopenInv, RowsOK
<1>7. \A t \in DOMAIN transitions' \ DOMAIN transitions :
          t = Len(transitions) + 1 /\ transitions'[t].outcome = 0
  BY <1>3, <1>4
<1>8. 0 \notin DOMAIN outcomes
  BY <1>2, SeqDomain DEF TablesOK
<1>9. \A t \in DOMAIN transitions' \ DOMAIN transitions :
          MoveExplained(t)' /\ transitions'[t].outcome \notin DOMAIN outcomes
  BY <1>7, <1>8 DEF MoveExplained
<1>10. \A d \in Cases : \/ caseState'[d] = caseState[d]
                        \/ /\ DOMAIN transitions' = 1..(Len(transitions) + 1)
                           /\ transitions'[Len(transitions) + 1].case = d
                           /\ transitions'[Len(transitions) + 1].by = "adviser"
  BY <1>2, <1>3 DEF TablesOK
<1> QED BY <1>1, <1>5, <1>6, <1>9, <1>10, GrownInv

LEMMA OutcomeInv ==
    ASSUME ReopenInv, NEW d \in DOMAIN deliveries, NEW response \in Responses,
           RecordOutcome(d, response)
    PROVE  ReopenInv'
<1> DEFINE c == CaseOf[deliveries[d]]
           e == [delivery |-> d, response |-> response, by |-> "adviser"]
<1>1. /\ outcomes' = Append(outcomes, e)
      /\ IF response = "unresolved" THEN ReopenFromUnresolved(c, Len(outcomes) + 1)
         ELSE UNCHANGED <<transitions, caseState>>
      /\ UNCHANGED <<deliveries, feedback, reviews>>
  BY DEF RecordOutcome
<1>2. TablesOK /\ RowsOK /\ IsSeq(outcomes) /\ IsSeq(transitions)
  BY DEF ReopenInv, TablesOK
<1>3. c \in Cases
  BY <1>2, CasesOf DEF RowsOK
<1>4. PICK n \in Nat : n = Len(outcomes) /\ DOMAIN outcomes = 1..n
  BY <1>2, SeqDomain
<1>5. PICK m \in Nat : m = Len(transitions) /\ DOMAIN transitions = 1..m
  BY <1>2, SeqDomain
<1>6. /\ IsSeq(outcomes') /\ Extends(outcomes', outcomes)
      /\ DOMAIN outcomes' = 1..(n + 1) /\ outcomes'[n + 1] = e
  <2> HIDE DEF e
  <2> QED BY <1>1, <1>2, <1>4, AppendExtends
<1>7. \A i \in DOMAIN outcomes' \ DOMAIN outcomes : i = n + 1
  BY <1>4, <1>6
<1>8. \A i \in DOMAIN outcomes' : outcomes'[i].delivery \in DOMAIN deliveries'
  <2>1. \A i \in DOMAIN outcomes : outcomes'[i] = outcomes[i]
    BY <1>6 DEF Extends
  <2> QED BY <1>1, <1>2, <1>6, <1>7, <2>1 DEF RowsOK
<1>9. CASE response # "unresolved"
  <2>1. UNCHANGED <<transitions, caseState>>
    BY <1>1, <1>9
  <2>2. Grown
    BY <1>1, <1>2, <1>6, <2>1, SameExtends DEF TablesOK, Grown
  <2>3. RowsOK'
    BY <1>1, <1>2, <1>8, <2>1 DEF RowsOK
  <2>4. \A i \in DOMAIN outcomes' \ DOMAIN outcomes : ~Unresolved(i)'
    BY <1>6, <1>7, <1>9 DEF Unresolved
  <2> QED BY <1>1, <2>1, <2>2, <2>3, <2>4, GrownInv
<1>10. CASE response = "unresolved"
  <2>1. Moved(c, "open", "feedback", n + 1) /\ caseState[c] = "closed"
    BY <1>1, <1>4, <1>10 DEF ReopenFromUnresolved
  <2> HIDE DEF c
  <2>2. "open" \in States
    BY DEF States
  <2>3. /\ IsSeq(transitions') /\ Extends(transitions', transitions)
        /\ DOMAIN transitions' = 1..(m + 1) /\ Len(transitions') = m + 1
        /\ transitions'[m + 1] =
              [case |-> c, from |-> "closed", to |-> "open", by |-> "feedback", outcome |-> n + 1]
        /\ caseState' \in [Cases -> States]
        /\ caseState' = [caseState EXCEPT ![c] = "open"]
    BY <1>2, <1>3, <1>5, <2>1, <2>2, MovedAdds
  <2>4. Grown
    BY <1>1, <1>2, <1>6, <2>3, SameExtends DEF TablesOK, Grown
  <2>5. RowsOK'
    <3>1. \A r \in reviews' : r.after \in 0..Len(transitions')
      BY <1>1, <1>2, <1>5, <2>3 DEF RowsOK
    <3> QED BY <1>1, <1>2, <1>8, <3>1 DEF RowsOK
  <2>6. \A t \in DOMAIN transitions' \ DOMAIN transitions : t = m + 1
    BY <1>5, <2>3
  <2>7. n + 1 \in DOMAIN outcomes' /\ n + 1 \notin DOMAIN outcomes /\ n + 1 # 0
    BY <1>4, <1>6
  <2>8. MoveExplained(m + 1)'
    <3>1. Unresolved(n + 1)' /\ outcomes'[n + 1].delivery = d
      BY <1>6, <1>10 DEF Unresolved
    <3>2. c = CaseOf[deliveries'[outcomes'[n + 1].delivery]]
      BY <1>1, <3>1 DEF c
    <3> QED BY <2>3, <2>7, <3>1, <3>2 DEF MoveExplained
  <2>9. \A t \in DOMAIN transitions' \ DOMAIN transitions :
            MoveExplained(t)' /\ transitions'[t].outcome \notin DOMAIN outcomes
    BY <2>3, <2>6, <2>7, <2>8
  <2>10. Restored(n + 1)'
    <3>1. m + 1 \in DOMAIN transitions' /\ transitions'[m + 1].outcome = n + 1
      BY <2>3
    <3>2. ASSUME NEW u \in DOMAIN transitions', transitions'[u].outcome = n + 1 PROVE u = m + 1
      <4>1. CASE u \in DOMAIN transitions
        <5>1. transitions[u].outcome = n + 1
          BY <2>3, <3>2, <4>1 DEF Extends
        <5>2. n + 1 \in DOMAIN outcomes
          BY <2>7, <4>1, <5>1 DEF ReopenInv, MoveExplained
        <5> QED BY <2>7, <5>2
      <4> QED BY <2>6, <4>1
    <3> QED BY <3>1, <3>2 DEF Restored
  <2>11. \A x \in Cases : caseState'[x] = "open" \/ caseState'[x] = caseState[x]
    BY <1>2, <2>3 DEF TablesOK
  <2> QED BY <1>1, <1>7, <2>4, <2>5, <2>9, <2>10, <2>11, GrownInv
<1> QED BY <1>9, <1>10

\* A response may store a delivery and its outcome, which no adviser confirmed.
LEMMA RespondedAdds ==
    ASSUME TablesOK, RowsOK, NEW a \in Allocs, NEW kind, RespondedAs(a, kind)
    PROVE  /\ IsSeq(deliveries') /\ Extends(deliveries', deliveries)
           /\ IsSeq(outcomes') /\ Extends(outcomes', outcomes)
           /\ \A d \in DOMAIN deliveries' : deliveries'[d] \in Allocs
           /\ \A i \in DOMAIN outcomes' : outcomes'[i].delivery \in DOMAIN deliveries'
           /\ \A i \in DOMAIN outcomes' \ DOMAIN outcomes : ~Unresolved(i)'
<1>1. CASE kind \notin {"helped", "unresolved"}
  <2>1. UNCHANGED <<deliveries, outcomes>>
    BY <1>1 DEF RespondedAs
  <2> QED BY <2>1, SameExtends DEF TablesOK, RowsOK
<1>2. CASE kind \in {"helped", "unresolved"}
  <2> DEFINE e == [delivery |-> Len(deliveries) + 1, response |-> kind, by |-> "learner"]
  <2>1. deliveries' = Append(deliveries, a) /\ outcomes' = Append(outcomes, e)
    BY <1>2 DEF RespondedAs
  <2>2. PICK p \in Nat : p = Len(deliveries) /\ DOMAIN deliveries = 1..p
    BY SeqDomain DEF TablesOK
  <2>3. PICK n \in Nat : n = Len(outcomes) /\ DOMAIN outcomes = 1..n
    BY SeqDomain DEF TablesOK
  <2>4. e.delivery = p + 1 /\ e.by = "learner"
    BY <2>2
  <2> HIDE DEF e
  <2>5. /\ IsSeq(deliveries') /\ Extends(deliveries', deliveries)
        /\ DOMAIN deliveries' = 1..(p + 1) /\ deliveries'[p + 1] = a
    BY <2>1, <2>2, AppendExtends DEF TablesOK
  <2>6. /\ IsSeq(outcomes') /\ Extends(outcomes', outcomes)
        /\ DOMAIN outcomes' = 1..(n + 1) /\ outcomes'[n + 1] = e
    BY <2>1, <2>3, AppendExtends DEF TablesOK
  <2>7. \A x \in DOMAIN deliveries' : x \in DOMAIN deliveries \/ x = p + 1
    BY <2>2, <2>5
  <2>8. \A i \in DOMAIN outcomes' : i \in DOMAIN outcomes \/ i = n + 1
    BY <2>3, <2>6
  <2>9. \A x \in DOMAIN deliveries' : deliveries'[x] \in Allocs
    BY <2>5, <2>7 DEF RowsOK, Extends
  <2>10. p + 1 \in DOMAIN deliveries'
    BY <2>5
  <2>11. \A i \in DOMAIN outcomes' : outcomes'[i].delivery \in DOMAIN deliveries'
    BY <2>4, <2>5, <2>6, <2>8, <2>10 DEF RowsOK, Extends
  <2>12. \A i \in DOMAIN outcomes' \ DOMAIN outcomes : ~Unresolved(i)'
    BY <2>4, <2>6, <2>8 DEF Unresolved
  <2> QED BY <2>5, <2>6, <2>9, <2>11, <2>12
<1> QED BY <1>1, <1>2

\* A response that needs the staff leaves its case open, with a review for it.
LEMMA ReviewAdds ==
    ASSUME TablesOK, RowsOK, NEW c \in Cases, NEW f,
           \/ OpenReview(c, f)
           \/ UNCHANGED <<reviews, transitions, caseState>>
    PROVE  /\ IsSeq(transitions') /\ Extends(transitions', transitions)
           /\ caseState' \in [Cases -> States]
           /\ reviews \subseteq reviews'
           /\ \A r \in reviews' : r.after \in 0..Len(transitions')
           /\ \A t \in DOMAIN transitions' \ DOMAIN transitions : transitions'[t].outcome = 0
           /\ \A x \in Cases : caseState'[x] = "open" \/ caseState'[x] = caseState[x]
           /\ OpenReview(c, f) =>
                 caseState'[c] = "open" /\ \E r \in reviews' : r.feedback = f
<1>1. PICK m \in Nat : m = Len(transitions) /\ DOMAIN transitions = 1..m
  BY SeqDomain DEF TablesOK
<1>2. \A r \in reviews : r.after \in 0..m
  BY <1>1 DEF RowsOK
<1>3. CASE UNCHANGED <<reviews, transitions, caseState>> /\ ~OpenReview(c, f)
  BY <1>1, <1>2, <1>3, SameExtends DEF TablesOK
<1>4. CASE OpenReview(c, f)
  <2>1. /\ reviews' = reviews \cup {[feedback |-> f, after |-> m]}
        /\ IF caseState[c] # "open" THEN Moved(c, "open", "feedback", 0)
           ELSE UNCHANGED <<transitions, caseState>>
    BY <1>1, <1>4 DEF OpenReview
  <2>2. \A r \in reviews' : r.after \in 0..m
    BY <1>2, <2>1
  <2>3. \E r \in reviews' : r.feedback = f
    <3>1. [feedback |-> f, after |-> m] \in reviews'
      BY <2>1
    <3>2. [feedback |-> f, after |-> m].feedback = f
      OBVIOUS
    <3> QED BY <3>1, <3>2
  <2>4. CASE caseState[c] = "open"
    BY <1>1, <2>1, <2>2, <2>3, <2>4, SameExtends DEF TablesOK
  <2>5. CASE caseState[c] # "open"
    <3>1. Moved(c, "open", "feedback", 0) /\ "open" \in States
      BY <2>1, <2>5 DEF States
    <3>2. /\ IsSeq(transitions') /\ Extends(transitions', transitions)
          /\ DOMAIN transitions' = 1..(m + 1) /\ Len(transitions') = m + 1
          /\ transitions'[m + 1] = [case |-> c, from |-> caseState[c], to |-> "open",
                                    by |-> "feedback", outcome |-> 0]
          /\ caseState' \in [Cases -> States]
          /\ caseState' = [caseState EXCEPT ![c] = "open"]
      BY <1>1, <3>1, MovedAdds
    <3>3. \A t \in DOMAIN transitions' \ DOMAIN transitions : transitions'[t].outcome = 0
      <4>1. \A t \in DOMAIN transitions' \ DOMAIN transitions : t = m + 1
        BY <1>1, <3>2
      <4> QED BY <3>2, <4>1
    <3>4. \A r \in reviews' : r.after \in 0..Len(transitions')
      BY <2>2, <3>2
    <3>5. \A x \in Cases : caseState'[x] = "open" \/ caseState'[x] = caseState[x]
      BY <3>2 DEF TablesOK
    <3>6. caseState'[c] = "open"
      BY <3>2 DEF TablesOK
    <3> QED BY <2>1, <2>3, <3>2, <3>3, <3>4, <3>5, <3>6
  <2> QED BY <2>4, <2>5
<1> QED BY <1>3, <1>4

LEMMA FeedbackInv ==
    ASSUME ReopenInv, NEW a \in Allocs, NEW kind \in Kinds, RecordLearnerFeedback(a, kind)
    PROVE  ReopenInv'
<1> DEFINE e == [alloc |-> a, kind |-> kind,
                 correction |-> IF kind = "correction" THEN Len(captures) + 1 ELSE 0]
<1>1. /\ feedback' = Append(feedback, e)
      /\ RespondedAs(a, kind)
      /\ IF kind \in {"unresolved", "human_help", "correction"}
         THEN OpenReview(CaseOf[a], Len(feedback) + 1)
         ELSE UNCHANGED <<reviews, transitions, caseState>>
  BY DEF RecordLearnerFeedback
<1>2. e.alloc = a /\ e.kind = kind
  OBVIOUS
<1> HIDE DEF e
<1>3. TablesOK /\ RowsOK /\ CaseOf[a] \in Cases
  BY CasesOf DEF ReopenInv
<1>4. PICK n \in Nat : n = Len(feedback) /\ DOMAIN feedback = 1..n
  BY <1>3, SeqDomain DEF TablesOK
<1>5. /\ IsSeq(feedback') /\ Extends(feedback', feedback)
      /\ DOMAIN feedback' = 1..(n + 1) /\ feedback'[n + 1] = e
  BY <1>1, <1>3, <1>4, AppendExtends DEF TablesOK
<1>6. /\ IsSeq(deliveries') /\ Extends(deliveries', deliveries)
      /\ IsSeq(outcomes') /\ Extends(outcomes', outcomes)
      /\ \A d \in DOMAIN deliveries' : deliveries'[d] \in Allocs
      /\ \A i \in DOMAIN outcomes' : outcomes'[i].delivery \in DOMAIN deliveries'
      /\ \A i \in DOMAIN outcomes' \ DOMAIN outcomes : ~Unresolved(i)'
  BY <1>1, <1>3, RespondedAdds
<1>7. /\ IsSeq(transitions') /\ Extends(transitions', transitions)
      /\ caseState' \in [Cases -> States]
      /\ reviews \subseteq reviews'
      /\ \A r \in reviews' : r.after \in 0..Len(transitions')
      /\ \A t \in DOMAIN transitions' \ DOMAIN transitions : transitions'[t].outcome = 0
      /\ \A x \in Cases : caseState'[x] = "open" \/ caseState'[x] = caseState[x]
      /\ OpenReview(CaseOf[a], n + 1) =>
            caseState'[CaseOf[a]] = "open" /\ \E r \in reviews' : r.feedback = n + 1
  BY <1>1, <1>3, <1>4, ReviewAdds
<1>8. Grown
  BY <1>5, <1>6, <1>7 DEF TablesOK, Grown
<1>9. \A f \in DOMAIN feedback' : f \in DOMAIN feedback \/ f = n + 1
  BY <1>4, <1>5
<1>10. RowsOK'
  <2>1. \A f \in DOMAIN feedback' : feedback'[f].alloc \in Allocs
    BY <1>2, <1>3, <1>5, <1>9 DEF RowsOK, Extends
  <2> QED BY <1>6, <1>7, <2>1 DEF RowsOK
<1>11. \A t \in DOMAIN transitions' \ DOMAIN transitions :
          MoveExplained(t)' /\ transitions'[t].outcome \notin DOMAIN outcomes
  <2>1. 0 \notin DOMAIN outcomes
    BY <1>3, SeqDomain DEF TablesOK
  <2> QED BY <1>7, <2>1 DEF MoveExplained
<1>12. \A f \in DOMAIN feedback' \ DOMAIN feedback : feedback'[f].kind # "helped" => Heard(f)'
  <2>1. ASSUME kind # "helped" PROVE Heard(n + 1)'
    <3>1. OpenReview(CaseOf[a], n + 1)
      BY <1>1, <1>4, <2>1 DEF Kinds
    <3>2. feedback'[n + 1].alloc = a
      BY <1>2, <1>5
    <3> QED BY <1>7, <3>1, <3>2 DEF Heard
  <2> QED BY <1>2, <1>5, <1>9, <2>1
<1> QED BY <1>6, <1>7, <1>8, <1>10, <1>11, <1>12, GrownInv

LEMMA StepReopenInv == ReopenInv /\ [Next]_vars => ReopenInv'
<1> SUFFICES ASSUME ReopenInv, [Next]_vars PROVE ReopenInv'
  OBVIOUS
<1>1. ASSUME NEW a \in Allocs, NEW result \in Results, RecordAttempt(a, result)
      PROVE  ReopenInv'
  BY <1>1, QuietInv DEF RecordAttempt
<1>2. ASSUME NEW a \in Allocs, Approve(a) \/ Retire(a)
      PROVE  ReopenInv'
  BY <1>2, QuietInv DEF Approve, Retire
<1>3. ASSUME NEW c \in Cases, SafetyExit(c)
      PROVE  ReopenInv'
  BY <1>3, QuietInv DEF SafetyExit
<1>4. CASE UNCHANGED vars
  BY <1>4, QuietInv DEF vars
<1>5. ASSUME NEW c \in Cases, NEW to \in {"open", "active", "closed"}, Transition(c, to)
      PROVE  ReopenInv'
  BY <1>5, TransitionInv DEF States
<1> QED BY <1>1, <1>2, <1>3, <1>4, <1>5, DeliveryInv, OutcomeInv, FeedbackInv DEF Next

THEOREM ReopeningsExplained == Spec => []ReopenInv
<1>1. Init => ReopenInv
  <2> SUFFICES ASSUME Init PROVE ReopenInv
    OBVIOUS
  <2>1. /\ deliveries = <<>> /\ outcomes = <<>> /\ transitions = <<>> /\ feedback = <<>>
        /\ reviews = {} /\ caseState = [c \in Cases |-> "open"]
    BY DEF Init
  <2>2. TablesOK
    BY <2>1, EmptyIsSeq DEF TablesOK, States
  <2> QED BY <2>1, <2>2 DEF ReopenInv, RowsOK
<1> QED BY <1>1, StepReopenInv, PTL DEF Spec

\* Every unresolved outcome an adviser confirmed reopened its case, once, and no other outcome
\* reopened any (delivery_feedback/services.py:36-58, casework/services.py:44-77).
THEOREM ReopensOnce == Spec => []ReopenedExactlyOnce
<1>1. ReopenInv => ReopenedExactlyOnce
  <2> SUFFICES ASSUME ReopenInv, NEW i \in DOMAIN outcomes
               PROVE  LET reopenings == {t \in DOMAIN transitions : transitions[t].outcome = i}
                      IN  /\ Cardinality(reopenings) = IF Unresolved(i) THEN 1 ELSE 0
                          /\ \A t \in reopenings :
                                /\ transitions[t].from = "closed"
                                /\ transitions[t].case = CaseOf[deliveries[outcomes[i].delivery]]
    BY DEF ReopenedExactlyOnce, Unresolved
  <2> DEFINE reopenings == {t \in DOMAIN transitions : transitions[t].outcome = i}
  <2>1. i # 0
    BY SeqDomain DEF ReopenInv, TablesOK
  <2>2. \A t \in reopenings : /\ Unresolved(i)
                              /\ transitions[t].from = "closed"
                              /\ transitions[t].case = CaseOf[deliveries[outcomes[i].delivery]]
    BY <2>1 DEF ReopenInv, MoveExplained
  <2>3. CASE Unresolved(i)
    <3>1. PICK t \in DOMAIN transitions :
              /\ transitions[t].outcome = i
              /\ \A u \in DOMAIN transitions : transitions[u].outcome = i => u = t
      BY <2>3 DEF ReopenInv, Restored
    <3>2. reopenings = {t}
      BY <3>1
    <3>3. Cardinality({t}) = 1
      BY FS_Singleton
    <3> QED BY <2>2, <2>3, <3>2, <3>3
  <2>4. CASE ~Unresolved(i)
    <3>1. reopenings = {}
      BY <2>2, <2>4
    <3>2. Cardinality({}) = 0
      BY FS_EmptySet
    <3> QED BY <2>2, <2>4, <3>1, <3>2
  <2> QED BY <2>3, <2>4
<1> QED BY <1>1, ReopeningsExplained, PTL

\* Whoever asked for staff has a review request, and only an adviser took the case away from
\* open since (delivery_feedback/services.py:121-127, casework/services.py:80-108).
THEOREM StaffAlwaysAsked == Spec => []StaffAreAsked
<1>1. ReopenInv => StaffAreAsked
  BY DEF ReopenInv, Heard, StaffAreAsked
<1> QED BY <1>1, ReopeningsExplained, PTL

-----------------------------------------------------------------------------
(* The least and the greatest of a set of numbers                          *)

LEMMA LeastNat ==
    ASSUME NEW S \in SUBSET Nat, S # {}
    PROVE  \E n \in S : \A m \in S : n <= m
<1>1. PICK n \in S : \A m \in S : <<m, n>> \notin OpToRel(<, Nat)
  BY WFMin, NatLessThanWellFounded
<1>2. \A m \in S : ~(m < n)
  BY <1>1 DEF OpToRel
<1> QED BY <1>2

LEMMA MinIn == ASSUME NEW S \in SUBSET Nat, S # {} PROVE Min(S) \in S
  BY LeastNat DEF Min

\* The least bound of a set is in it.
LEMMA MaxIn ==
    ASSUME NEW n \in Nat, NEW S \in SUBSET (1..n), S # {}
    PROVE  Max(S) \in S /\ \A x \in S : x <= Max(S)
<1> DEFINE Bounds == {b \in Nat : \A x \in S : x <= b}
<1>1. PICK b \in Bounds : \A d \in Bounds : b <= d
  <2>1. n \in Bounds
    OBVIOUS
  <2>2. Bounds \in SUBSET Nat
    OBVIOUS
  <2> HIDE DEF Bounds
  <2> QED BY <2>1, <2>2, LeastNat
<1>2. b \in S
  <2>1. SUFFICES ASSUME b \notin S PROVE FALSE
    OBVIOUS
  <2>2. PICK x \in S : TRUE
    OBVIOUS
  <2>3. b - 1 \in Bounds
    BY <1>1, <2>1, <2>2
  <2> QED BY <1>1, <2>3
<1>3. \A x \in S : b >= x
  BY <1>1
<1>4. \E x \in S : \A y \in S : x >= y
  BY <1>2, <1>3
<1>5. Max(S) \in S /\ \A y \in S : Max(S) >= y
  BY <1>4 DEF Max
<1> QED BY <1>5

-----------------------------------------------------------------------------
(* The transition log                                                      *)

\* The moves of a case before a place of the log.
Before(c, t) == {u \in MovesOf(c) : u < t}

\* Where some moves of a log lead.
EndIn(log, moves) == IF moves = {} THEN "open" ELSE log[Max(moves)].to

\* It does not change when the log grows.
LEMMA EndStays ==
    ASSUME NEW log, NEW longer, IsSeq(log), Extends(longer, log), NEW moves \in SUBSET DOMAIN log
    PROVE  EndIn(longer, moves) = EndIn(log, moves)
<1>1. PICK n \in Nat : DOMAIN log = 1..n
  BY SeqDomain
<1>2. CASE moves = {}
  BY <1>2 DEF EndIn
<1>3. CASE moves # {}
  <2>1. Max(moves) \in DOMAIN log
    BY <1>1, <1>3, MaxIn
  <2>2. longer[Max(moves)] = log[Max(moves)]
    BY <2>1 DEF Extends
  <2> QED BY <1>3, <2>2 DEF EndIn
<1> QED BY <1>2, <1>3

\* The last row of the log decides when it is one of the moves.
LEMMA EndAtLast ==
    ASSUME NEW log, NEW n \in Nat, NEW moves \in SUBSET (1..(n + 1)), n + 1 \in moves
    PROVE  EndIn(log, moves) = log[n + 1].to
<1>1. PICK m \in Nat : m = n + 1
  OBVIOUS
<1>2. Max(moves) \in moves /\ m <= Max(moves)
  BY <1>1, MaxIn
<1>3. Max(moves) = n + 1
  <2>1. Max(moves) \in 1..m
    BY <1>1, <1>2
  <2> QED BY <1>1, <1>2, <2>1
<1> QED BY <1>3 DEF EndIn

\* The log in these terms.
LogExplains ==
    \A c \in Cases :
        /\ \A t \in MovesOf(c) : /\ transitions[t].from = EndIn(transitions, Before(c, t))
                                 /\ transitions[t].from # transitions[t].to
        /\ caseState[c] = EndIn(transitions, MovesOf(c))

LEMMA LogIsHistory == LogExplains <=> HistoryExplainsState
  BY DEF LogExplains, HistoryExplainsState, EndIn, After, Before

\* A logged move of one case.
LEMMA MoveLogged ==
    ASSUME TablesOK, LogExplains, NEW c \in Cases, NEW to \in States, NEW by,
           NEW outcome, Moved(c, to, by, outcome), to # caseState[c]
    PROVE  LogExplains'
<1>1. PICK n \in Nat : n = Len(transitions) /\ DOMAIN transitions = 1..n
  BY SeqDomain DEF TablesOK
<1>2. /\ IsSeq(transitions') /\ Extends(transitions', transitions)
      /\ DOMAIN transitions' = 1..(n + 1)
      /\ transitions'[n + 1] =
            [case |-> c, from |-> caseState[c], to |-> to, by |-> by, outcome |-> outcome]
      /\ caseState' = [caseState EXCEPT ![c] = to]
  BY <1>1, MovedAdds
<1>3. /\ transitions'[n + 1].case = c /\ transitions'[n + 1].from = caseState[c]
      /\ transitions'[n + 1].to = to
  BY <1>2
<1>4. caseState'[c] = to /\ \A d \in Cases : d # c => caseState'[d] = caseState[d]
  BY <1>2 DEF TablesOK
<1>5. \A d : MovesOf(d)' = IF d = c THEN MovesOf(d) \cup {n + 1} ELSE MovesOf(d)
  <2>1. \A t \in DOMAIN transitions : t \in DOMAIN transitions' /\ transitions'[t] = transitions[t]
    BY <1>2 DEF Extends
  <2>2. \A t \in DOMAIN transitions' : t \in DOMAIN transitions \/ t = n + 1
    BY <1>1, <1>2
  <2>3. n + 1 \in DOMAIN transitions'
    BY <1>2
  <2> QED BY <1>3, <2>1, <2>2, <2>3 DEF MovesOf
<1>6. \A d : MovesOf(d) \subseteq 1..n
  BY <1>1 DEF MovesOf
<1>7. IsSeq(transitions)
  BY DEF TablesOK
<1>8. ASSUME NEW d \in Cases, NEW t \in MovesOf(d)
      PROVE  /\ transitions'[t].from = EndIn(transitions', Before(d, t)')
             /\ transitions'[t].from # transitions'[t].to
  <2>1. t \in 1..n
    BY <1>6, <1>8
  <2>2. Before(d, t)' = Before(d, t)
    BY <1>5, <2>1 DEF Before
  <2>3. EndIn(transitions', Before(d, t)) = EndIn(transitions, Before(d, t))
    BY <1>2, <1>7, EndStays DEF Before, MovesOf
  <2>4. transitions'[t] = transitions[t]
    BY <1>1, <1>2, <2>1 DEF Extends
  <2> QED BY <1>8, <2>2, <2>3, <2>4 DEF LogExplains
<1>9. /\ transitions'[n + 1].from = EndIn(transitions', Before(c, n + 1)')
      /\ transitions'[n + 1].from # transitions'[n + 1].to
  <2>1. Before(c, n + 1)' = MovesOf(c)
    BY <1>5, <1>6 DEF Before
  <2>2. EndIn(transitions', MovesOf(c)) = EndIn(transitions, MovesOf(c))
    BY <1>2, <1>7, EndStays DEF MovesOf
  <2> QED BY <1>3, <2>1, <2>2 DEF LogExplains
<1>10. caseState'[c] = EndIn(transitions', MovesOf(c)')
  <2>1. MovesOf(c)' \in SUBSET (1..(n + 1)) /\ n + 1 \in MovesOf(c)'
    BY <1>5, <1>6
  <2>2. EndIn(transitions', MovesOf(c)') = transitions'[n + 1].to
    BY <2>1, EndAtLast
  <2> QED BY <1>3, <1>4, <2>2
<1>11. ASSUME NEW d \in Cases, d # c PROVE caseState'[d] = EndIn(transitions', MovesOf(d)')
  <2>1. EndIn(transitions', MovesOf(d)) = EndIn(transitions, MovesOf(d))
    BY <1>2, <1>7, EndStays DEF MovesOf
  <2> QED BY <1>4, <1>5, <1>11, <2>1 DEF LogExplains
<1>12. ASSUME NEW d \in Cases, NEW t \in MovesOf(d)'
       PROVE  /\ transitions'[t].from = EndIn(transitions', Before(d, t)')
              /\ transitions'[t].from # transitions'[t].to
  <2>1. t \in MovesOf(d) \/ (d = c /\ t = n + 1)
    BY <1>5, <1>12
  <2>2. CASE d = c /\ t = n + 1
    BY <1>9, <2>2
  <2> QED BY <1>8, <2>1, <2>2
<1> QED BY <1>10, <1>11, <1>12 DEF LogExplains

\* The adviser's moves, the reviews' and the outcomes' are the only ones, and each is logged.
LEMMA StepLogExplains == ReopenInv /\ LogExplains /\ [Next]_vars => LogExplains'
<1> SUFFICES ASSUME ReopenInv, LogExplains, [Next]_vars PROVE LogExplains'
  OBVIOUS
<1> TablesOK /\ RowsOK
  BY DEF ReopenInv
<1>1. ASSUME UNCHANGED <<transitions, caseState>> PROVE LogExplains'
  BY <1>1 DEF LogExplains, MovesOf, Before
<1>2. ASSUME NEW c \in Cases, NEW to \in States, Transition(c, to) PROVE LogExplains'
  <2>1. Moved(c, to, "adviser", 0)
    BY <1>2 DEF Transition, MovedByAdviser
  <2>2. to \in Successors[caseState[c]] /\ caseState[c] \in States
    BY <1>2 DEF Transition, TablesOK
  <2>3. to # caseState[c]
    BY <2>2 DEF Successors, States
  <2> QED BY <2>1, <2>3, MoveLogged
<1>3. ASSUME NEW a \in Allocs, NEW kind \in Kinds, RecordLearnerFeedback(a, kind)
      PROVE  LogExplains'
  <2>1. \/ UNCHANGED <<transitions, caseState>>
        \/ caseState[CaseOf[a]] # "open" /\ Moved(CaseOf[a], "open", "feedback", 0)
    BY <1>3 DEF RecordLearnerFeedback, OpenReview
  <2> QED BY <1>1, <2>1, CasesOf, MoveLogged DEF States
<1>4. ASSUME NEW d \in DOMAIN deliveries, NEW response \in Responses, RecordOutcome(d, response)
      PROVE  LogExplains'
  <2> DEFINE c == CaseOf[deliveries[d]]
  <2>1. c \in Cases
    BY CasesOf DEF RowsOK
  <2>2. \/ UNCHANGED <<transitions, caseState>>
        \/ caseState[c] = "closed" /\ Moved(c, "open", "feedback", Len(outcomes) + 1)
    BY <1>4 DEF RecordOutcome, ReopenFromUnresolved
  <2> HIDE DEF c
  <2> QED BY <1>1, <2>1, <2>2, MoveLogged DEF States
<1>5. ASSUME NEW a \in Allocs,
             \/ Approve(a) \/ Retire(a) \/ RecordDelivery(a)
             \/ \E result \in Results : RecordAttempt(a, result)
      PROVE  LogExplains'
  BY <1>1, <1>5 DEF Approve, Retire, RecordDelivery, RecordAttempt
<1>6. ASSUME NEW c \in Cases, SafetyExit(c) PROVE LogExplains'
  BY <1>1, <1>6 DEF SafetyExit
<1>7. CASE UNCHANGED vars
  BY <1>1, <1>7 DEF vars
<1> QED BY <1>2, <1>3, <1>4, <1>5, <1>6, <1>7 DEF Next, States

\* The transition log explains the state of every case, whoever moved it
\* (casework/services.py:24-114).
THEOREM LogExplainsState == Spec => []HistoryExplainsState
<1>1. Init => LogExplains
  <2> SUFFICES ASSUME Init PROVE LogExplains
    OBVIOUS
  <2>1. transitions = <<>> /\ caseState = [c \in Cases |-> "open"]
    BY DEF Init
  <2>2. \A c : MovesOf(c) = {}
    BY <2>1 DEF MovesOf
  <2> QED BY <2>1, <2>2 DEF LogExplains, EndIn
<1>2. Spec => []LogExplains
  BY <1>1, StepLogExplains, ReopeningsExplained, PTL DEF Spec
<1> QED BY <1>2, LogIsHistory, PTL

-----------------------------------------------------------------------------
(* Packages, captures and the evidence of responses                        *)

\* The captures of a package are of its case and stay what they were when it was made; a
\* correction supersedes one of them.
PackagesOK ==
    /\ alloc \in [Allocs -> {"proposed", "active", "inactive"}]
    /\ entries \in [Allocs -> SUBSET Nat]
    /\ \A a \in Allocs : /\ entries[a] \subseteq CapturesOf(CaseOf[a])
                         /\ alloc[a] = "proposed" => entries[a] = {}
                         /\ alloc[a] = "active" => entries[a] # {}

CapturesOK ==
    /\ IsSeq(captures)
    /\ \A c \in Cases : CapturesOf(c) # {}
    /\ \A k \in DOMAIN captures :
          captures[k].supersedes # 0 =>
              /\ captures[k].supersedes \in DOMAIN captures
              /\ captures[captures[k].supersedes].case = captures[k].case

\* The rows that name a package, a response or a correction.
NamesOK ==
    /\ attempts \in Seq(AttemptRows)
    /\ \A i \in DOMAIN attempts : entries[attempts[i].alloc] # {}
    /\ \A f \in DOMAIN feedback :
          feedback[f].correction # 0 =>
              /\ feedback[f].correction \in DOMAIN captures
              /\ captures[feedback[f].correction].supersedes \in entries[feedback[f].alloc]
    /\ \A i \in DOMAIN outcomes : outcomes[i].response \in Responses
    /\ \A r \in reviews : r.feedback \in DOMAIN feedback
    /\ exited \subseteq Cases

EvidenceInv == PackagesOK /\ CapturesOK /\ NamesOK

\* The case of the captures of an initial state, which are one for each case.
LEMMA FirstCaptures == Init => CapturesOK /\ \A k \in DOMAIN captures : captures[k].case \in Cases
<1> SUFFICES ASSUME Init
             PROVE  CapturesOK /\ \A k \in DOMAIN captures : captures[k].case \in Cases
  OBVIOUS
<1> DEFINE S == {[case |-> c, supersedes |-> 0] : c \in Cases}
           n == Cardinality(S)
           Orders == {f \in [1..n -> S] : IsInjective(f)}
<1>1. IsFiniteSet(S)
  <2> DEFINE row == [a \in Allocs |-> [case |-> CaseOf[a], supersedes |-> 0]]
  <2>1. \A s \in S : \E a \in Allocs : s = row[a]
    BY DEF Cases
  <2>2. row \in Surjection(Allocs, S)
    BY <2>1 DEF Surjection, Cases
  <2> HIDE DEF row, S
  <2> QED BY <2>2, AllocsAssumption, FS_Surjection
<1>2. n \in Nat /\ ExistsBijection(1..n, S)
  <2> HIDE DEF S
  <2> QED BY <1>1, FS_CardinalityType
<1>3. captures \in Orders
  <2>1. PICK f \in Bijection(1..n, S) : TRUE
    BY <1>2 DEF ExistsBijection
  <2>2. f \in Orders
    <3> HIDE DEF S, n
    <3> QED BY <2>1 DEF Bijection, Injection, IsInjective
  <2>3. captures = CHOOSE g \in [1..n -> S] : IsInjective(g)
    BY DEF Init, SetToSeq
  <2> HIDE DEF S, n
  <2> QED BY <2>2, <2>3
<1>4. captures \in Injection(1..n, S)
  <2> HIDE DEF S, n
  <2> QED BY <1>3 DEF Injection, IsInjective
<1>5. captures \in Surjection(1..n, S)
  <2>1. IsFiniteSet(1..n) /\ Cardinality(1..n) = n
    BY <1>2, FS_Interval
  <2> HIDE DEF S
  <2> QED BY <1>1, <1>4, <2>1, FS_Injection
<1>6. captures \in Seq(S)
  <2> HIDE DEF S
  <2> QED BY <1>2, <1>3, SeqDef
<1>7. IsSeq(captures)
  <2> HIDE DEF S
  <2> QED BY <1>6, TypedIsSeq
<1>8. DOMAIN captures = 1..n /\ \A k \in 1..n : captures[k] \in S
  BY <1>3
<1>9. \A k \in DOMAIN captures : captures[k].supersedes = 0 /\ captures[k].case \in Cases
  BY <1>8
<1>10. ASSUME NEW c \in Cases PROVE CapturesOf(c) # {}
  <2>1. [case |-> c, supersedes |-> 0] \in S
    OBVIOUS
  <2>2. PICK k \in 1..n : captures[k] = [case |-> c, supersedes |-> 0]
    BY <1>5, <2>1 DEF Surjection
  <2>3. k \in CapturesOf(c)
    BY <1>8, <2>2 DEF CapturesOf
  <2> QED BY <2>3
<1> QED BY <1>7, <1>9, <1>10 DEF CapturesOK

\* A case keeps its captures.
LEMMA CapturesStay ==
    ASSUME Extends(captures', captures), NEW c
    PROVE  CapturesOf(c) \subseteq CapturesOf(c)'
  BY DEF Extends, CapturesOf

\* A correction adds a capture that supersedes one of the package.
LEMMA CorrectionAdds ==
    ASSUME CapturesOK, NEW a \in Allocs, NEW kind, CorrectedAs(a, kind),
           entries[a] # {}, entries[a] \in SUBSET Nat, entries[a] \subseteq CapturesOf(CaseOf[a])
    PROVE  /\ CapturesOK' /\ Extends(captures', captures)
           /\ kind = "correction" =>
                 /\ Len(captures) + 1 \in DOMAIN captures'
                 /\ captures'[Len(captures) + 1].supersedes \in entries[a]
           /\ \A k \in DOMAIN captures' \ DOMAIN captures : captures'[k].case = CaseOf[a]
<1> IsSeq(captures)
  BY DEF CapturesOK
<1>1. CASE kind # "correction"
  <2>1. captures' = captures
    BY <1>1 DEF CorrectedAs
  <2> QED BY <1>1, <2>1, SameExtends DEF CapturesOK, CapturesOf
<1>2. CASE kind = "correction"
  <2> DEFINE e == [case |-> CaseOf[a], supersedes |-> Min(entries[a])]
  <2>1. PICK n \in Nat : n = Len(captures) /\ DOMAIN captures = 1..n
    BY SeqDomain
  <2>2. captures' = Append(captures, e)
    BY <1>2 DEF CorrectedAs
  <2>3. e.case = CaseOf[a] /\ e.supersedes = Min(entries[a])
    OBVIOUS
  <2>4. Min(entries[a]) \in entries[a]
    BY MinIn
  <2> HIDE DEF e
  <2>5. /\ IsSeq(captures') /\ Extends(captures', captures)
        /\ DOMAIN captures' = 1..(n + 1) /\ captures'[n + 1] = e
    BY <2>1, <2>2, AppendExtends
  <2>6. Min(entries[a]) \in DOMAIN captures /\ captures[Min(entries[a])].case = CaseOf[a]
    BY <2>4 DEF CapturesOf
  <2>7. \A k \in DOMAIN captures' : k \in DOMAIN captures \/ k = n + 1
    BY <2>1, <2>5
  <2>8. \A k \in DOMAIN captures : k \in DOMAIN captures' /\ captures'[k] = captures[k]
    BY <2>5 DEF Extends
  <2>9. \A k \in DOMAIN captures' :
            captures'[k].supersedes # 0 =>
                /\ captures'[k].supersedes \in DOMAIN captures'
                /\ captures'[captures'[k].supersedes].case = captures'[k].case
    <3>1. ASSUME NEW k \in DOMAIN captures, captures'[k].supersedes # 0
          PROVE  /\ captures'[k].supersedes \in DOMAIN captures'
                 /\ captures'[captures'[k].supersedes].case = captures'[k].case
      BY <2>8, <3>1 DEF CapturesOK
    <3>2. /\ captures'[n + 1].supersedes \in DOMAIN captures'
          /\ captures'[captures'[n + 1].supersedes].case = captures'[n + 1].case
      BY <2>3, <2>5, <2>6, <2>8
    <3> QED BY <2>7, <3>1, <3>2
  <2>10. \A c \in Cases : CapturesOf(c)' # {}
    BY <2>5, CapturesStay DEF CapturesOK
  <2>11. CapturesOK'
    BY <2>5, <2>9, <2>10 DEF CapturesOK
  <2>12. n + 1 \in DOMAIN captures' /\ captures'[n + 1].supersedes \in entries[a]
    BY <2>3, <2>4, <2>5
  <2>13. \A k \in DOMAIN captures' \ DOMAIN captures : captures'[k].case = CaseOf[a]
    BY <2>3, <2>5, <2>7
  <2> QED BY <2>1, <2>5, <2>11, <2>12, <2>13
<1> QED BY <1>1, <1>2

\* The names in the rows stay good while captures and packages are only added.
LEMMA NamesStay ==
    ASSUME EvidenceInv, ReopenInv, Grown, Extends(captures', captures),
           \A a \in Allocs : entries[a] # {} => entries'[a] = entries[a],
           AttemptsTyped', exited' \subseteq Cases,
           \A i \in DOMAIN attempts' \ DOMAIN attempts : entries'[attempts'[i].alloc] # {},
           Extends(attempts', attempts),
           \A f \in DOMAIN feedback' \ DOMAIN feedback :
               feedback'[f].correction # 0 =>
                   /\ feedback'[f].correction \in DOMAIN captures'
                   /\ captures'[feedback'[f].correction].supersedes \in entries'[feedback'[f].alloc],
           \A i \in DOMAIN outcomes' \ DOMAIN outcomes : outcomes'[i].response \in Responses,
           \A r \in reviews' \ reviews : r.feedback \in DOMAIN feedback'
    PROVE  NamesOK'
<1> USE DEF EvidenceInv, NamesOK
<1>1. \A f \in DOMAIN feedback : feedback[f].alloc \in Allocs
  BY DEF ReopenInv, RowsOK
<1>2. \A i \in DOMAIN attempts' : entries'[attempts'[i].alloc] # {}
  <2>1. ASSUME NEW i \in DOMAIN attempts PROVE entries'[attempts'[i].alloc] # {}
    <3>1. attempts'[i] = attempts[i] /\ entries[attempts[i].alloc] # {}
      BY <2>1 DEF Extends
    <3>2. attempts[i] \in AttemptRows
      BY <2>1
    <3>3. attempts[i].alloc \in Allocs
      BY <3>2 DEF AttemptRows
    <3> QED BY <3>1, <3>3
  <2> QED BY <2>1
<1>3. \A f \in DOMAIN feedback' :
          feedback'[f].correction # 0 =>
              /\ feedback'[f].correction \in DOMAIN captures'
              /\ captures'[feedback'[f].correction].supersedes \in entries'[feedback'[f].alloc]
  <2>1. ASSUME NEW f \in DOMAIN feedback, feedback[f].correction # 0
        PROVE  /\ feedback'[f].correction \in DOMAIN captures'
               /\ captures'[feedback'[f].correction].supersedes \in entries'[feedback'[f].alloc]
    <3>1. feedback'[f] = feedback[f]
      BY DEF Grown, Extends
    <3>2. /\ feedback[f].correction \in DOMAIN captures
          /\ captures[feedback[f].correction].supersedes \in entries[feedback[f].alloc]
      BY <2>1
    <3>3. entries'[feedback[f].alloc] = entries[feedback[f].alloc]
      BY <1>1, <3>2
    <3> QED BY <3>1, <3>2, <3>3 DEF Extends
  <2>2. \A f \in DOMAIN feedback : feedback'[f] = feedback[f]
    BY DEF Grown, Extends
  <2> QED BY <2>1, <2>2
<1>4. \A i \in DOMAIN outcomes' : outcomes'[i].response \in Responses
  BY DEF Grown, Extends
<1>5. \A r \in reviews' : r.feedback \in DOMAIN feedback'
  BY DEF Grown, Extends
<1> QED BY <1>2, <1>3, <1>4, <1>5 DEF AttemptsTyped

\* No row of a table is ever changed or removed.
LEMMA StepGrown == ReopenInv /\ [Next]_vars => Grown
<1> SUFFICES ASSUME ReopenInv, [Next]_vars
             PROVE  /\ Extends(deliveries', deliveries) /\ Extends(outcomes', outcomes)
                    /\ Extends(transitions', transitions) /\ Extends(feedback', feedback)
                    /\ reviews \subseteq reviews'
  BY StepReopenInv DEF Grown, ReopenInv
<1> TablesOK /\ RowsOK
  BY DEF ReopenInv
<1>1. CASE UNCHANGED <<transitions, deliveries, outcomes, feedback, reviews>>
  BY <1>1, SameExtends
<1>2. ASSUME NEW a \in Allocs, RecordDelivery(a) PROVE Grown
  BY <1>2, AppendExtends, SameExtends, StepReopenInv DEF RecordDelivery, TablesOK, Grown, ReopenInv
<1>3. ASSUME NEW c \in Cases, NEW to \in States, Transition(c, to) PROVE Grown
  <2>1. Moved(c, to, "adviser", 0) /\ UNCHANGED <<deliveries, outcomes, feedback, reviews>>
    BY <1>3 DEF Transition, MovedByAdviser
  <2>2. Extends(transitions', transitions)
    BY <2>1, MovedAdds
  <2> QED BY <2>1, <2>2, SameExtends, StepReopenInv DEF Grown, ReopenInv
<1>4. ASSUME NEW d \in DOMAIN deliveries, NEW response \in Responses, RecordOutcome(d, response)
      PROVE  Grown
  <2> DEFINE c == CaseOf[deliveries[d]]
             e == [delivery |-> d, response |-> response, by |-> "adviser"]
  <2>1. c \in Cases
    BY CasesOf DEF RowsOK
  <2>2. /\ outcomes' = Append(outcomes, e)
        /\ UNCHANGED <<deliveries, feedback, reviews>>
        /\ UNCHANGED transitions \/ Moved(c, "open", "feedback", Len(outcomes) + 1)
    BY <1>4 DEF RecordOutcome, ReopenFromUnresolved
  <2> HIDE DEF c, e
  <2>3. Extends(transitions', transitions)
    BY <2>1, <2>2, MovedAdds, SameExtends DEF States
  <2>4. Extends(outcomes', outcomes)
    BY <2>2, AppendExtends DEF TablesOK
  <2> QED BY <2>2, <2>3, <2>4, SameExtends, StepReopenInv DEF Grown, ReopenInv
<1>5. ASSUME NEW a \in Allocs, NEW kind \in Kinds, RecordLearnerFeedback(a, kind) PROVE Grown
  <2> DEFINE e == [alloc |-> a, kind |-> kind,
                   correction |-> IF kind = "correction" THEN Len(captures) + 1 ELSE 0]
  <2>1. /\ feedback' = Append(feedback, e)
        /\ RespondedAs(a, kind)
        /\ \/ OpenReview(CaseOf[a], Len(feedback) + 1)
           \/ UNCHANGED <<reviews, transitions, caseState>>
    BY <1>5 DEF RecordLearnerFeedback
  <2> HIDE DEF e
  <2>2. Extends(feedback', feedback)
    BY <2>1, AppendExtends DEF TablesOK
  <2>3. Extends(deliveries', deliveries) /\ Extends(outcomes', outcomes)
    BY <2>1, RespondedAdds
  <2>4. Extends(transitions', transitions) /\ reviews \subseteq reviews'
    BY <2>1, CasesOf, ReviewAdds
  <2> QED BY <2>2, <2>3, <2>4, StepReopenInv DEF Grown, ReopenInv
<1>6. ASSUME NEW a \in Allocs,
             Approve(a) \/ Retire(a) \/ \E result \in Results : RecordAttempt(a, result)
      PROVE  UNCHANGED <<transitions, deliveries, outcomes, feedback, reviews>>
  BY <1>6 DEF Approve, Retire, RecordAttempt
<1>7. ASSUME NEW c \in Cases, SafetyExit(c)
      PROVE  UNCHANGED <<transitions, deliveries, outcomes, feedback, reviews>>
  BY <1>7 DEF SafetyExit
<1>8. CASE UNCHANGED vars
  BY <1>1, <1>8 DEF vars
<1>9. CASE Next
  BY <1>1, <1>2, <1>3, <1>4, <1>5, <1>6, <1>7, <1>9 DEF Next, States, Grown
<1> QED BY <1>8, <1>9

\* Steps that make no package and no correction.
LEMMA PackagesStay ==
    ASSUME PackagesOK, Extends(captures', captures), UNCHANGED entries,
           alloc' \in [Allocs -> {"proposed", "active", "inactive"}],
           \A a \in Allocs : alloc'[a] \in {alloc[a], "inactive"}
    PROVE  PackagesOK'
  BY CapturesStay DEF PackagesOK

\* A response of a learner: a correction and the rows that go with the response.
LEMMA FeedbackKeepsEvidence ==
    ASSUME ReopenInv, EvidenceInv, Grown, NEW a \in Allocs, NEW kind \in Kinds,
           RecordLearnerFeedback(a, kind)
    PROVE  EvidenceInv'
<1> TablesOK /\ RowsOK /\ PackagesOK /\ CapturesOK /\ NamesOK
  BY DEF ReopenInv, EvidenceInv
<1> DEFINE n == Len(feedback)
           correction == IF kind = "correction" THEN Len(captures) + 1 ELSE 0
           e == [alloc |-> a, kind |-> kind, correction |-> correction]
<1>1. /\ alloc[a] = "active"
      /\ feedback' = Append(feedback, e)
      /\ CorrectedAs(a, kind)
      /\ RespondedAs(a, kind)
      /\ \/ OpenReview(CaseOf[a], n + 1)
         \/ UNCHANGED <<reviews, transitions, caseState>>
      /\ UNCHANGED <<alloc, entries, attempts, exited>>
  BY DEF RecordLearnerFeedback, Approved
<1>2. entries[a] # {} /\ entries[a] \in SUBSET Nat /\ entries[a] \subseteq CapturesOf(CaseOf[a])
  BY <1>1 DEF PackagesOK
<1>3. /\ CapturesOK' /\ Extends(captures', captures)
      /\ kind = "correction" =>
            /\ Len(captures) + 1 \in DOMAIN captures'
            /\ captures'[Len(captures) + 1].supersedes \in entries[a]
  BY <1>1, <1>2, CorrectionAdds
<1>4. PackagesOK'
  BY <1>1, <1>3, PackagesStay DEF PackagesOK
<1>5. e.alloc = a /\ e.correction = correction
  OBVIOUS
<1> HIDE DEF e
<1>6. /\ Extends(feedback', feedback) /\ DOMAIN feedback' = 1..(n + 1) /\ feedback'[n + 1] = e
      /\ n \in Nat /\ DOMAIN feedback = 1..n
  BY <1>1, AppendExtends, SeqDomain DEF TablesOK
<1>7. \A f \in DOMAIN feedback' \ DOMAIN feedback :
          feedback'[f].correction # 0 =>
              /\ feedback'[f].correction \in DOMAIN captures'
              /\ captures'[feedback'[f].correction].supersedes \in entries'[feedback'[f].alloc]
  <2>1. \A f \in DOMAIN feedback' \ DOMAIN feedback : f = n + 1
    BY <1>6
  <2> QED BY <1>1, <1>3, <1>5, <1>6, <2>1
<1>8. \A i \in DOMAIN outcomes' \ DOMAIN outcomes : outcomes'[i].response \in Responses
  <2>1. CASE UNCHANGED outcomes
    BY <2>1
  <2>2. CASE kind \in {"helped", "unresolved"}
    <3> DEFINE o == [delivery |-> Len(deliveries) + 1, response |-> kind, by |-> "learner"]
    <3>1. outcomes' = Append(outcomes, o)
      BY <1>1, <2>2 DEF RespondedAs
    <3>2. o.response \in Responses
      BY <2>2 DEF Responses
    <3> HIDE DEF o
    <3>3. PICK m \in Nat : m = Len(outcomes) /\ DOMAIN outcomes = 1..m
      BY SeqDomain DEF TablesOK
    <3>4. DOMAIN outcomes' = 1..(m + 1) /\ outcomes'[m + 1] = o
      BY <3>1, <3>3, AppendExtends DEF TablesOK
    <3>5. \A i \in DOMAIN outcomes' \ DOMAIN outcomes : i = m + 1
      BY <3>3, <3>4
    <3> QED BY <3>2, <3>4, <3>5
  <2> QED BY <1>1, <2>1, <2>2 DEF RespondedAs
<1>9. \A r \in reviews' \ reviews : r.feedback \in DOMAIN feedback'
  <2>1. \A r \in reviews' \ reviews : r = [feedback |-> n + 1, after |-> Len(transitions)]
    BY <1>1 DEF OpenReview
  <2> QED BY <1>6, <2>1
<1>10. NamesOK'
  <2>1. AttemptsTyped' /\ exited' \subseteq Cases /\ Extends(attempts', attempts)
    BY <1>1, SameExtends DEF NamesOK, AttemptsTyped
  <2>2. \A i \in DOMAIN attempts' \ DOMAIN attempts : entries'[attempts'[i].alloc] # {}
    BY <1>1
  <2> QED BY <1>1, <1>3, <1>7, <1>8, <1>9, <2>1, <2>2, NamesStay
<1> QED BY <1>3, <1>4, <1>10 DEF EvidenceInv

LEMMA StepEvidence ==
    ASSUME ReopenInv, EvidenceInv, [Next]_vars
    PROVE  EvidenceInv'
<1> PackagesOK /\ CapturesOK /\ NamesOK /\ Grown /\ ReopenInv'
  BY StepReopenInv, StepGrown DEF EvidenceInv
\* What most steps leave alone, and the rest of the invariant follows.
<1>1. ASSUME UNCHANGED <<entries, captures>>,
             alloc' \in [Allocs -> {"proposed", "active", "inactive"}],
             \A a \in Allocs : alloc'[a] \in {alloc[a], "inactive"},
             exited' \subseteq Cases, Extends(attempts', attempts), AttemptsTyped',
             \A i \in DOMAIN attempts' \ DOMAIN attempts : entries[attempts'[i].alloc] # {},
             UNCHANGED feedback, UNCHANGED reviews,
             \A i \in DOMAIN outcomes' \ DOMAIN outcomes : outcomes'[i].response \in Responses
      PROVE  EvidenceInv'
  <2>1. Extends(captures', captures)
    BY <1>1, SameExtends
  <2>2. PackagesOK'
    BY <1>1, <2>1, PackagesStay
  <2>3. CapturesOK'
    BY <1>1 DEF CapturesOK, CapturesOf
  <2>4. NamesOK'
    BY <1>1, <2>1, NamesStay
  <2> QED BY <2>2, <2>3, <2>4 DEF EvidenceInv
<1>2. AttemptsTyped /\ exited \subseteq Cases /\ Extends(attempts, attempts)
  BY SameExtends DEF NamesOK, AttemptsTyped
<1>3. alloc \in [Allocs -> {"proposed", "active", "inactive"}]
  BY DEF PackagesOK
<1>4. ASSUME NEW a \in Allocs, Approve(a) PROVE EvidenceInv'
  <2>1. /\ alloc[a] = "proposed" /\ alloc' = [alloc EXCEPT ![a] = "active"]
        /\ entries' = [entries EXCEPT ![a] = CapturesOf(CaseOf[a])]
        /\ UNCHANGED <<captures, attempts, exited, feedback, reviews, outcomes>>
    BY <1>4 DEF Approve
  <2>2. CapturesOf(CaseOf[a]) \in SUBSET Nat /\ CapturesOf(CaseOf[a]) # {}
    <3>1. DOMAIN captures \subseteq Nat
      BY SeqDomain DEF CapturesOK
    <3> QED BY <3>1, CasesOf DEF CapturesOK, CapturesOf
  <2>3. /\ \A b \in Allocs : entries'[b] = IF b = a THEN CapturesOf(CaseOf[a]) ELSE entries[b]
        /\ entries' \in [Allocs -> SUBSET Nat]
        /\ \A b \in Allocs : alloc'[b] = IF b = a THEN "active" ELSE alloc[b]
        /\ alloc' \in [Allocs -> {"proposed", "active", "inactive"}]
    BY <2>1, <2>2 DEF PackagesOK
  <2>4. CapturesOK' /\ \A c : CapturesOf(c)' = CapturesOf(c)
    BY <2>1 DEF CapturesOK, CapturesOf
  <2>5. PackagesOK'
    BY <2>2, <2>3, <2>4 DEF PackagesOK
  <2>6. \A b \in Allocs : entries[b] # {} => entries'[b] = entries[b]
    BY <2>1, <2>3 DEF PackagesOK
  <2>7. NamesOK'
    <3>1. Extends(captures', captures) /\ Extends(attempts', attempts) /\ AttemptsTyped'
      BY <1>2, <2>1, SameExtends DEF AttemptsTyped
    <3> QED BY <1>2, <2>1, <2>6, <3>1, NamesStay
  <2> QED BY <2>4, <2>5, <2>7 DEF EvidenceInv
<1>5. ASSUME NEW a \in Allocs, Retire(a) PROVE EvidenceInv'
  <2>1. /\ alloc' = [alloc EXCEPT ![a] = "inactive"]
        /\ UNCHANGED <<entries, captures, attempts, exited, feedback, reviews, outcomes>>
    BY <1>5 DEF Retire
  <2>2. alloc' \in [Allocs -> {"proposed", "active", "inactive"}]
    BY <1>3, <2>1
  <2>3. \A b \in Allocs : alloc'[b] \in {alloc[b], "inactive"}
    BY <1>3, <2>1
  <2> QED BY <1>1, <1>2, <2>1, <2>2, <2>3 DEF AttemptsTyped
<1>6. ASSUME NEW a \in Allocs, NEW result \in Results, RecordAttempt(a, result)
      PROVE  EvidenceInv'
  <2> DEFINE e == [alloc |-> a, result |-> result]
  <2>1. /\ attempts' = Append(attempts, e) /\ alloc[a] = "active"
        /\ UNCHANGED <<alloc, entries, captures, exited, feedback, reviews, outcomes>>
    BY <1>6 DEF RecordAttempt, Approved
  <2>2. e \in AttemptRows /\ e.alloc = a
    BY DEF AttemptRows
  <2> HIDE DEF e
  <2>3. AttemptsTyped'
    BY <1>2, <2>1, <2>2 DEF AttemptsTyped
  <2>4. IsSeq(attempts)
    BY <1>2, TypedIsSeq DEF AttemptsTyped
  <2>5. PICK n \in Nat : n = Len(attempts) /\ DOMAIN attempts = 1..n
    BY <2>4, SeqDomain
  <2>6. /\ Extends(attempts', attempts) /\ DOMAIN attempts' = 1..(n + 1)
        /\ attempts'[n + 1] = e
    BY <2>1, <2>4, <2>5, AppendExtends
  <2>7. \A i \in DOMAIN attempts' \ DOMAIN attempts : attempts'[i].alloc = a
    <3>1. \A i \in DOMAIN attempts' \ DOMAIN attempts : i = n + 1
      BY <2>5, <2>6
    <3> QED BY <2>2, <2>6, <3>1
  <2>8. entries[a] # {}
    BY <2>1 DEF PackagesOK
  <2> QED BY <1>1, <1>2, <1>3, <2>1, <2>3, <2>6, <2>7, <2>8
<1>7. ASSUME NEW a \in Allocs, RecordDelivery(a) PROVE EvidenceInv'
  BY <1>1, <1>2, <1>3, <1>7 DEF RecordDelivery, AttemptsTyped
<1>8. ASSUME NEW c \in Cases, SafetyExit(c) PROVE EvidenceInv'
  BY <1>1, <1>2, <1>3, <1>8 DEF SafetyExit, AttemptsTyped
<1>9. ASSUME NEW c \in Cases, NEW to, Transition(c, to) PROVE EvidenceInv'
  BY <1>1, <1>2, <1>3, <1>9 DEF Transition, AttemptsTyped
<1>10. CASE UNCHANGED vars
  BY <1>1, <1>2, <1>3, <1>10 DEF vars, AttemptsTyped
<1>11. ASSUME NEW d \in DOMAIN deliveries, NEW response \in Responses, RecordOutcome(d, response)
       PROVE  EvidenceInv'
  <2> DEFINE e == [delivery |-> d, response |-> response, by |-> "adviser"]
  <2>1. /\ outcomes' = Append(outcomes, e)
        /\ UNCHANGED <<alloc, entries, attempts, captures, feedback, reviews, exited>>
    BY <1>11 DEF RecordOutcome
  <2>2. e.response = response
    OBVIOUS
  <2> HIDE DEF e
  <2>3. IsSeq(outcomes)
    BY DEF ReopenInv, TablesOK
  <2>4. PICK n \in Nat : n = Len(outcomes) /\ DOMAIN outcomes = 1..n
    BY <2>3, SeqDomain
  <2>5. DOMAIN outcomes' = 1..(n + 1) /\ outcomes'[n + 1] = e
    BY <2>1, <2>3, <2>4, AppendExtends
  <2>6. \A i \in DOMAIN outcomes' \ DOMAIN outcomes : i = n + 1
    BY <2>4, <2>5
  <2> QED BY <1>1, <1>2, <1>3, <2>1, <2>2, <2>5, <2>6 DEF AttemptsTyped
<1>12. ASSUME NEW a \in Allocs, NEW kind \in Kinds, RecordLearnerFeedback(a, kind)
       PROVE  EvidenceInv'
  BY <1>12, FeedbackKeepsEvidence
<1> QED BY <1>4, <1>5, <1>6, <1>7, <1>8, <1>9, <1>10, <1>11, <1>12 DEF Next

THEOREM EvidenceKept == Spec => []EvidenceInv
<1>1. Init => EvidenceInv
  <2> SUFFICES ASSUME Init PROVE EvidenceInv
    OBVIOUS
  <2>1. PackagesOK
    BY DEF Init, PackagesOK
  <2>2. NamesOK
    BY DEF Init, NamesOK
  <2> QED BY <2>1, <2>2, FirstCaptures DEF EvidenceInv
<1> QED BY <1>1, StepEvidence, ReopeningsExplained, PTL DEF Spec

\* Every reachable state has the shapes the tables give it, and the rows name rows of their case.
THEOREM TypeCorrect == Spec => []TypeOK
<1>1. ReopenInv /\ EvidenceInv => TypeOK
  <2> SUFFICES ASSUME ReopenInv, EvidenceInv PROVE TypeOK
    OBVIOUS
  <2>1. DOMAIN Successors = States
    BY DEF Successors, States
  <2>2. \A i \in DOMAIN attempts : attempts[i].result \in Results
    <3>1. \A i \in DOMAIN attempts : attempts[i] \in AttemptRows
      BY DEF EvidenceInv, NamesOK
    <3> QED BY <3>1 DEF AttemptRows
  <2>3. \A r \in reviews : r.after <= Len(transitions)
    <3>1. Len(transitions) \in Nat
      BY SeqDomain DEF ReopenInv, TablesOK
    <3> QED BY <3>1 DEF ReopenInv, RowsOK
  <2> QED BY <2>1, <2>2, <2>3
      DEF TypeOK, ReopenInv, TablesOK, RowsOK, EvidenceInv, PackagesOK, CapturesOK, NamesOK
<1> QED BY <1>1, ReopeningsExplained, EvidenceKept, PTL

\* The responses of one kind about one allocation, and the learner outcomes stored for them.
Told(a, kind) == {f \in DOMAIN feedback : feedback[f].alloc = a /\ feedback[f].kind = kind}
Stored(a, kind) == {i \in DOMAIN outcomes : /\ outcomes[i].by = "learner"
                                            /\ outcomes[i].response = kind
                                            /\ deliveries[outcomes[i].delivery] = a}

OutcomeKinds == {"helped", "unresolved"}

Counts == \A a \in Allocs, kind \in OutcomeKinds :
              Cardinality(Told(a, kind)) = Cardinality(Stored(a, kind))

\* Two sets of rows that grow together.
LEMMA GrowTogether ==
    ASSUME NEW n \in Nat, NEW m \in Nat, NEW S \in SUBSET (1..n), NEW T \in SUBSET (1..m),
           Cardinality(S) = Cardinality(T)
    PROVE  Cardinality(S \cup {n + 1}) = Cardinality(T \cup {m + 1})
<1>1. IsFiniteSet(1..n) /\ IsFiniteSet(1..m)
  BY FS_Interval
<1>2. IsFiniteSet(S) /\ IsFiniteSet(T)
  BY <1>1, FS_Subset
<1>3. n + 1 \notin S /\ m + 1 \notin T
  OBVIOUS
<1>4. Cardinality(S \cup {n + 1}) = Cardinality(S) + 1
  BY <1>2, <1>3, FS_AddElement
<1>5. Cardinality(T \cup {m + 1}) = Cardinality(T) + 1
  BY <1>2, <1>3, FS_AddElement
<1> QED BY <1>4, <1>5

\* The learner outcomes of a step that stores no other.
LEMMA StoredStays ==
    ASSUME RowsOK, Grown, NEW a, NEW kind,
           \A i \in DOMAIN outcomes' \ DOMAIN outcomes :
               ~(/\ outcomes'[i].by = "learner" /\ outcomes'[i].response = kind
                 /\ deliveries'[outcomes'[i].delivery] = a)
    PROVE  Stored(a, kind)' = Stored(a, kind)
<1>1. \A i \in DOMAIN outcomes : /\ i \in DOMAIN outcomes' /\ outcomes'[i] = outcomes[i]
                                 /\ deliveries'[outcomes[i].delivery] = deliveries[outcomes[i].delivery]
  BY DEF RowsOK, Grown, Extends
<1> QED BY <1>1 DEF Stored

LEMMA StepCounts ==
    ASSUME ReopenInv, Counts, [Next]_vars
    PROVE  Counts'
<1> TablesOK /\ RowsOK /\ Grown
  BY StepGrown DEF ReopenInv
<1>1. ASSUME UNCHANGED feedback, \A i \in DOMAIN outcomes' \ DOMAIN outcomes : outcomes'[i].by # "learner"
      PROVE  Counts'
  <2>1. \A a, kind : Told(a, kind)' = Told(a, kind)
    BY <1>1 DEF Told
  <2>2. \A a, kind : Stored(a, kind)' = Stored(a, kind)
    BY <1>1, StoredStays
  <2> QED BY <2>1, <2>2 DEF Counts
<1>2. ASSUME NEW d \in DOMAIN deliveries, NEW response \in Responses, RecordOutcome(d, response)
      PROVE  Counts'
  <2> DEFINE e == [delivery |-> d, response |-> response, by |-> "adviser"]
  <2>1. outcomes' = Append(outcomes, e) /\ UNCHANGED feedback
    BY <1>2 DEF RecordOutcome
  <2>2. e.by = "adviser"
    OBVIOUS
  <2> HIDE DEF e
  <2>3. PICK n \in Nat : n = Len(outcomes) /\ DOMAIN outcomes = 1..n
    BY SeqDomain DEF TablesOK
  <2>4. DOMAIN outcomes' = 1..(n + 1) /\ outcomes'[n + 1] = e
    BY <2>1, <2>3, AppendExtends DEF TablesOK
  <2>5. \A i \in DOMAIN outcomes' \ DOMAIN outcomes : i = n + 1
    BY <2>3, <2>4
  <2> QED BY <1>1, <2>1, <2>2, <2>4, <2>5
<1>3. ASSUME NEW a \in Allocs, NEW kind \in Kinds, RecordLearnerFeedback(a, kind)
      PROVE  Counts'
  <2> DEFINE e == [alloc |-> a, kind |-> kind,
                   correction |-> IF kind = "correction" THEN Len(captures) + 1 ELSE 0]
  <2>1. feedback' = Append(feedback, e) /\ RespondedAs(a, kind)
    BY <1>3 DEF RecordLearnerFeedback
  <2>2. e.alloc = a /\ e.kind = kind
    OBVIOUS
  <2> HIDE DEF e
  <2>3. PICK n \in Nat : n = Len(feedback) /\ DOMAIN feedback = 1..n
    BY SeqDomain DEF TablesOK
  <2>4. DOMAIN feedback' = 1..(n + 1) /\ feedback'[n + 1] = e /\ Extends(feedback', feedback)
    BY <2>1, <2>3, AppendExtends DEF TablesOK
  <2>5. \A b, k : Told(b, k)' = IF b = a /\ k = kind THEN Told(b, k) \cup {n + 1} ELSE Told(b, k)
    <3>1. \A f \in DOMAIN feedback' : f \in DOMAIN feedback \/ f = n + 1
      BY <2>3, <2>4
    <3>2. \A f \in DOMAIN feedback : f \in DOMAIN feedback' /\ feedback'[f] = feedback[f]
      BY <2>4 DEF Extends
    <3>3. n + 1 \in DOMAIN feedback'
      BY <2>4
    <3> QED BY <2>2, <2>4, <3>1, <3>2, <3>3 DEF Told
  <2>6. CASE kind \notin OutcomeKinds
    <3>1. UNCHANGED outcomes
      BY <2>1, <2>6 DEF RespondedAs, OutcomeKinds
    <3>2. \A b, k : Stored(b, k)' = Stored(b, k)
      BY <3>1, StoredStays
    <3> QED BY <2>5, <2>6, <3>2 DEF Counts
  <2>7. CASE kind \in OutcomeKinds
    <3> DEFINE o == [delivery |-> Len(deliveries) + 1, response |-> kind, by |-> "learner"]
    <3>1. deliveries' = Append(deliveries, a) /\ outcomes' = Append(outcomes, o)
      BY <2>1, <2>7 DEF RespondedAs, OutcomeKinds
    <3>2. o.delivery = Len(deliveries) + 1 /\ o.response = kind /\ o.by = "learner"
      OBVIOUS
    <3> HIDE DEF o
    <3>3. PICK m \in Nat : m = Len(outcomes) /\ DOMAIN outcomes = 1..m
      BY SeqDomain DEF TablesOK
    <3>4. DOMAIN outcomes' = 1..(m + 1) /\ outcomes'[m + 1] = o
      BY <3>1, <3>3, AppendExtends DEF TablesOK
    <3>5. deliveries'[o.delivery] = a
      BY <3>1, <3>2, AppendExtends DEF TablesOK
    <3>6. \A i \in DOMAIN outcomes' : i \in DOMAIN outcomes \/ i = m + 1
      BY <3>3, <3>4
    <3>7. m + 1 \in DOMAIN outcomes'
      BY <3>4
    <3>8. \A b, k : b # a \/ k # kind => Stored(b, k)' = Stored(b, k)
      BY <3>2, <3>4, <3>5, <3>6, StoredStays
    <3>9. Stored(a, kind)' = Stored(a, kind) \cup {m + 1}
      <4>1. \A i \in DOMAIN outcomes :
                /\ i \in DOMAIN outcomes' /\ outcomes'[i] = outcomes[i]
                /\ deliveries'[outcomes[i].delivery] = deliveries[outcomes[i].delivery]
        BY DEF RowsOK, Grown, Extends
      <4> QED BY <3>2, <3>4, <3>5, <3>6, <3>7, <4>1 DEF Stored
    <3>10. Cardinality(Told(a, kind) \cup {n + 1}) = Cardinality(Stored(a, kind) \cup {m + 1})
      <4>1. Told(a, kind) \in SUBSET (1..n) /\ Stored(a, kind) \in SUBSET (1..m)
        BY <2>3, <3>3 DEF Told, Stored
      <4>2. Cardinality(Told(a, kind)) = Cardinality(Stored(a, kind))
        BY <2>7 DEF Counts
      <4>3. PICK S \in SUBSET (1..n) : S = Told(a, kind)
        BY <4>1
      <4>4. PICK T \in SUBSET (1..m) : T = Stored(a, kind)
        BY <4>1
      <4>5. Cardinality(S) = Cardinality(T)
        BY <4>2, <4>3, <4>4
      <4>6. \A k, l \in Nat : \A U \in SUBSET (1..k), V \in SUBSET (1..l) :
                Cardinality(U) = Cardinality(V) =>
                    Cardinality(U \cup {k + 1}) = Cardinality(V \cup {l + 1})
        BY GrowTogether
      <4>7. Cardinality(S \cup {n + 1}) = Cardinality(T \cup {m + 1})
        BY <4>5, <4>6
      <4> QED BY <4>3, <4>4, <4>7
    <3> QED BY <2>5, <3>8, <3>9, <3>10 DEF Counts
  <2> QED BY <2>6, <2>7
<1>4. ASSUME NEW a \in Allocs,
             \/ Approve(a) \/ Retire(a) \/ RecordDelivery(a)
             \/ \E result \in Results : RecordAttempt(a, result)
      PROVE  Counts'
  BY <1>1, <1>4 DEF Approve, Retire, RecordDelivery, RecordAttempt
<1>5. ASSUME NEW c \in Cases, SafetyExit(c) \/ \E to : Transition(c, to)
      PROVE  Counts'
  BY <1>1, <1>5 DEF SafetyExit, Transition
<1>6. CASE UNCHANGED vars
  BY <1>1, <1>6 DEF vars
<1> QED BY <1>2, <1>3, <1>4, <1>5, <1>6 DEF Next

\* Every response has its evidence: its outcome and delivery, or a capture that supersedes one
\* reviewed for the package (delivery_feedback/services.py:85-120).
THEOREM EvidenceComplete == Spec => []ResponseHasEvidence
<1>1. Init => Counts
  <2> SUFFICES ASSUME Init PROVE Counts
    OBVIOUS
  <2>1. \A a, kind : Told(a, kind) = {} /\ Stored(a, kind) = {}
    BY DEF Init, Told, Stored
  <2> QED BY <2>1 DEF Counts
<1>2. Spec => []Counts
  BY <1>1, StepCounts, ReopeningsExplained, PTL DEF Spec
<1>3. EvidenceInv /\ Counts => ResponseHasEvidence
  BY DEF EvidenceInv, NamesOK, Counts, Told, Stored, OutcomeKinds, ResponseHasEvidence
<1> QED BY <1>2, <1>3, EvidenceKept, PTL

-----------------------------------------------------------------------------
(* A safety exit freezes the case                                          *)

\* A step whose new rows, package and move are those of other cases.
Elsewhere(c) ==
    /\ Extends(captures', captures) /\ Extends(attempts', attempts)
    /\ \A d \in DOMAIN deliveries' \ DOMAIN deliveries : CaseOf[deliveries'[d]] # c
    /\ \A i \in DOMAIN outcomes' \ DOMAIN outcomes : CaseOf[deliveries'[outcomes'[i].delivery]] # c
    /\ \A f \in DOMAIN feedback' \ DOMAIN feedback : CaseOf[feedback'[f].alloc] # c
    /\ \A t \in DOMAIN transitions' \ DOMAIN transitions : transitions'[t].case # c
    /\ \A k \in DOMAIN captures' \ DOMAIN captures : captures'[k].case # c
    /\ \A i \in DOMAIN attempts' \ DOMAIN attempts : CaseOf[attempts'[i].alloc] # c
    /\ caseState'[c] = caseState[c]
    /\ \A a \in Allocs : CaseOf[a] = c => entries'[a] = entries[a]

LEMMA RecordUntouched ==
    ASSUME RowsOK, Grown, NEW c, Elsewhere(c)
    PROVE  RecordOf(c)' = RecordOf(c)
<1>1. Restrict(deliveries', {d \in DOMAIN deliveries' : CaseOf[deliveries'[d]] = c})
      = Restrict(deliveries, {d \in DOMAIN deliveries : CaseOf[deliveries[d]] = c})
  <2>1. {d \in DOMAIN deliveries' : CaseOf[deliveries'[d]] = c}
        = {d \in DOMAIN deliveries : CaseOf[deliveries[d]] = c}
    BY DEF Elsewhere, Grown, Extends
  <2> QED BY <2>1 DEF Restrict, Grown, Extends
<1>2. Restrict(outcomes', {i \in DOMAIN outcomes' :
                               CaseOf[deliveries'[outcomes'[i].delivery]] = c})
      = Restrict(outcomes, {i \in DOMAIN outcomes : CaseOf[deliveries[outcomes[i].delivery]] = c})
  <2>1. \A i \in DOMAIN outcomes : /\ i \in DOMAIN outcomes' /\ outcomes'[i] = outcomes[i]
                                   /\ deliveries'[outcomes[i].delivery] = deliveries[outcomes[i].delivery]
    BY DEF RowsOK, Grown, Extends
  <2>2. {i \in DOMAIN outcomes' : CaseOf[deliveries'[outcomes'[i].delivery]] = c}
        = {i \in DOMAIN outcomes : CaseOf[deliveries[outcomes[i].delivery]] = c}
    BY <2>1 DEF Elsewhere
  <2> QED BY <2>1, <2>2 DEF Restrict
<1>3. Restrict(feedback', {f \in DOMAIN feedback' : CaseOf[feedback'[f].alloc] = c})
      = Restrict(feedback, {f \in DOMAIN feedback : CaseOf[feedback[f].alloc] = c})
  <2>1. {f \in DOMAIN feedback' : CaseOf[feedback'[f].alloc] = c}
        = {f \in DOMAIN feedback : CaseOf[feedback[f].alloc] = c}
    BY DEF Elsewhere, Grown, Extends
  <2> QED BY <2>1 DEF Restrict, Grown, Extends
<1>4. Restrict(transitions, MovesOf(c))' = Restrict(transitions, MovesOf(c))
  <2>1. MovesOf(c)' = MovesOf(c)
    BY DEF MovesOf, Elsewhere, Grown, Extends
  <2> QED BY <2>1 DEF Restrict, MovesOf, Grown, Extends
<1>5. Restrict(captures, CapturesOf(c))' = Restrict(captures, CapturesOf(c))
  <2>1. CapturesOf(c)' = CapturesOf(c)
    BY DEF CapturesOf, Elsewhere, Extends
  <2> QED BY <2>1 DEF Restrict, CapturesOf, Elsewhere, Extends
<1>6. \A a \in {b \in Allocs : CaseOf[b] = c} :
          Restrict(attempts, AttemptsOf(a))' = Restrict(attempts, AttemptsOf(a))
  <2> SUFFICES ASSUME NEW a \in Allocs, CaseOf[a] = c
               PROVE  Restrict(attempts, AttemptsOf(a))' = Restrict(attempts, AttemptsOf(a))
    OBVIOUS
  <2>1. AttemptsOf(a)' = AttemptsOf(a)
    BY DEF AttemptsOf, Elsewhere, Extends
  <2> QED BY <2>1 DEF Restrict, AttemptsOf, Elsewhere, Extends
<1>7. [a \in {b \in Allocs : CaseOf[b] = c} |-> <<entries[a], Restrict(attempts, AttemptsOf(a))>>]'
      = [a \in {b \in Allocs : CaseOf[b] = c} |-> <<entries[a], Restrict(attempts, AttemptsOf(a))>>]
  BY <1>6 DEF Elsewhere
<1>8. caseState'[c] = caseState[c]
  BY DEF Elsewhere
<1> QED BY <1>1, <1>2, <1>3, <1>4, <1>5, <1>7, <1>8 DEF RecordOf

LEMMA AppendNew ==
    ASSUME NEW s, IsSeq(s), NEW e
    PROVE  /\ Extends(Append(s, e), s)
           /\ \A k \in DOMAIN Append(s, e) \ DOMAIN s : Append(s, e)[k] = e
<1>1. PICK n \in Nat : n = Len(s) /\ DOMAIN s = 1..n
  BY SeqDomain
<1>2. /\ Extends(Append(s, e), s) /\ DOMAIN Append(s, e) = 1..(n + 1) /\ Append(s, e)[n + 1] = e
  BY <1>1, AppendExtends
<1>3. \A k \in DOMAIN Append(s, e) \ DOMAIN s : k = n + 1
  BY <1>1, <1>2
<1> QED BY <1>2, <1>3

\* A move of another case.
LEMMA MovedElsewhere ==
    ASSUME TablesOK, NEW c, NEW d \in Cases, d # c, NEW to, NEW by, NEW outcome,
           Moved(d, to, by, outcome)
    PROVE  /\ \A t \in DOMAIN transitions' \ DOMAIN transitions : transitions'[t].case # c
           /\ caseState'[c] = caseState[c]
<1> DEFINE e == [case |-> d, from |-> caseState[d], to |-> to, by |-> by, outcome |-> outcome]
<1>1. transitions' = Append(transitions, e) /\ caseState' = [caseState EXCEPT ![d] = to]
  BY DEF Moved
<1>2. e.case = d
  OBVIOUS
<1> HIDE DEF e
<1>3. \A t \in DOMAIN transitions' \ DOMAIN transitions : transitions'[t] = e
  BY <1>1, AppendNew DEF TablesOK
<1> QED BY <1>1, <1>2, <1>3

\* No step touches a case with a safety exit.
LEMMA StepElsewhere ==
    ASSUME ReopenInv, EvidenceInv, [Next]_vars, NEW c \in exited
    PROVE  Elsewhere(c) /\ \A a \in Allocs : CaseOf[a] = c => alloc'[a] \in {alloc[a], "inactive"}
<1> TablesOK /\ RowsOK /\ PackagesOK /\ CapturesOK /\ AttemptsTyped
  BY DEF ReopenInv, EvidenceInv, NamesOK, AttemptsTyped
<1>1. IsSeq(attempts)
  BY TypedIsSeq DEF AttemptsTyped
<1> DEFINE AllocsKept == \A a \in Allocs : CaseOf[a] = c => alloc'[a] \in {alloc[a], "inactive"}
<1>2. CASE UNCHANGED vars
  BY <1>2, SameExtends DEF vars, Elsewhere
<1>3. ASSUME NEW a \in Allocs, Approve(a) PROVE Elsewhere(c) /\ AllocsKept
  <2>1. /\ CaseOf[a] # c /\ alloc' = [alloc EXCEPT ![a] = "active"]
        /\ entries' = [entries EXCEPT ![a] = CapturesOf(CaseOf[a])]
        /\ UNCHANGED <<attempts, caseState, transitions, captures, deliveries, outcomes, feedback>>
    BY <1>3 DEF Approve
  <2>2. \A b \in Allocs : CaseOf[b] = c => entries'[b] = entries[b] /\ alloc'[b] = alloc[b]
    BY <2>1 DEF PackagesOK
  <2> QED BY <2>1, <2>2, SameExtends DEF Elsewhere
<1>4. ASSUME NEW a \in Allocs, Retire(a) PROVE Elsewhere(c) /\ AllocsKept
  <2>1. /\ alloc' = [alloc EXCEPT ![a] = "inactive"]
        /\ UNCHANGED <<entries, attempts, caseState, transitions, captures, deliveries, outcomes,
                       feedback>>
    BY <1>4 DEF Retire
  <2>2. AllocsKept
    BY <2>1 DEF PackagesOK
  <2> QED BY <2>1, <2>2, SameExtends DEF Elsewhere
<1>5. ASSUME NEW a \in Allocs, NEW result \in Results, RecordAttempt(a, result)
      PROVE  Elsewhere(c) /\ AllocsKept
  <2> DEFINE e == [alloc |-> a, result |-> result]
  <2>1. /\ CaseOf[a] # c /\ attempts' = Append(attempts, e)
        /\ UNCHANGED <<alloc, entries, caseState, transitions, captures, deliveries, outcomes,
                       feedback>>
    BY <1>5 DEF RecordAttempt, Approved
  <2>2. e.alloc = a
    OBVIOUS
  <2> HIDE DEF e
  <2>3. /\ Extends(attempts', attempts)
        /\ \A i \in DOMAIN attempts' \ DOMAIN attempts : CaseOf[attempts'[i].alloc] # c
    BY <1>1, <2>1, <2>2, AppendNew
  <2> QED BY <2>1, <2>3, SameExtends DEF Elsewhere
<1>6. ASSUME NEW a \in Allocs, RecordDelivery(a) PROVE Elsewhere(c) /\ AllocsKept
  <2>1. /\ CaseOf[a] # c /\ deliveries' = Append(deliveries, a)
        /\ UNCHANGED <<alloc, entries, attempts, caseState, transitions, captures, outcomes,
                       feedback>>
    BY <1>6 DEF RecordDelivery, Approved
  <2>2. \A d \in DOMAIN deliveries' \ DOMAIN deliveries : CaseOf[deliveries'[d]] # c
    BY <2>1, AppendNew DEF TablesOK
  <2> QED BY <2>1, <2>2, SameExtends DEF Elsewhere
<1>7. ASSUME NEW d \in Cases, NEW to, Transition(d, to) PROVE Elsewhere(c) /\ AllocsKept
  <2>1. /\ d # c /\ Moved(d, to, "adviser", 0)
        /\ UNCHANGED <<alloc, entries, attempts, captures, deliveries, outcomes, feedback>>
    BY <1>7 DEF Transition, MovedByAdviser
  <2> QED BY <2>1, MovedElsewhere, SameExtends DEF Elsewhere
<1>8. ASSUME NEW d \in Cases, SafetyExit(d) PROVE Elsewhere(c) /\ AllocsKept
  BY <1>8, SameExtends DEF SafetyExit, Elsewhere
<1>9. ASSUME NEW d \in DOMAIN deliveries, NEW response \in Responses, RecordOutcome(d, response)
      PROVE  Elsewhere(c) /\ AllocsKept
  <2> DEFINE x == CaseOf[deliveries[d]]
             e == [delivery |-> d, response |-> response, by |-> "adviser"]
  <2>1. /\ x # c /\ outcomes' = Append(outcomes, e)
        /\ \/ UNCHANGED <<transitions, caseState>>
           \/ Moved(x, "open", "feedback", Len(outcomes) + 1)
        /\ UNCHANGED <<alloc, entries, attempts, captures, deliveries, feedback>>
    BY <1>9 DEF RecordOutcome, OutcomeAllowed, ReopenFromUnresolved
  <2>2. e.delivery = d /\ x \in Cases
    BY CasesOf DEF RowsOK
  <2>3. \A i \in DOMAIN outcomes' \ DOMAIN outcomes : outcomes'[i] = e
    <3> HIDE DEF e
    <3> QED BY <2>1, AppendNew DEF TablesOK
  <2>4. \A i \in DOMAIN outcomes' \ DOMAIN outcomes : CaseOf[deliveries'[outcomes'[i].delivery]] # c
    <3> HIDE DEF e
    <3> QED BY <2>1, <2>2, <2>3
  <2>5. /\ \A t \in DOMAIN transitions' \ DOMAIN transitions : transitions'[t].case # c
        /\ caseState'[c] = caseState[c]
    <3> HIDE DEF x
    <3> QED BY <2>1, <2>2, MovedElsewhere
  <2> QED BY <2>1, <2>4, <2>5, SameExtends DEF Elsewhere
<1>10. ASSUME NEW a \in Allocs, NEW kind \in Kinds, RecordLearnerFeedback(a, kind)
       PROVE  Elsewhere(c) /\ AllocsKept
  <2> DEFINE e == [alloc |-> a, kind |-> kind,
                   correction |-> IF kind = "correction" THEN Len(captures) + 1 ELSE 0]
  <2>1. /\ CaseOf[a] # c /\ alloc[a] = "active"
        /\ feedback' = Append(feedback, e)
        /\ CorrectedAs(a, kind)
        /\ RespondedAs(a, kind)
        /\ \/ OpenReview(CaseOf[a], Len(feedback) + 1)
           \/ UNCHANGED <<reviews, transitions, caseState>>
        /\ UNCHANGED <<alloc, entries, attempts>>
    BY <1>10 DEF RecordLearnerFeedback, Approved
  <2>2. e.alloc = a
    OBVIOUS
  <2> HIDE DEF e
  <2>3. \A f \in DOMAIN feedback' \ DOMAIN feedback : CaseOf[feedback'[f].alloc] # c
    BY <2>1, <2>2, AppendNew DEF TablesOK
  <2>4. /\ Extends(captures', captures)
        /\ \A k \in DOMAIN captures' \ DOMAIN captures : captures'[k].case # c
    BY <2>1, CorrectionAdds DEF PackagesOK
  <2>5. /\ \A t \in DOMAIN transitions' \ DOMAIN transitions : transitions'[t].case # c
        /\ caseState'[c] = caseState[c]
    <3>1. \/ UNCHANGED <<transitions, caseState>>
          \/ Moved(CaseOf[a], "open", "feedback", 0)
      BY <2>1 DEF OpenReview
    <3> QED BY <2>1, <3>1, CasesOf, MovedElsewhere
  <2>6. /\ \A d \in DOMAIN deliveries' \ DOMAIN deliveries : CaseOf[deliveries'[d]] # c
        /\ \A i \in DOMAIN outcomes' \ DOMAIN outcomes :
              CaseOf[deliveries'[outcomes'[i].delivery]] # c
    <3>1. CASE UNCHANGED <<deliveries, outcomes>>
      BY <3>1
    <3>2. CASE kind \in {"helped", "unresolved"}
      <4> DEFINE o == [delivery |-> Len(deliveries) + 1, response |-> kind, by |-> "learner"]
      <4>1. deliveries' = Append(deliveries, a) /\ outcomes' = Append(outcomes, o)
        BY <2>1, <3>2 DEF RespondedAs
      <4>2. o.delivery = Len(deliveries) + 1
        OBVIOUS
      <4> HIDE DEF o
      <4>3. deliveries'[o.delivery] = a
        BY <4>1, <4>2, AppendExtends DEF TablesOK
      <4>4. /\ \A d \in DOMAIN deliveries' \ DOMAIN deliveries : deliveries'[d] = a
            /\ \A i \in DOMAIN outcomes' \ DOMAIN outcomes : outcomes'[i] = o
        BY <4>1, AppendNew DEF TablesOK
      <4> QED BY <2>1, <4>3, <4>4
    <3> QED BY <2>1, <3>1, <3>2 DEF RespondedAs
  <2> QED BY <2>1, <2>3, <2>4, <2>5, <2>6, SameExtends DEF Elsewhere
<1>11. ASSUME NEW a \in Allocs,
              \/ Approve(a) \/ Retire(a) \/ RecordDelivery(a)
              \/ \E result \in Results : RecordAttempt(a, result)
              \/ \E kind \in Kinds : RecordLearnerFeedback(a, kind)
       PROVE  Elsewhere(c) /\ AllocsKept
  <2> HIDE DEF AllocsKept
  <2> QED BY <1>3, <1>4, <1>5, <1>6, <1>10, <1>11
<1>12. ASSUME NEW d \in Cases, SafetyExit(d) \/ \E to : Transition(d, to)
       PROVE  Elsewhere(c) /\ AllocsKept
  <2> HIDE DEF AllocsKept
  <2> QED BY <1>7, <1>8, <1>12
<1>13. CASE Next
  <2>1. Elsewhere(c) /\ AllocsKept
    <3> HIDE DEF AllocsKept
    <3> QED BY <1>9, <1>11, <1>12, <1>13 DEF Next
  <2> QED BY <2>1
<1> QED BY <1>2, <1>13

\* After its safety exit nothing the ordinary workflow keeps of a case changes, and nothing of it
\* becomes active (casework/services.py:29-30, delivery_feedback/services.py:26-42 and 82).
THEOREM ExitFreezes == Spec => ExitedCaseFrozen
<1>1. ReopenInv /\ EvidenceInv /\ [Next]_vars =>
          [\A c \in exited :
              /\ RecordOf(c)' = RecordOf(c)
              /\ \A a \in Allocs : CaseOf[a] = c => alloc'[a] \in {alloc[a], "inactive"}]_vars
  <2> SUFFICES ASSUME ReopenInv, EvidenceInv, [Next]_vars, NEW c \in exited
               PROVE  /\ RecordOf(c)' = RecordOf(c)
                      /\ \A a \in Allocs : CaseOf[a] = c => alloc'[a] \in {alloc[a], "inactive"}
    OBVIOUS
  <2>1. RowsOK /\ Grown
    BY StepGrown DEF ReopenInv
  <2>2. Elsewhere(c) /\ \A a \in Allocs : CaseOf[a] = c => alloc'[a] \in {alloc[a], "inactive"}
    BY StepElsewhere
  <2>3. RecordOf(c)' = RecordOf(c)
    BY <2>1, <2>2, RecordUntouched
  <2> QED BY <2>2, <2>3
<1> QED BY <1>1, ReopeningsExplained, EvidenceKept, PTL DEF Spec, ExitedCaseFrozen
=============================================================================
