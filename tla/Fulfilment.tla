----------------------------- MODULE Fulfilment -----------------------------
(***************************************************************************)
(* What follows an approval: the execution package and its local export    *)
(* (planning/services.py, export/services.py), deliveries, outcomes and    *)
(* learner feedback (delivery_feedback/services.py) and the case they      *)
(* reopen (casework/services.py).  Every operation is one transaction: a   *)
(* refusal anywhere in it, nested services included, leaves nothing        *)
(* behind, so a refused call is an action that is not enabled.             *)
(***************************************************************************)
EXTENDS Naturals, Sequences, FiniteSets, SequencesExt, FiniteSetsExt

CONSTANTS Allocs,         \* the allocations proposed
          CaseOf,         \* the case of each
          Results,        \* the results of writeback attempts: "succeeded" and some of the
                          \* retryable ones, "pending", "failed" and "not_sent"
          MaxRows         \* bound: rows in the tables that only grow, when a call starts

ASSUME AllocsAssumption == IsFiniteSet(Allocs)

VARIABLES alloc,         \* state of each allocation
          entries,       \* the captures reviewed for each execution package, none while there is none
          attempts,      \* the writeback attempts
          caseState,     \* state of each case
          transitions,   \* the transition log
          captures,      \* source captures; a correction supersedes an earlier one
          deliveries,    \* delivery events: the allocation of each
          outcomes,      \* outcome confirmations
          feedback,      \* learner responses
          reviews,       \* review requests, with the transitions that preceded them
          exited         \* cases with a safety exit

vars == <<alloc, entries, attempts, caseState, transitions, captures, deliveries, outcomes,
          feedback, reviews, exited>>

Cases == {CaseOf[a] : a \in Allocs}
Kinds == {"helped", "unresolved", "human_help", "correction"}
Responses == {"helped", "unresolved", "confirmed"}

Init ==
    /\ alloc = [a \in Allocs |-> "proposed"]
    /\ entries = [a \in Allocs |-> {}]
    /\ caseState = [c \in Cases |-> "open"]
    /\ captures = SetToSeq({[case |-> c, supersedes |-> 0] : c \in Cases})
    /\ attempts = <<>> /\ transitions = <<>> /\ deliveries = <<>> /\ outcomes = <<>> /\ feedback = <<>>
    /\ reviews = {} /\ exited = {}

\* The bound of the model, on the rows of the tables that grow with every call.
Room == Len(attempts) + Len(deliveries) + Len(outcomes) + Len(feedback) + Len(transitions) < MaxRows

\* The captures of a case; their order is that of their numbers.
CapturesOf(c) == {k \in DOMAIN captures : captures[k].case = c}

-----------------------------------------------------------------------------
(* Decisions (module Workbench has them in full) and the execution package *)

\* An approval activates and creates the package and its export; it reviewed every ordinary
\* capture of the case.
Approve(a) ==
    /\ alloc[a] = "proposed"
    /\ CaseOf[a] \notin exited
    /\ alloc' = [alloc EXCEPT ![a] = "active"]
    /\ entries' = [entries EXCEPT ![a] = CapturesOf(CaseOf[a])]
    /\ UNCHANGED <<attempts, caseState, transitions, captures, deliveries, outcomes, feedback,
                   reviews, exited>>

\* An amendment, a rejection, or the replanning that replaces a pending proposal.
Retire(a) ==
    /\ \/ alloc[a] = "proposed"
       \/ alloc[a] = "active" /\ CaseOf[a] \notin exited
    /\ alloc' = [alloc EXCEPT ![a] = "inactive"]
    /\ UNCHANGED <<entries, attempts, caseState, transitions, captures, deliveries, outcomes,
                   feedback, reviews, exited>>

Approved(a) == alloc[a] = "active" /\ CaseOf[a] \notin exited

-----------------------------------------------------------------------------
(* The local outbox                                                        *)

\* The attempts of an allocation's export; their order is that of their numbers.
AttemptsOf(a) == {i \in DOMAIN attempts : attempts[i].alloc = a}

\* Fault: a stored success is not replayed.
FaultSuccessNotReplayed(a) == FALSE

\* A stored success answers every later attempt, whatever its result.
Replayed(a) == \E i \in DOMAIN attempts : attempts[i] = [alloc |-> a, result |-> "succeeded"]

RecordAttempt(a, result) ==
    /\ Approved(a)
    /\ Room
    /\ ~Replayed(a)
    /\ attempts' = Append(attempts, [alloc |-> a, result |-> result])
    /\ UNCHANGED <<alloc, entries, caseState, transitions, captures, deliveries, outcomes,
                   feedback, reviews, exited>>

\* reconcile_local_state: what the staff and the learner page show.
Latest(a) == {i \in AttemptsOf(a) : \A j \in AttemptsOf(a) : j <= i}
LocalState(a) == IF Latest(a) = {} THEN "not_sent" ELSE attempts[CHOOSE i \in Latest(a) : TRUE].result

-----------------------------------------------------------------------------
(* The case workflow                                                       *)

Successors == [open |-> {"active", "closed"}, active |-> {"closed"}, closed |-> {"open"}]

Moved(c, to, by, outcome) ==
    /\ transitions' = Append(transitions, [case |-> c, from |-> caseState[c], to |-> to,
                                           by |-> by, outcome |-> outcome])
    /\ caseState' = [caseState EXCEPT ![c] = to]

\* Fault: the adviser's move is applied and not logged.
FaultMoveNotLogged(c, to) ==
    caseState' = [caseState EXCEPT ![c] = to] /\ UNCHANGED transitions

MovedByAdviser(c, to) == Moved(c, to, "adviser", 0)

Transition(c, to) ==
    /\ c \notin exited
    /\ to \in Successors[caseState[c]]
    /\ Room
    /\ MovedByAdviser(c, to)
    /\ UNCHANGED <<alloc, entries, attempts, captures, deliveries, outcomes, feedback, reviews,
                   exited>>

\* Fault: only a closed case is taken back to open.
FaultActiveStaysActive(c, f) ==
    /\ reviews' = reviews \cup {[feedback |-> f, after |-> Len(transitions)]}
    /\ IF caseState[c] = "closed" THEN Moved(c, "open", "feedback", 0)
       ELSE UNCHANGED <<transitions, caseState>>

\* open_review_from_feedback: no transition is made up for a case that is open already.
OpenReview(c, f) ==
    /\ reviews' = reviews \cup {[feedback |-> f, after |-> Len(transitions)]}
    /\ IF caseState[c] # "open" THEN Moved(c, "open", "feedback", 0)
       ELSE UNCHANGED <<transitions, caseState>>

-----------------------------------------------------------------------------
(* Deliveries, outcomes and learner responses                              *)

RecordDelivery(a) ==
    /\ Approved(a)
    /\ Room
    /\ deliveries' = Append(deliveries, a)
    /\ UNCHANGED <<alloc, entries, attempts, caseState, transitions, captures, outcomes, feedback,
                   reviews, exited>>

\* Fault: the outcome survives when the case cannot be reopened.
FaultOutcomeKept(c, outcome) ==
    IF caseState[c] = "closed" THEN Moved(c, "open", "feedback", outcome)
    ELSE UNCHANGED <<transitions, caseState>>

\* reopen_from_unresolved: only a closed case, once for the outcome.
ReopenFromUnresolved(c, outcome) ==
    /\ \A t \in DOMAIN transitions : transitions[t].outcome # outcome
    /\ caseState[c] = "closed"
    /\ Moved(c, "open", "feedback", outcome)

\* Fault: the safety exit is looked up for the reopening only.
FaultOutcomeAfterExit(c) == TRUE

OutcomeAllowed(c) == c \notin exited

\* The allocation of the delivery may be retired by now.
RecordOutcome(d, response) ==
    LET c == CaseOf[deliveries[d]]
    IN  /\ OutcomeAllowed(c)
        /\ Room
        /\ outcomes' = Append(outcomes, [delivery |-> d, response |-> response, by |-> "adviser"])
        /\ IF response = "unresolved" THEN ReopenFromUnresolved(c, Len(outcomes) + 1)
           ELSE UNCHANGED <<transitions, caseState>>
        /\ UNCHANGED <<alloc, entries, attempts, captures, deliveries, feedback, reviews, exited>>

\* Fault: the outcome names the delivery before its own.
FaultEarlierDeliveryNamed(a, kind) ==
    IF kind \in {"helped", "unresolved"}
    THEN /\ deliveries' = Append(deliveries, a)
         /\ outcomes' = Append(outcomes, [delivery |-> Len(deliveries), response |-> kind,
                                          by |-> "learner"])
    ELSE UNCHANGED <<deliveries, outcomes>>

\* A learner's response about a delivery stands for the delivery as well.
RespondedAs(a, kind) ==
    IF kind \in {"helped", "unresolved"}
    THEN /\ deliveries' = Append(deliveries, a)
         /\ outcomes' = Append(outcomes, [delivery |-> Len(deliveries) + 1, response |-> kind,
                                          by |-> "learner"])
    ELSE UNCHANGED <<deliveries, outcomes>>

\* Fault: a correction supersedes the last correction made for the case, reviewed or not.
FaultLatestCorrected(a, kind) ==
    IF kind = "correction"
    THEN captures' = Append(captures, [case |-> CaseOf[a],
                                       supersedes |-> Max(CapturesOf(CaseOf[a]))])
    ELSE UNCHANGED captures

\* A correction supersedes the first capture reviewed for the package.
CorrectedAs(a, kind) ==
    IF kind = "correction"
    THEN captures' = Append(captures, [case |-> CaseOf[a], supersedes |-> Min(entries[a])])
    ELSE UNCHANGED captures

RecordLearnerFeedback(a, kind) ==
    /\ Approved(a)
    /\ Room
    /\ feedback' = Append(feedback,
            [alloc |-> a, kind |-> kind,
             correction |-> IF kind = "correction" THEN Len(captures) + 1 ELSE 0])
    /\ CorrectedAs(a, kind)
    /\ RespondedAs(a, kind)
    /\ IF kind \in {"unresolved", "human_help", "correction"}
       THEN OpenReview(CaseOf[a], Len(feedback) + 1)
       ELSE UNCHANGED <<reviews, transitions, caseState>>
    /\ UNCHANGED <<alloc, entries, attempts, exited>>

SafetyExit(c) ==
    /\ c \notin exited
    /\ exited' = exited \cup {c}
    /\ UNCHANGED <<alloc, entries, attempts, caseState, transitions, captures, deliveries,
                   outcomes, feedback, reviews>>

Next ==
    \/ \E a \in Allocs : \/ Approve(a)
                         \/ Retire(a)
                         \/ RecordDelivery(a)
                         \/ \E result \in Results : RecordAttempt(a, result)
                         \/ \E kind \in Kinds : RecordLearnerFeedback(a, kind)
    \/ \E d \in DOMAIN deliveries, response \in Responses : RecordOutcome(d, response)
    \/ \E c \in Cases : SafetyExit(c) \/ \E to \in {"open", "active", "closed"} : Transition(c, to)

Spec == Init /\ [][Next]_vars

-----------------------------------------------------------------------------
(* Properties                                                              *)

\* The type invariant: records point at records of the same case.
TypeOK ==
    /\ alloc \in [Allocs -> {"proposed", "active", "inactive"}]
    /\ \A a \in Allocs : alloc[a] = "active" => entries[a] # {}
    /\ \A i \in DOMAIN attempts : entries[attempts[i].alloc] # {} /\ attempts[i].result \in Results
    /\ caseState \in [Cases -> DOMAIN Successors]
    /\ \A i \in DOMAIN captures :
          captures[i].supersedes # 0 => captures[captures[i].supersedes].case = captures[i].case
    /\ \A i \in DOMAIN outcomes : /\ outcomes[i].delivery \in DOMAIN deliveries
                                  /\ outcomes[i].response \in Responses
    /\ \A r \in reviews : r.feedback \in DOMAIN feedback /\ r.after <= Len(transitions)
    /\ exited \subseteq Cases

\* Where a case is after some of its moves.
After(moves) == IF moves = {} THEN "open" ELSE transitions[Max(moves)].to

MovesOf(c) == {t \in DOMAIN transitions : transitions[t].case = c}

\* The immutable transition log explains the mutable case state, whoever moved the case: each
\* transition starts where the one before it ended and goes elsewhere, and the case is where the
\* last one ended (casework/services.py:24-114).
HistoryExplainsState ==
    \A c \in Cases :
        /\ \A t \in MovesOf(c) : /\ transitions[t].from = After({u \in MovesOf(c) : u < t})
                                 /\ transitions[t].from # transitions[t].to
        /\ caseState[c] = After(MovesOf(c))

\* A learner who asks for help, corrects the source or reports the need unresolved is heard: the
\* response has a review request, and unless the case is open an adviser moved it since
\* (delivery_feedback/services.py:121-127, casework/services.py:80-108).
StaffAreAsked ==
    \A f \in DOMAIN feedback :
        feedback[f].kind # "helped" =>
            LET c == CaseOf[feedback[f].alloc]
            IN  \E r \in reviews :
                    /\ r.feedback = f
                    /\ \/ caseState[c] = "open"
                       \/ \E t \in (r.after + 1)..Len(transitions) :
                              transitions[t].case = c /\ transitions[t].by = "adviser"

\* "An unresolved outcome may cause exactly one automated reopening" (product/CONTEXT.md:32): an
\* adviser's unresolved outcome and its reopening are stored together or not at all, and no
\* other outcome reopens (delivery_feedback/services.py:36-58, casework/services.py:44-77).
ReopenedExactlyOnce ==
    \A i \in DOMAIN outcomes :
        LET reopenings == {t \in DOMAIN transitions : transitions[t].outcome = i}
        IN  /\ Cardinality(reopenings) =
                   IF outcomes[i].by = "adviser" /\ outcomes[i].response = "unresolved" THEN 1 ELSE 0
            /\ \A t \in reopenings : /\ transitions[t].from = "closed"
                                     /\ transitions[t].case = CaseOf[deliveries[outcomes[i].delivery]]

\* The evidence of a response is all there: a learner outcome and delivery for each helped or
\* unresolved one, and for each correction a capture superseding one that was reviewed for the
\* very package corrected (delivery_feedback/services.py:85-120).
ResponseHasEvidence ==
    /\ \A f \in DOMAIN feedback :
          feedback[f].correction # 0 =>
              captures[feedback[f].correction].supersedes \in entries[feedback[f].alloc]
    /\ \A a \in Allocs, kind \in {"helped", "unresolved"} :
          Cardinality({f \in DOMAIN feedback : feedback[f].alloc = a /\ feedback[f].kind = kind}) =
          Cardinality({i \in DOMAIN outcomes : /\ outcomes[i].by = "learner"
                                               /\ outcomes[i].response = kind
                                               /\ deliveries[outcomes[i].delivery] = a})

\* Whatever attempts follow, late failures included, an export that succeeded stays succeeded
\* for every reader (export/services.py:108-142).
SuccessIsFinal ==
    [][\A a \in Allocs : LocalState(a) = "succeeded" => LocalState(a)' = "succeeded"]_vars

\* Everything the ordinary workflow keeps of a case.
RecordOf(c) ==
    [packages   |-> [a \in {b \in Allocs : CaseOf[b] = c} |->
                        <<entries[a], Restrict(attempts, AttemptsOf(a))>>],
     case       |-> <<caseState[c], Restrict(transitions, MovesOf(c)),
                      Restrict(captures, CapturesOf(c))>>,
     deliveries |-> Restrict(deliveries, {d \in DOMAIN deliveries : CaseOf[deliveries[d]] = c}),
     outcomes   |-> Restrict(outcomes, {i \in DOMAIN outcomes :
                                            CaseOf[deliveries[outcomes[i].delivery]] = c}),
     feedback   |-> Restrict(feedback, {f \in DOMAIN feedback : CaseOf[feedback[f].alloc] = c})]

\* A safety exit freezes the case: no service adds an attempt, a delivery, an outcome of an
\* earlier delivery, a response, a correction or a move, and nothing becomes active.
ExitedCaseFrozen ==
    [][\A c \in exited :
          /\ RecordOf(c)' = RecordOf(c)
          /\ \A a \in Allocs : CaseOf[a] = c => alloc'[a] \in {alloc[a], "inactive"}]_vars
=============================================================================
