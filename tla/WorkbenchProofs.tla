--------------------------- MODULE WorkbenchProofs ---------------------------
(***************************************************************************)
(* The decision workbench, for any demands, valid requests, advisers and   *)
(* bounds.  What concerns rows, log and open pages (IInv) holds whatever   *)
(* the planner's search returns: it uses of a planner run only that it     *)
(* keeps the request it was made for, that a selected plan is one of the   *)
(* run's, and what propose looks up before a row is created.  That no      *)
(* demand is dropped (KeptInv) also uses what a recorded run contains      *)
(* (CapacityPlannerProofs).                                                *)
(***************************************************************************)
EXTENDS Workbench, CapacityPlannerProofs

-----------------------------------------------------------------------------
(* Tables of rows                                                          *)

\* A sequence, of whatever it holds.
IsSeq(s) == s \in Seq({s[k] : k \in DOMAIN s})

LEMMA SeqDomain == ASSUME NEW s, IsSeq(s) PROVE Len(s) \in Nat /\ DOMAIN s = 1..Len(s)
  BY LenProperties DEF IsSeq

LEMMA TypedIsSeq == ASSUME NEW S, NEW s \in Seq(S) PROVE IsSeq(s)
<1>1. Len(s) \in Nat /\ DOMAIN s = 1..Len(s) /\ s = [k \in 1..Len(s) |-> s[k]]
  BY LenProperties
<1>2. s \in [1..Len(s) -> {s[k] : k \in DOMAIN s}]
  BY <1>1
<1> QED BY <1>1, <1>2, SeqDef DEF IsSeq

\* A function on an initial segment of the numbers is a sequence of that length.
LEMMA FunctionIsSeq ==
    ASSUME NEW n \in Nat, NEW s, DOMAIN s = 1..n, s = [k \in 1..n |-> s[k]]
    PROVE  IsSeq(s) /\ Len(s) = n
<1>1. s \in [1..n -> {s[k] : k \in DOMAIN s}]
  OBVIOUS
<1>2. s \in Seq({s[k] : k \in DOMAIN s})
  BY <1>1, SeqDef
<1> QED BY <1>2, LenProperties DEF IsSeq

\* Appending one row.
LEMMA AppendRow ==
    ASSUME NEW s, IsSeq(s), NEW e
    PROVE  /\ IsSeq(Append(s, e)) /\ Len(Append(s, e)) = Len(s) + 1
           /\ DOMAIN Append(s, e) = 1..(Len(s) + 1)
           /\ \A k \in DOMAIN s : Append(s, e)[k] = s[k]
           /\ Append(s, e)[Len(s) + 1] = e
<1> DEFINE S == {s[k] : k \in DOMAIN s} \cup {e}
<1>1. s \in Seq(S) /\ e \in S
  BY SeqDomain, SeqDef DEF IsSeq
<1>2. Append(s, e) \in Seq(S) /\ Len(Append(s, e)) = Len(s) + 1
  <2> HIDE DEF S
  <2> QED BY <1>1, AppendProperties
<1>3. DOMAIN Append(s, e) = 1..(Len(s) + 1)
  BY <1>2, LenProperties
<1>4. /\ \A k \in 1..Len(s) : Append(s, e)[k] = s[k]
      /\ Append(s, e)[Len(s) + 1] = e
  <2> HIDE DEF S
  <2> QED BY <1>1, AppendProperties
<1>5. IsSeq(Append(s, e))
  <2> HIDE DEF S
  <2> QED BY <1>2, TypedIsSeq
<1> QED BY <1>2, <1>3, <1>4, <1>5, SeqDomain

\* Appending any number of rows.
LEMMA AppendRows ==
    ASSUME NEW s, IsSeq(s), NEW t, IsSeq(t)
    PROVE  /\ IsSeq(s \o t)
           /\ DOMAIN (s \o t) = 1..(Len(s) + Len(t))
           /\ \A k \in 1..Len(s) : (s \o t)[k] = s[k]
           /\ \A i \in 1..Len(t) : (s \o t)[Len(s) + i] = t[i]
<1> DEFINE S == {s[k] : k \in DOMAIN s} \cup {t[k] : k \in DOMAIN t}
<1>1. s \in Seq(S) /\ t \in Seq(S)
  BY SeqDomain, SeqDef DEF IsSeq
<1>2. Len(s) \in Nat /\ Len(t) \in Nat /\ DOMAIN s = 1..Len(s)
  BY SeqDomain
<1>3. s \o t \in Seq(S) /\ Len(s \o t) = Len(s) + Len(t)
  <2> HIDE DEF S
  <2> QED BY <1>1, ConcatProperties
<1>4. \A k \in 1..(Len(s) + Len(t)) : (s \o t)[k] = IF k <= Len(s) THEN s[k] ELSE t[k - Len(s)]
  <2> HIDE DEF S
  <2> QED BY <1>1, ConcatProperties
<1>5. IsSeq(s \o t) /\ DOMAIN (s \o t) = 1..(Len(s) + Len(t))
  <2> HIDE DEF S
  <2> QED BY <1>3, TypedIsSeq, LenProperties
<1> QED BY <1>2, <1>4, <1>5

-----------------------------------------------------------------------------
(* The proposals made from a plan                                          *)

\* The served demands in some order, each once.
LEMMA ServedOnce ==
    ASSUME NEW S \in SUBSET Demands
    PROVE  /\ IsSeq(SetToSeq(S))
           /\ \A i \in DOMAIN SetToSeq(S) : SetToSeq(S)[i] \in S
           /\ \A i, j \in DOMAIN SetToSeq(S) : SetToSeq(S)[i] = SetToSeq(S)[j] => i = j
           /\ \A d \in S : \E i \in DOMAIN SetToSeq(S) : SetToSeq(S)[i] = d
<1> DEFINE n == Cardinality(S)
           s == SetToSeq(S)
<1>1. IsFiniteSet(S)
  BY DemandsAreFinite, FS_Subset
<1>2. n \in Nat /\ ExistsBijection(1..n, S)
  BY <1>1, FS_CardinalityType
<1>3. \E f \in [1..n -> S] : IsInjective(f)
  BY <1>2 DEF ExistsBijection, Bijection, Injection, IsInjective
<1>4. s \in [1..n -> S] /\ IsInjective(s)
  BY <1>3 DEF SetToSeq
<1>5. s \in Injection(1..n, S)
  BY <1>4 DEF Injection
<1>6. IsFiniteSet(1..n) /\ Cardinality(1..n) = n
  BY <1>2, FS_Interval
<1>7. s \in Surjection(1..n, S)
  BY <1>1, <1>5, <1>6, FS_Injection
<1>8. IsSeq(s)
  BY <1>2, <1>4, FunctionIsSeq
<1> QED BY <1>4, <1>7, <1>8 DEF IsInjective, Surjection

LEMMA ProposalRows ==
    ASSUME NEW plan, DOMAIN plan.alloc \subseteq Demands, NEW run, NEW prior
    PROVE  LET rows == Proposals(plan, run, prior)
           IN  /\ IsSeq(rows)
               /\ \A i \in DOMAIN rows :
                     \E d \in DOMAIN plan.alloc : rows[i] = Proposal(plan, d, run, prior[d])
               /\ \A i, j \in DOMAIN rows : rows[i].demand = rows[j].demand => i = j
               /\ \A d \in DOMAIN plan.alloc : \E i \in DOMAIN rows : rows[i].demand = d
<1> DEFINE served == SetToSeq(DOMAIN plan.alloc)
           rows == Proposals(plan, run, prior)
<1>1. /\ IsSeq(served)
      /\ \A i \in DOMAIN served : served[i] \in DOMAIN plan.alloc
      /\ \A i, j \in DOMAIN served : served[i] = served[j] => i = j
      /\ \A d \in DOMAIN plan.alloc : \E i \in DOMAIN served : served[i] = d
  BY ServedOnce
<1>2. rows = [i \in DOMAIN served |-> Proposal(plan, served[i], run, prior[served[i]])]
  BY DEF Proposals
<1> HIDE DEF served, rows
<1>3. \A i \in DOMAIN rows : /\ i \in DOMAIN served
                             /\ rows[i] = Proposal(plan, served[i], run, prior[served[i]])
                             /\ rows[i].demand = served[i]
  BY <1>2 DEF Proposal
<1>4. IsSeq(rows)
  BY <1>1, <1>2, SeqDomain, FunctionIsSeq
<1> QED BY <1>1, <1>2, <1>3, <1>4 DEF rows

LEMMA RefreshedRows ==
    ASSUME NEW rows, IsSeq(rows), NEW run, DOMAIN run.primary.alloc \subseteq Demands,
           NEW runId, NEW amended
    PROVE  LET new     == Refreshed(rows, run, runId, amended)
               retired == StaleProposals(rows, run)
           IN  /\ IsSeq(new) /\ DOMAIN rows \subseteq DOMAIN new
               /\ \A a \in DOMAIN rows :
                     new[a] = IF a \in retired THEN [rows[a] EXCEPT !.state = "inactive"]
                              ELSE rows[a]
               /\ \A a \in DOMAIN new \ DOMAIN rows :
                     \E d \in DOMAIN run.primary.alloc :
                        new[a] = Proposal(run.primary, d, runId, PriorOf(rows, retired, amended, d))
               /\ \A a, b \in DOMAIN new \ DOMAIN rows : new[a].demand = new[b].demand => a = b
               /\ \A d \in DOMAIN run.primary.alloc :
                     \E a \in DOMAIN new \ DOMAIN rows : new[a].demand = d
<1> DEFINE new     == Refreshed(rows, run, runId, amended)
           retired == StaleProposals(rows, run)
           prior   == [d \in Demands |-> PriorOf(rows, retired, amended, d)]
           kept    == Retired(rows, retired)
           added   == Proposals(run.primary, runId, prior)
           n       == Len(rows)
<1>1. n \in Nat /\ DOMAIN rows = 1..n
  BY SeqDomain
<1>2. /\ kept = [a \in 1..n |-> IF a \in retired THEN [rows[a] EXCEPT !.state = "inactive"]
                                ELSE rows[a]]
      /\ IsSeq(kept) /\ Len(kept) = n
  BY <1>1, FunctionIsSeq DEF Retired
<1>3. /\ IsSeq(added)
      /\ \A i \in DOMAIN added : \E d \in DOMAIN run.primary.alloc :
            added[i] = Proposal(run.primary, d, runId, prior[d])
      /\ \A i, j \in DOMAIN added : added[i].demand = added[j].demand => i = j
      /\ \A d \in DOMAIN run.primary.alloc : \E i \in DOMAIN added : added[i].demand = d
  <2> DEFINE plan == run.primary
  <2>1. DOMAIN plan.alloc \subseteq Demands
    OBVIOUS
  <2>2. added = Proposals(plan, runId, prior)
    OBVIOUS
  <2> HIDE DEF plan, prior, added
  <2>3. /\ IsSeq(added)
        /\ \A i \in DOMAIN added :
              \E d \in DOMAIN plan.alloc : added[i] = Proposal(plan, d, runId, prior[d])
        /\ \A i, j \in DOMAIN added : added[i].demand = added[j].demand => i = j
        /\ \A d \in DOMAIN plan.alloc : \E i \in DOMAIN added : added[i].demand = d
    BY <2>1, <2>2, ProposalRows
  <2> QED BY <2>3 DEF plan
<1>4. \A d \in DOMAIN run.primary.alloc : prior[d] = PriorOf(rows, retired, amended, d)
  OBVIOUS
<1>5. new = kept \o added
  BY DEF Refreshed
<1> HIDE DEF new, retired, prior, kept, added, n
<1>6. Len(added) \in Nat /\ DOMAIN added = 1..Len(added)
  BY <1>3, SeqDomain
<1>7. /\ IsSeq(new) /\ DOMAIN new = 1..(n + Len(added))
      /\ \A k \in 1..n : new[k] = kept[k]
      /\ \A i \in DOMAIN added : new[n + i] = added[i]
  <2>1. IsSeq(kept) /\ IsSeq(added) /\ Len(kept) = n
    BY <1>2, <1>3
  <2> QED BY <2>1, <1>5, <1>6, AppendRows
<1>8. \A a \in DOMAIN new \ DOMAIN rows : a - n \in DOMAIN added /\ new[a] = added[a - n]
  <2> TAKE a \in DOMAIN new \ DOMAIN rows
  <2>1. a \in Int /\ a - n \in 1..Len(added) /\ n + (a - n) = a
    BY <1>1, <1>6, <1>7
  <2> QED BY <2>1, <1>6, <1>7
<1>9. \A i \in DOMAIN added : n + i \in DOMAIN new \ DOMAIN rows /\ new[n + i] = added[i]
  BY <1>1, <1>6, <1>7
<1>10. DOMAIN rows \subseteq DOMAIN new
  BY <1>1, <1>6, <1>7
<1>11. \A a \in DOMAIN rows :
          new[a] = IF a \in retired THEN [rows[a] EXCEPT !.state = "inactive"] ELSE rows[a]
  BY <1>1, <1>2, <1>7
<1>12. \A a \in DOMAIN new \ DOMAIN rows :
          \E d \in DOMAIN run.primary.alloc :
             new[a] = Proposal(run.primary, d, runId, PriorOf(rows, retired, amended, d))
  BY <1>3, <1>4, <1>8
<1>13. \A a, b \in DOMAIN new \ DOMAIN rows : new[a].demand = new[b].demand => a = b
  <2> TAKE a, b \in DOMAIN new \ DOMAIN rows
  <2> HAVE new[a].demand = new[b].demand
  <2>1. a - n = b - n
    BY <1>3, <1>8
  <2> QED BY <2>1, <1>1, <1>6, <1>7
<1>14. \A d \in DOMAIN run.primary.alloc : \E a \in DOMAIN new \ DOMAIN rows : new[a].demand = d
  BY <1>3, <1>9
<1> QED BY <1>7, <1>10, <1>11, <1>12, <1>13, <1>14 DEF new, retired

-----------------------------------------------------------------------------
(* The invariant                                                           *)

\* A request of the model, of any size.
Fits(req) == DOMAIN req = {"demands", "slots", "policy"} /\ DOMAIN req.demands \subseteq Demands

RunsOK == IsSeq(runs) /\ \A r \in DOMAIN runs : Fits(runs[r].input)

IsRow(r) == r = [demand |-> r.demand, slot |-> r.slot, run |-> r.run,
                 supersedes |-> r.supersedes, state |-> r.state]

RowsOK ==
    /\ IsSeq(allocs)
    /\ \A a \in DOMAIN allocs : /\ IsRow(allocs[a])
                                /\ allocs[a].demand \in Demands
                                /\ allocs[a].run \in DOMAIN runs
                                /\ allocs[a].supersedes \in 0..(a - 1)
                                /\ allocs[a].state \in States

Actions == {"approve", "amend", "reject"}

LogOK ==
    /\ IsSeq(decisions)
    /\ \A i \in DOMAIN decisions : /\ decisions[i].alloc \in DOMAIN allocs
                                   /\ decisions[i].action \in Actions
                                   /\ decisions[i].predecessor \in 0..(i - 1)
    /\ packages \subseteq DOMAIN decisions
    /\ exited \subseteq Cases

\* The decisions about an allocation have a last one.
About(a) == {Root} \cup {i \in DOMAIN decisions : decisions[i].alloc = a}

LastsOK ==
    \A a \in DOMAIN allocs : /\ LastDecisionOn(a) \in About(a)
                             /\ \A i \in About(a) : i <= LastDecisionOn(a)

\* No two live allocations of one demand.
OneEach ==
    \A a, b \in DOMAIN allocs :
        /\ allocs[a].demand = allocs[b].demand
        /\ allocs[a].state # "inactive" /\ allocs[b].state # "inactive"
        => a = b

\* An open page is about a row; as long as its token is the current one, the row is as it was
\* shown, or retired; and what an amendment selects serves the demand.
PageOK(page) ==
    /\ page.alloc \in DOMAIN allocs
    /\ page.token \in 0..Len(decisions)
    /\ page.action \in Actions
    /\ page.shown \in {"proposed", "active"}
    /\ page.token = Token(page.alloc) => allocs[page.alloc].state \in {page.shown, "inactive"}
    /\ page.action = "amend" =>
          allocs[page.alloc].demand
              \in DOMAIN PlansOf(runs[allocs[page.alloc].run])[page.variant].alloc

ScreensOK ==
    /\ DOMAIN screen = Advisers
    /\ \A v \in Advisers : screen[v] # NoScreen => PageOK(screen[v])

Tables == RunsOK /\ RowsOK /\ LogOK /\ LastsOK /\ OneEach

IInv == Tables /\ ScreensOK /\ ActiveIsApproved

-----------------------------------------------------------------------------
(* The request of the new run                                              *)

LEMMA RemainingDemands ==
    ASSUME NEW req, Fits(req), NEW rows, NEW rejected
    PROVE  LET left == RemainingRequest(req, rows, rejected)
           IN  /\ Fits(left)
               /\ DOMAIN left.demands =
                     DOMAIN req.demands \ ({rows[a].demand : a \in ActiveIn(rows, req)} \cup rejected)
  BY DEF RemainingRequest, Fits

\* The demands planned anew are neither active nor, on a rejection, the rejected one; after an
\* approval the approved one is among the active.
LEMMA NewRunInput ==
    ASSUME Tables, ScreensOK, NEW v \in Advisers, screen[v] # NoScreen,
           allocs[screen[v].alloc].state # "inactive"
    PROVE  LET a   == screen[v].alloc
               new == NewRun(v)
           IN  /\ a \in DOMAIN allocs
               /\ Fits(new.input) /\ new.input = RequestAfter(v)
               /\ \A b \in DOMAIN allocs : RowsAfter(v)[b].state = "active" =>
                     allocs[b].demand \notin DOMAIN new.input.demands
               /\ screen[v].action = "reject" => allocs[a].demand \notin DOMAIN new.input.demands
<1> DEFINE a        == screen[v].alloc
           new      == NewRun(v)
           src      == SourceRun(v).input
           rows     == RowsAfter(v)
           rejected == IF screen[v].action = "reject" THEN {allocs[a].demand} ELSE {}
<1>1. a \in DOMAIN allocs /\ allocs[a].run \in DOMAIN runs
  BY DEF ScreensOK, PageOK, Tables, RowsOK
<1>2. Fits(src)
  BY <1>1 DEF SourceRun, Tables, RunsOK
<1>3. new.input = RequestAfter(v)
  BY DEF NewRun, SelectedRun, RecordedRun
<1>4. RequestAfter(v) = RemainingRequest(src, rows, rejected)
  BY DEF RequestAfter
<1>5. DOMAIN rows = DOMAIN allocs /\ \A b \in DOMAIN allocs : rows[b].demand = allocs[b].demand
  BY <1>1 DEF RowsAfter, Reviewed, Tables, RowsOK, IsRow
<1> HIDE DEF new, src, rows, rejected
<1>6. /\ Fits(new.input)
      /\ DOMAIN new.input.demands =
            DOMAIN src.demands \ ({rows[b].demand : b \in ActiveIn(rows, src)} \cup rejected)
  BY <1>2, <1>3, <1>4, RemainingDemands
<1>7. \A b \in DOMAIN allocs :
         rows[b].state = "active" => allocs[b].demand \notin DOMAIN new.input.demands
  BY <1>5, <1>6 DEF ActiveIn
<1>8. screen[v].action = "reject" => allocs[a].demand \notin DOMAIN new.input.demands
  BY <1>6 DEF rejected
<1> QED BY <1>1, <1>3, <1>6, <1>7, <1>8 DEF new, rows

-----------------------------------------------------------------------------
(* The steps                                                               *)

\* The decision of a page went through.
Decided(v) ==
    /\ screen[v] # NoScreen
    /\ ScreenCurrent(v) /\ Recordable(v) /\ Replannable(v) /\ AllProposable(NewRun(v))
    /\ Commit(v, NewRun(v))
    /\ screen' = [screen EXCEPT ![v] = NoScreen]
    /\ UNCHANGED exited

\* Nothing is decided: a page is opened or closed, a case exits.
Undecided ==
    /\ UNCHANGED <<runs, allocs, decisions, packages>>
    /\ \/ \E v \in Advisers, a \in DOMAIN allocs : OpenConfirmation(v, a)
       \/ \E v \in Advisers : screen' = [screen EXCEPT ![v] = NoScreen] /\ UNCHANGED exited
       \/ \E c \in Cases : SafetyExit(c)
       \/ UNCHANGED <<screen, exited>>

LEMMA Steps == [Next]_vars => Undecided \/ \E v \in Advisers : Decided(v)
<1> SUFFICES ASSUME [Next]_vars PROVE Undecided \/ \E v \in Advisers : Decided(v)
  OBVIOUS
<1>1. ASSUME NEW v \in Advisers, NEW a \in DOMAIN allocs, OpenConfirmation(v, a) PROVE Undecided
  <2>1. UNCHANGED <<runs, allocs, decisions, packages>>
    BY <1>1 DEF OpenConfirmation
  <2> QED BY <1>1, <2>1 DEF Undecided
<1>2. ASSUME NEW v \in Advisers, Decide(v) PROVE Undecided \/ Decided(v)
  BY <1>2 DEF Decide, Decided, Undecided
<1>3. ASSUME NEW c \in Cases, SafetyExit(c) PROVE Undecided
  <2>1. UNCHANGED <<runs, allocs, decisions, packages>>
    BY <1>3 DEF SafetyExit
  <2> QED BY <1>3, <2>1 DEF Undecided
<1>4. CASE UNCHANGED vars
  BY <1>4 DEF vars, Undecided
<1> QED BY <1>1, <1>2, <1>3, <1>4 DEF Next

-----------------------------------------------------------------------------
(* What a decision does to the rows                                        *)

\* A row changes only its state: the decided one as its action says, another one at most from
\* proposed to inactive and only if it is planned anew, and what stays live is not planned anew.
RowMoved(v, b) ==
    /\ allocs'[b] = [allocs[b] EXCEPT !.state = allocs'[b].state]
    /\ b = screen[v].alloc =>
          allocs'[b].state = IF screen[v].action = "approve" THEN "active" ELSE "inactive"
    /\ b # screen[v].alloc =>
          \/ allocs'[b].state = allocs[b].state
          \/ /\ allocs[b].state = "proposed" /\ allocs'[b].state = "inactive"
             /\ allocs[b].demand \in DOMAIN NewRun(v).input.demands
    /\ allocs'[b].state # "inactive" => allocs[b].demand \notin DOMAIN NewRun(v).input.demands

\* A new row proposes for a demand planned anew.
RowAdded(v, b) ==
    /\ IsRow(allocs'[b])
    /\ allocs'[b].demand \in DOMAIN NewRun(v).input.demands \cap DOMAIN NewRun(v).primary.alloc
    /\ CaseOf[allocs'[b].demand] \notin exited
    /\ allocs'[b].run = Len(runs) + 1
    /\ allocs'[b].supersedes \in {0} \cup DOMAIN allocs
    /\ allocs'[b].state = "proposed"

LEMMA DecidedRows ==
    ASSUME Tables, ScreensOK, NEW v \in Advisers, Decided(v)
    PROVE  /\ screen[v].alloc \in DOMAIN allocs /\ allocs[screen[v].alloc].state # "inactive"
           /\ IsSeq(allocs') /\ DOMAIN allocs \subseteq DOMAIN allocs'
           /\ \A b \in DOMAIN allocs : RowMoved(v, b)
           /\ \A b \in DOMAIN allocs' \ DOMAIN allocs : RowAdded(v, b)
           /\ \A b, c \in DOMAIN allocs' \ DOMAIN allocs :
                 allocs'[b].demand = allocs'[c].demand => b = c
           /\ \A d \in DOMAIN NewRun(v).primary.alloc :
                 \E b \in DOMAIN allocs' \ DOMAIN allocs : allocs'[b].demand = d
<1> DEFINE a       == screen[v].alloc
           run     == NewRun(v)
           rows    == RowsAfter(v)
           amended == IF screen[v].action = "amend" THEN {a} ELSE {}
           retired == StaleProposals(rows, run)
<1>1. allocs[a].state # "inactive"
  BY DEF Decided, ScreenCurrent
<1>2. /\ a \in DOMAIN allocs
      /\ \A b \in DOMAIN allocs :
            rows[b].state = "active" => allocs[b].demand \notin DOMAIN run.input.demands
  BY <1>1, NewRunInput DEF Decided
<1>3. Fits(run.input)
  BY <1>1, NewRunInput DEF Decided
<1>4. \A d \in DOMAIN run.primary.alloc : d \in DOMAIN run.input.demands /\ CaseOf[d] \notin exited
  BY DEF Decided, AllProposable
<1>5. DOMAIN run.primary.alloc \subseteq Demands
  BY <1>3, <1>4 DEF Fits
<1>6. allocs' = Refreshed(rows, run, Len(runs) + 1, amended)
  BY DEF Decided, Commit
<1>7. /\ rows = [allocs EXCEPT ![a].state =
                    IF screen[v].action = "approve" THEN "active" ELSE "inactive"]
      /\ IsSeq(rows) /\ DOMAIN rows = DOMAIN allocs
  <2>1. rows = [allocs EXCEPT ![a].state =
                   IF screen[v].action = "approve" THEN "active" ELSE "inactive"]
    BY DEF RowsAfter, Reviewed
  <2>2. Len(allocs) \in Nat /\ DOMAIN allocs = 1..Len(allocs)
    BY SeqDomain DEF Tables, RowsOK
  <2> QED BY <2>1, <2>2, FunctionIsSeq
<1>8. \A b \in DOMAIN allocs :
         /\ rows[b] = [allocs[b] EXCEPT !.state = rows[b].state] /\ IsRow(rows[b])
         /\ rows[b].demand = allocs[b].demand
         /\ rows[b].state = IF b = a THEN IF screen[v].action = "approve" THEN "active" ELSE "inactive"
                            ELSE allocs[b].state
  BY <1>2, <1>7 DEF Tables, RowsOK, IsRow
<1> HIDE DEF a, run, rows, amended
<1>9. /\ IsSeq(allocs') /\ DOMAIN rows \subseteq DOMAIN allocs'
      /\ \A b \in DOMAIN rows :
            allocs'[b] = IF b \in retired THEN [rows[b] EXCEPT !.state = "inactive"] ELSE rows[b]
      /\ \A b \in DOMAIN allocs' \ DOMAIN rows : \E d \in DOMAIN run.primary.alloc :
            allocs'[b] = Proposal(run.primary, d, Len(runs) + 1, PriorOf(rows, retired, amended, d))
      /\ \A b, c \in DOMAIN allocs' \ DOMAIN rows : allocs'[b].demand = allocs'[c].demand => b = c
      /\ \A d \in DOMAIN run.primary.alloc :
            \E b \in DOMAIN allocs' \ DOMAIN rows : allocs'[b].demand = d
  <2> DEFINE runId == Len(runs) + 1
  <2>1. IsSeq(rows) /\ allocs' = Refreshed(rows, run, runId, amended)
    BY <1>6, <1>7
  <2> HIDE DEF runId
  <2>2. LET new == Refreshed(rows, run, runId, amended)
        IN  /\ IsSeq(new) /\ DOMAIN rows \subseteq DOMAIN new
            /\ \A b \in DOMAIN rows :
                  new[b] = IF b \in retired THEN [rows[b] EXCEPT !.state = "inactive"] ELSE rows[b]
            /\ \A b \in DOMAIN new \ DOMAIN rows : \E d \in DOMAIN run.primary.alloc :
                  new[b] = Proposal(run.primary, d, runId, PriorOf(rows, retired, amended, d))
            /\ \A b, c \in DOMAIN new \ DOMAIN rows : new[b].demand = new[c].demand => b = c
            /\ \A d \in DOMAIN run.primary.alloc :
                  \E b \in DOMAIN new \ DOMAIN rows : new[b].demand = d
    BY <1>5, <2>1, RefreshedRows
  <2> QED BY <2>1, <2>2 DEF runId
<1>10. ASSUME NEW b \in DOMAIN allocs PROVE RowMoved(v, b)
  <2>1. b \in retired <=> /\ rows[b].state = "proposed"
                          /\ allocs[b].demand \in DOMAIN run.input.demands
    BY <1>7, <1>8 DEF StaleProposals
  <2>2. allocs'[b] = IF b \in retired THEN [rows[b] EXCEPT !.state = "inactive"] ELSE rows[b]
    BY <1>7, <1>9
  <2> HIDE DEF retired
  <2>3. rows[b].state \in {"proposed", "active", "inactive"}
    BY <1>8 DEF Tables, RowsOK, States
  <2>4. allocs'[b] = [allocs[b] EXCEPT !.state = allocs'[b].state]
    BY <1>8, <2>2 DEF IsRow
  <2>5. allocs'[b].state = IF b \in retired THEN "inactive" ELSE rows[b].state
    BY <1>8, <2>2 DEF IsRow
  <2> QED BY <1>1, <1>2, <1>8, <2>1, <2>3, <2>4, <2>5 DEF RowMoved, a, run
<1>11. ASSUME NEW d PROVE PriorOf(rows, retired, amended, d) \in {0} \cup DOMAIN allocs
  <2> DEFINE same == {b \in retired : rows[b].demand = d}
  <2>1. CASE \E b \in amended : rows[b].demand = d
    BY <1>2, <2>1 DEF PriorOf, amended, a
  <2>2. CASE ~(\E b \in amended : rows[b].demand = d) /\ same = {}
    BY <2>2 DEF PriorOf
  <2>3. CASE ~(\E b \in amended : rows[b].demand = d) /\ same # {}
    <3>1. PICK b \in same : TRUE
      BY <2>3
    <3>2. \A c \in same : c \in DOMAIN allocs /\ allocs[c].demand = d /\ allocs[c].state # "inactive"
      BY <1>1, <1>7, <1>8 DEF StaleProposals
    <3>3. same = {b}
      BY <3>1, <3>2 DEF Tables, OneEach
    <3>4. b \in Nat
      BY <3>1, <3>2, SeqDomain DEF Tables, RowsOK
    <3>5. Max(same) = b
      BY <3>3, <3>4 DEF Max
    <3>6. PriorOf(rows, retired, amended, d) = Max(same)
      BY <2>3 DEF PriorOf
    <3> QED BY <3>1, <3>2, <3>5, <3>6
  <2> QED BY <2>1, <2>2, <2>3
<1>12. ASSUME NEW b \in DOMAIN allocs' \ DOMAIN allocs PROVE RowAdded(v, b)
  <2>1. PICK d \in DOMAIN run.primary.alloc :
           allocs'[b] = Proposal(run.primary, d, Len(runs) + 1, PriorOf(rows, retired, amended, d))
    BY <1>7, <1>9
  <2>2. allocs'[b] = [demand |-> d, slot |-> run.primary.alloc[d], run |-> Len(runs) + 1,
                      supersedes |-> PriorOf(rows, retired, amended, d), state |-> "proposed"]
    BY <2>1 DEF Proposal
  <2> HIDE DEF retired
  <2>3. d \in DOMAIN run.input.demands /\ CaseOf[d] \notin exited
    BY <1>4
  <2>4. PriorOf(rows, retired, amended, d) \in {0} \cup DOMAIN allocs
    BY <1>11
  <2> QED BY <2>2, <2>3, <2>4 DEF RowAdded, IsRow, run
<1> QED BY <1>1, <1>2, <1>7, <1>9, <1>10, <1>12 DEF a, run

-----------------------------------------------------------------------------
(* What a decision does to the log                                         *)

LEMMA MaxIs == ASSUME NEW S \in SUBSET Nat, NEW m \in S, \A i \in S : i <= m PROVE Max(S) = m
<1>1. \A x \in S : (\A y \in S : x >= y) => x = m
  OBVIOUS
<1>2. m \in S /\ \A y \in S : m >= y
  OBVIOUS
<1> QED BY <1>1, <1>2 DEF Max

LEMMA TokenRange ==
    ASSUME Tables, NEW a \in DOMAIN allocs
    PROVE  LastDecisionOn(a) \in 0..Len(decisions) /\ Token(a) \in 0..Len(decisions)
<1>1. Len(decisions) \in Nat /\ DOMAIN decisions = 1..Len(decisions)
  BY SeqDomain DEF Tables, LogOK
<1>2. \A b \in DOMAIN allocs : LastDecisionOn(b) \in 0..Len(decisions)
  BY <1>1 DEF Tables, LastsOK, About, Root
<1>3. Len(allocs) \in Nat /\ DOMAIN allocs = 1..Len(allocs)
  BY SeqDomain DEF Tables, RowsOK
<1>4. allocs[a].supersedes # 0 => allocs[a].supersedes \in DOMAIN allocs
  BY <1>3 DEF Tables, RowsOK
<1> QED BY <1>2, <1>4 DEF Token

LEMMA DecidedLog ==
    ASSUME Tables, ScreensOK, NEW v \in Advisers, Decided(v)
    PROVE  LET a == screen[v].alloc
               n == Len(decisions)
           IN  /\ n \in Nat /\ DOMAIN decisions = 1..n
               /\ IsSeq(decisions') /\ Len(decisions') = n + 1 /\ DOMAIN decisions' = 1..(n + 1)
               /\ \A i \in 1..n : decisions'[i] = decisions[i]
               /\ decisions'[n + 1] = [alloc |-> a, action |-> screen[v].action,
                                       predecessor |-> Token(a)]
               /\ Token(a) \in 0..n /\ screen[v].action \in Actions
               /\ packages' = packages \cup (IF screen[v].action = "approve" THEN {n + 1} ELSE {})
<1>1. screen[v].alloc \in DOMAIN allocs /\ screen[v].action \in Actions
  BY DEF Decided, ScreensOK, PageOK
<1>2. IsSeq(decisions) /\ Len(decisions) \in Nat /\ DOMAIN decisions = 1..Len(decisions)
  BY SeqDomain DEF Tables, LogOK
<1>3. Token(screen[v].alloc) \in 0..Len(decisions)
  BY <1>1, TokenRange
<1>4. decisions' = Append(decisions, [alloc |-> screen[v].alloc, action |-> screen[v].action,
                                      predecessor |-> Token(screen[v].alloc)])
  BY DEF Decided, Commit
<1>5. packages' = packages \cup (IF screen[v].action = "approve" THEN {Len(decisions) + 1} ELSE {})
  BY DEF Decided, Commit
<1> QED BY <1>1, <1>2, <1>3, <1>4, <1>5, AppendRow

LEMMA DecidedLasts ==
    ASSUME Tables, ScreensOK, NEW v \in Advisers, Decided(v)
    PROVE  LET a == screen[v].alloc
               n == Len(decisions)
           IN  /\ \A b \in DOMAIN allocs :
                     LastDecisionOn(b)' = IF b = a THEN n + 1 ELSE LastDecisionOn(b)
               /\ \A b \in DOMAIN allocs' \ DOMAIN allocs : LastDecisionOn(b)' = Root
               /\ LastsOK'
<1> DEFINE a == screen[v].alloc
           n == Len(decisions)
<1>1. /\ n \in Nat /\ DOMAIN decisions = 1..n /\ DOMAIN decisions' = 1..(n + 1)
      /\ \A i \in 1..n : decisions'[i] = decisions[i]
      /\ decisions'[n + 1].alloc = a
  <2>1. /\ n \in Nat /\ DOMAIN decisions = 1..n /\ DOMAIN decisions' = 1..(n + 1)
        /\ \A i \in 1..n : decisions'[i] = decisions[i]
    BY DecidedLog
  <2>2. decisions'[n + 1] = [alloc |-> a, action |-> screen[v].action, predecessor |-> Token(a)]
    BY DecidedLog
  <2> QED BY <2>1, <2>2
<1>2. \A i \in 1..n : decisions[i].alloc \in DOMAIN allocs
  BY <1>1 DEF Tables, LogOK
<1> HIDE DEF a, n
<1>3. \A b : About(b)' = About(b) \cup (IF b = a THEN {n + 1} ELSE {})
  BY <1>1 DEF About
<1>4. \A b : About(b) \subseteq 0..n
  BY <1>1 DEF About, Root
<1>5. \A b : LastDecisionOn(b) = Max(About(b)) /\ LastDecisionOn(b)' = Max(About(b)')
  BY DEF LastDecisionOn, About
<1>6. ASSUME NEW b \in DOMAIN allocs
      PROVE  /\ LastDecisionOn(b)' = IF b = a THEN n + 1 ELSE LastDecisionOn(b)
             /\ LastDecisionOn(b)' \in About(b)'
             /\ \A i \in About(b)' : i <= LastDecisionOn(b)'
  <2>1. CASE b = a
    <3> DEFINE S == About(b) \cup {n + 1}
    <3>1. About(b)' = S
      BY <2>1, <1>3
    <3>2. S \in SUBSET Nat /\ n + 1 \in S /\ \A i \in S : i <= n + 1
      BY <1>1, <1>4
    <3> HIDE DEF S
    <3>3. Max(S) = n + 1
      BY <3>2, MaxIs
    <3> QED BY <1>5, <2>1, <3>1, <3>2, <3>3
  <2>2. CASE b # a
    <3>1. About(b)' = About(b)
      BY <2>2, <1>3
    <3> QED BY <1>5, <2>2, <3>1 DEF Tables, LastsOK
  <2> QED BY <2>1, <2>2
<1>7. ASSUME NEW b \in DOMAIN allocs' \ DOMAIN allocs
      PROVE  /\ LastDecisionOn(b)' = Root
             /\ LastDecisionOn(b)' \in About(b)'
             /\ \A i \in About(b)' : i <= LastDecisionOn(b)'
  <2>1. a \in DOMAIN allocs
    BY DecidedRows DEF a
  <2>2. About(b) = {0}
    BY <1>1, <1>2 DEF About, Root
  <2>3. About(b)' = {0}
    BY <1>3, <2>1, <2>2
  <2>4. Max({0}) = 0
    BY MaxIs
  <2> QED BY <1>5, <2>3, <2>4 DEF Root
<1>8. LastsOK'
  BY <1>6, <1>7 DEF LastsOK
<1> QED BY <1>6, <1>7, <1>8 DEF a, n

-----------------------------------------------------------------------------
(* The invariant is inductive                                              *)

LEMMA InitInv == Init => IInv
<1> SUFFICES ASSUME Init PROVE IInv
  OBVIOUS
<1>1. PICK req \in InitialRequests : runs = <<RecordedRun(req)>>
  BY DEF Init
<1>2. DOMAIN runs = {1} /\ IsSeq(runs) /\ runs[1].input = req
  <2>1. DOMAIN runs = 1..1 /\ runs[1] = RecordedRun(req)
    BY <1>1
  <2>2. runs = [k \in 1..1 |-> runs[k]]
    BY <1>1
  <2>3. IsSeq(runs)
    BY <2>1, <2>2, FunctionIsSeq
  <2> QED BY <2>1, <2>3 DEF RecordedRun
<1>3. Fits(runs[1].input)
  BY <1>2, RequestsFit DEF Fits, ValidRequest
<1>4. DOMAIN runs[1].primary.alloc \subseteq Demands
  BY <1>3 DEF Init, AllProposable, Fits
<1> DEFINE plan == runs[1].primary
           prior == [d \in Demands |-> 0]
<1>5. allocs = Proposals(plan, 1, prior)
  BY DEF Init
<1> HIDE DEF prior
<1>6. /\ IsSeq(allocs)
      /\ \A a \in DOMAIN allocs :
            \E d \in DOMAIN plan.alloc : allocs[a] = Proposal(plan, d, 1, prior[d])
      /\ \A a, b \in DOMAIN allocs : allocs[a].demand = allocs[b].demand => a = b
  <2> HIDE DEF plan
  <2> QED BY <1>4, <1>5, ProposalRows DEF plan
<1>7. ASSUME NEW a \in DOMAIN allocs
      PROVE  /\ IsRow(allocs[a]) /\ allocs[a].demand \in Demands
             /\ allocs[a].run = 1 /\ allocs[a].supersedes = 0 /\ allocs[a].state = "proposed"
  <2>1. PICK d \in DOMAIN plan.alloc : allocs[a] = Proposal(plan, d, 1, prior[d])
    BY <1>6
  <2>2. d \in Demands /\ prior[d] = 0
    BY <1>4 DEF prior
  <2> HIDE DEF plan
  <2> QED BY <2>1, <2>2 DEF Proposal, IsRow
<1>8. RunsOK
  BY <1>2, <1>3 DEF RunsOK
<1>9. RowsOK
  <2>1. \A a \in DOMAIN allocs : a \in Nat \ {0}
    BY <1>6, SeqDomain
  <2> QED BY <1>2, <1>6, <1>7, <2>1 DEF RowsOK, States
<1>10. LogOK
  BY EmptySeq DEF Init, LogOK, IsSeq
<1>11. LastsOK
  <2>1. \A a : About(a) = {0}
    BY DEF Init, About, Root
  <2>2. Max({0}) = 0
    BY MaxIs
  <2>3. \A a : LastDecisionOn(a) = Max(About(a))
    BY DEF LastDecisionOn, About
  <2> QED BY <2>1, <2>2, <2>3 DEF LastsOK
<1>12. OneEach
  BY <1>6 DEF OneEach
<1>13. ScreensOK
  BY DEF Init, ScreensOK
<1>14. ActiveIsApproved
  BY <1>7 DEF Init, ActiveIsApproved
<1> QED BY <1>8, <1>9, <1>10, <1>11, <1>12, <1>13, <1>14 DEF IInv, Tables

LEMMA DecidedTables ==
    ASSUME Tables, ScreensOK, NEW v \in Advisers, Decided(v)
    PROVE  Tables'
<1> DEFINE a == screen[v].alloc
           n == Len(decisions)
           run == NewRun(v)
<1>1. /\ a \in DOMAIN allocs /\ allocs[a].state # "inactive"
      /\ IsSeq(allocs') /\ DOMAIN allocs \subseteq DOMAIN allocs'
      /\ \A b \in DOMAIN allocs : RowMoved(v, b)
      /\ \A b \in DOMAIN allocs' \ DOMAIN allocs : RowAdded(v, b)
      /\ \A b, c \in DOMAIN allocs' \ DOMAIN allocs :
            allocs'[b].demand = allocs'[c].demand => b = c
  BY DecidedRows
<1>2. Fits(run.input)
  BY <1>1, NewRunInput DEF Decided
<1>3. /\ IsSeq(runs') /\ Len(runs) \in Nat /\ DOMAIN runs = 1..Len(runs)
      /\ DOMAIN runs' = 1..(Len(runs) + 1)
      /\ \A r \in DOMAIN runs : runs'[r] = runs[r]
      /\ runs'[Len(runs) + 1] = run
  BY AppendRow, SeqDomain DEF Decided, Commit, Tables, RunsOK
<1>4. RunsOK'
  BY <1>2, <1>3 DEF Tables, RunsOK, Fits
<1>5. /\ Len(allocs) \in Nat /\ DOMAIN allocs = 1..Len(allocs)
      /\ Len(allocs') \in Nat /\ DOMAIN allocs' = 1..Len(allocs')
  BY <1>1, SeqDomain DEF Tables, RowsOK
<1>6. RowsOK'
  <2>1. ASSUME NEW b \in DOMAIN allocs
        PROVE  /\ IsRow(allocs'[b]) /\ allocs'[b].demand \in Demands
               /\ allocs'[b].run \in DOMAIN runs' /\ allocs'[b].supersedes \in 0..(b - 1)
               /\ allocs'[b].state \in States
    <3>1. /\ IsRow(allocs[b]) /\ allocs[b].demand \in Demands /\ allocs[b].run \in DOMAIN runs
          /\ allocs[b].supersedes \in 0..(b - 1) /\ allocs[b].state \in States
      BY DEF Tables, RowsOK
    <3>2. /\ allocs'[b] = [allocs[b] EXCEPT !.state = allocs'[b].state]
          /\ allocs'[b].state \in States
      BY <1>1, <3>1 DEF RowMoved, States
    <3>3. /\ IsRow(allocs'[b]) /\ allocs'[b].demand = allocs[b].demand
          /\ allocs'[b].run = allocs[b].run /\ allocs'[b].supersedes = allocs[b].supersedes
      BY <3>1, <3>2 DEF IsRow
    <3>4. allocs[b].run \in DOMAIN runs'
      BY <1>3, <3>1
    <3> QED BY <3>1, <3>2, <3>3, <3>4
  <2>2. ASSUME NEW b \in DOMAIN allocs' \ DOMAIN allocs
        PROVE  /\ IsRow(allocs'[b]) /\ allocs'[b].demand \in Demands
               /\ allocs'[b].run \in DOMAIN runs' /\ allocs'[b].supersedes \in 0..(b - 1)
               /\ allocs'[b].state \in States
    <3>1. RowAdded(v, b)
      BY <1>1
    <3>2. b \in Nat /\ b > Len(allocs)
      BY <1>5
    <3> QED BY <1>2, <1>3, <1>5, <3>1, <3>2 DEF RowAdded, Fits, States
  <2> QED BY <1>1, <2>1, <2>2 DEF RowsOK
<1>7. LogOK'
  <2>1. /\ n \in Nat /\ DOMAIN decisions = 1..n /\ IsSeq(decisions') /\ DOMAIN decisions' = 1..(n + 1)
        /\ \A i \in 1..n : decisions'[i] = decisions[i]
        /\ Token(a) \in 0..n /\ screen[v].action \in Actions
        /\ packages' = packages \cup (IF screen[v].action = "approve" THEN {n + 1} ELSE {})
    BY DecidedLog
  <2>2. decisions'[n + 1] = [alloc |-> a, action |-> screen[v].action, predecessor |-> Token(a)]
    BY DecidedLog
  <2>3. exited' = exited
    BY DEF Decided
  <2> HIDE DEF a, n
  <2>4. ASSUME NEW i \in DOMAIN decisions'
        PROVE  /\ decisions'[i].alloc \in DOMAIN allocs'
               /\ decisions'[i].action \in Actions
               /\ decisions'[i].predecessor \in 0..(i - 1)
    <3>1. CASE i = n + 1
      BY <1>1, <2>1, <2>2, <3>1
    <3>2. CASE i # n + 1
      BY <1>1, <2>1, <3>2 DEF Tables, LogOK
    <3> QED BY <3>1, <3>2
  <2>5. packages' \subseteq DOMAIN decisions' /\ exited' \subseteq Cases
    BY <2>1, <2>3 DEF Tables, LogOK
  <2> QED BY <2>1, <2>4, <2>5 DEF LogOK, Cases
<1>8. LastsOK'
  BY DecidedLasts
<1>9. OneEach'
  <2> SUFFICES ASSUME NEW b \in DOMAIN allocs', NEW c \in DOMAIN allocs',
                      allocs'[b].demand = allocs'[c].demand,
                      allocs'[b].state # "inactive", allocs'[c].state # "inactive"
               PROVE  b = c
    BY DEF OneEach
  <2>1. CASE b \in DOMAIN allocs /\ c \in DOMAIN allocs
    <3>1. ASSUME NEW x \in DOMAIN allocs, allocs'[x].state # "inactive"
          PROVE  allocs[x].demand = allocs'[x].demand /\ allocs[x].state # "inactive"
      <4>1. RowMoved(v, x) /\ IsRow(allocs[x])
        BY <1>1 DEF Tables, RowsOK
      <4> QED BY <1>1, <3>1, <4>1 DEF RowMoved, IsRow
    <3> QED BY <2>1, <3>1 DEF Tables, OneEach
  <2>2. CASE b \notin DOMAIN allocs /\ c \notin DOMAIN allocs
    BY <1>1, <2>2
  <2>3. ASSUME NEW x \in DOMAIN allocs, allocs'[x].state # "inactive",
               NEW y \in DOMAIN allocs' \ DOMAIN allocs
        PROVE  allocs'[x].demand # allocs'[y].demand
    <3>1. allocs'[x].demand = allocs[x].demand /\ allocs[x].demand \notin DOMAIN run.input.demands
      BY <1>1, <2>3 DEF RowMoved, Tables, RowsOK, IsRow
    <3>2. allocs'[y].demand \in DOMAIN run.input.demands
      BY <1>1 DEF RowAdded
    <3> QED BY <3>1, <3>2
  <2> QED BY <2>1, <2>2, <2>3
<1> QED BY <1>4, <1>6, <1>7, <1>8, <1>9 DEF Tables

\* A decision leaves a token as it is or makes itself the token.
LEMMA DecidedTokens ==
    ASSUME Tables, ScreensOK, NEW v \in Advisers, Decided(v), NEW b \in DOMAIN allocs
    PROVE  /\ Token(b)' \in {Token(b), Len(decisions) + 1}
           /\ b = screen[v].alloc => Token(b)' = Len(decisions) + 1
<1> DEFINE n == Len(decisions)
<1>1. n \in Nat /\ \A c \in DOMAIN allocs : LastDecisionOn(c)' \in {LastDecisionOn(c), n + 1}
  BY DecidedLog, DecidedLasts
<1>2. b = screen[v].alloc => LastDecisionOn(b)' = n + 1
  BY DecidedLasts
<1>3. RowMoved(v, b) /\ IsRow(allocs[b])
  BY DecidedRows DEF Tables, RowsOK
<1>4. PICK prior : prior = allocs[b].supersedes /\ prior = allocs'[b].supersedes
  BY <1>3 DEF RowMoved, IsRow
<1>5. Len(allocs) \in Nat /\ DOMAIN allocs = 1..Len(allocs)
  BY SeqDomain DEF Tables, RowsOK
<1>6. prior # 0 => prior \in DOMAIN allocs
  <2>1. b \in 1..Len(allocs) /\ prior \in 0..(b - 1)
    BY <1>4, <1>5 DEF Tables, RowsOK
  <2> QED BY <1>5, <2>1
<1>7. LastDecisionOn(b) \in 0..n
  BY TokenRange
<1> HIDE DEF n
<1>8. Token(b)' = IF LastDecisionOn(b)' # Root \/ prior = 0 THEN LastDecisionOn(b)'
                  ELSE LastDecisionOn(prior)'
  BY <1>4 DEF Token, Root, LastDecisionOn
<1>9. Token(b) = IF LastDecisionOn(b) # Root \/ prior = 0 THEN LastDecisionOn(b)
                 ELSE LastDecisionOn(prior)
  BY <1>4 DEF Token
<1> QED BY <1>1, <1>2, <1>6, <1>7, <1>8, <1>9 DEF Root, n

LEMMA DecidedScreens ==
    ASSUME Tables, ScreensOK, NEW v \in Advisers, Decided(v)
    PROVE  ScreensOK'
<1>1. screen' = [screen EXCEPT ![v] = NoScreen] /\ DOMAIN screen = Advisers
  BY DEF Decided, ScreensOK
<1>2. ASSUME NEW u \in Advisers, screen'[u] # NoScreen PROVE PageOK(screen[u])'
  <2>1. PICK page : page = screen[u] /\ page = screen'[u] /\ PageOK(page)
    BY <1>1, <1>2 DEF ScreensOK
  <2> DEFINE b == page.alloc
  <2>2. /\ b \in DOMAIN allocs /\ page.token \in 0..Len(decisions)
        /\ page.action \in Actions /\ page.shown \in {"proposed", "active"}
    BY <2>1 DEF PageOK
  <2>3. b \in DOMAIN allocs' /\ RowMoved(v, b) /\ IsRow(allocs[b])
    BY <2>2, DecidedRows DEF Tables, RowsOK
  <2>4. Len(decisions) \in Nat /\ Len(decisions') = Len(decisions) + 1
    BY DecidedLog
  <2>5. allocs[b].run \in DOMAIN runs
    BY <2>2 DEF Tables, RowsOK
  <2>6. runs'[allocs[b].run] = runs[allocs[b].run]
    BY <2>5, AppendRow DEF Decided, Commit, Tables, RunsOK
  <2>7. allocs'[b].run = allocs[b].run /\ allocs'[b].demand = allocs[b].demand
    BY <2>3 DEF RowMoved, IsRow
  <2>8. page.token = Token(b)' => allocs'[b].state \in {page.shown, "inactive"}
    <3> HAVE page.token = Token(b)'
    <3>1. b # screen[v].alloc /\ Token(b)' = Token(b)
      BY <2>2, <2>4, DecidedTokens
    <3>2. allocs[b].state \in {page.shown, "inactive"}
      BY <2>1, <3>1 DEF PageOK
    <3> QED BY <2>3, <3>1, <3>2 DEF RowMoved
  <2>9. page.action = "amend" => allocs'[b].demand \in DOMAIN PlansOf(runs'[allocs'[b].run])[page.variant].alloc
    BY <2>1, <2>6, <2>7 DEF PageOK
  <2>10. page.token \in 0..Len(decisions')
    BY <2>2, <2>4
  <2> QED BY <2>1, <2>2, <2>3, <2>8, <2>9, <2>10 DEF PageOK
<1> QED BY <1>1, <1>2 DEF ScreensOK

LEMMA DecidedApproved ==
    ASSUME Tables, ScreensOK, ActiveIsApproved, NEW v \in Advisers, Decided(v)
    PROVE  ActiveIsApproved'
<1> DEFINE a == screen[v].alloc
           n == Len(decisions)
           act == screen[v].action
<1>1. /\ n \in Nat /\ DOMAIN decisions = 1..n
      /\ \A i \in 1..n : decisions'[i] = decisions[i]
      /\ packages' = packages \cup (IF act = "approve" THEN {n + 1} ELSE {})
  BY DecidedLog
<1>2. decisions'[n + 1] = [alloc |-> a, action |-> act, predecessor |-> Token(a)]
  BY DecidedLog
<1>3. decisions'[n + 1].alloc = a /\ decisions'[n + 1].action = act
  BY <1>2
<1>4. \A b \in DOMAIN allocs : LastDecisionOn(b)' = IF b = a THEN n + 1 ELSE LastDecisionOn(b)
  BY DecidedLasts
<1>5. /\ a \in DOMAIN allocs
      /\ \A b \in DOMAIN allocs : RowMoved(v, b)
      /\ \A b \in DOMAIN allocs' \ DOMAIN allocs : RowAdded(v, b)
  BY DecidedRows
<1>6. packages \subseteq 1..n /\ \A p \in packages : decisions[p].alloc \in DOMAIN allocs
  BY <1>1 DEF Tables, LogOK
<1>7. act = "approve" => \A p \in packages : decisions[p].alloc # a
  BY DEF Decided, Recordable
<1> HIDE DEF a, n, act
<1>8. ASSUME NEW b \in DOMAIN allocs', allocs'[b].state = "active"
      PROVE  /\ {p \in packages' : decisions'[p].alloc = b} = {LastDecisionOn(b)'}
             /\ decisions'[LastDecisionOn(b)'].action = "approve"
  <2>1. b \in DOMAIN allocs
    BY <1>5, <1>8 DEF RowAdded
  <2>2. CASE b = a
    <3>1. act = "approve"
      BY <1>5, <1>8, <2>1, <2>2 DEF RowMoved, a, act
    <3>2. {p \in packages' : decisions'[p].alloc = b} = {n + 1}
      BY <1>1, <1>3, <1>6, <1>7, <2>2, <3>1
    <3> QED BY <1>3, <1>4, <2>1, <2>2, <3>1, <3>2
  <2>3. CASE b # a
    <3>1. allocs[b].state = "active"
      BY <1>5, <1>8, <2>1, <2>3 DEF RowMoved, a
    <3>2. /\ {p \in packages : decisions[p].alloc = b} = {LastDecisionOn(b)}
          /\ decisions[LastDecisionOn(b)].action = "approve"
      BY <2>1, <3>1 DEF ActiveIsApproved
    <3>3. {p \in packages' : decisions'[p].alloc = b} = {p \in packages : decisions[p].alloc = b}
      BY <1>1, <1>3, <1>6, <2>3
    <3>4. LastDecisionOn(b) \in 1..n /\ LastDecisionOn(b)' = LastDecisionOn(b)
      BY <1>4, <1>6, <2>1, <2>3, <3>2
    <3> QED BY <1>1, <3>2, <3>3, <3>4
  <2> QED BY <2>2, <2>3
<1>9. ASSUME NEW p \in packages', allocs'[decisions'[p].alloc].state # "active"
      PROVE  LastDecisionOn(decisions[p].alloc)' > p
  <2>1. CASE p \notin packages
    <3>1. p = n + 1 /\ act = "approve"
      BY <1>1, <2>1
    <3>2. allocs'[a].state = "active"
      BY <1>5, <3>1 DEF RowMoved, a, act
    <3> QED BY <1>3, <1>9, <3>1, <3>2
  <2>2. CASE p \in packages
    <3>1. PICK b \in DOMAIN allocs : b = decisions[p].alloc /\ b = decisions'[p].alloc /\ p \in 1..n
      BY <1>1, <1>6, <2>2
    <3>2. CASE b = a
      BY <1>1, <1>4, <3>1, <3>2
    <3>3. CASE b # a
      <4>1. allocs[b].state # "active"
        BY <1>5, <1>9, <3>1, <3>3 DEF RowMoved, a
      <4>2. LastDecisionOn(b) > p
        BY <2>2, <3>1, <4>1 DEF ActiveIsApproved
      <4> QED BY <1>4, <3>1, <3>3, <4>2
    <3> QED BY <3>2, <3>3
  <2> QED BY <2>1, <2>2
<1> QED BY <1>8, <1>9 DEF ActiveIsApproved

LEMMA UndecidedInv == IInv /\ Undecided => IInv'
<1> SUFFICES ASSUME IInv, Undecided PROVE IInv'
  OBVIOUS
<1>1. UNCHANGED <<runs, allocs, decisions, packages>>
  BY DEF Undecided
<1>2. Tables /\ ScreensOK /\ ActiveIsApproved
  BY DEF IInv
<1>3. exited' \subseteq Cases
  BY <1>2 DEF Undecided, OpenConfirmation, SafetyExit, Tables, LogOK
<1>4. Tables'
  BY <1>1, <1>2, <1>3 DEF Tables, RunsOK, RowsOK, LogOK, LastsOK, OneEach, LastDecisionOn, About, Cases
<1>5. ActiveIsApproved'
  BY <1>1, <1>2 DEF ActiveIsApproved, LastDecisionOn
<1>6. \A page : PageOK(page) => PageOK(page)'
  BY <1>1 DEF PageOK, Token, LastDecisionOn
<1>7. ScreensOK'
  <2>1. ASSUME NEW v \in Advisers, NEW a \in DOMAIN allocs, OpenConfirmation(v, a) PROVE ScreensOK'
    <3>1. PICK choice \in OfferedChoices(a) :
             screen' = [screen EXCEPT ![v] = [alloc |-> a, token |-> Token(a),
                                              action |-> choice.action,
                                              variant |-> choice.variant,
                                              shown |-> allocs[a].state]]
      BY <2>1 DEF OpenConfirmation
    <3> DEFINE page == [alloc |-> a, token |-> Token(a), action |-> choice.action,
                        variant |-> choice.variant, shown |-> allocs[a].state]
    <3>2. page.alloc = a /\ page.token = Token(a) /\ page.action = choice.action
          /\ page.variant = choice.variant /\ page.shown = allocs[a].state
      OBVIOUS
    <3>3. Token(a) \in 0..Len(decisions)
      BY <1>2, TokenRange
    <3>4. allocs[a].state \in {"proposed", "active"}
      BY <1>2, <2>1 DEF OpenConfirmation, Tables, RowsOK, States
    <3>5. choice.action \in Actions
      BY <3>1 DEF OfferedChoices, Actions
    <3>6. choice.action = "amend" =>
             allocs[a].demand \in DOMAIN PlansOf(runs[allocs[a].run])[choice.variant].alloc
      BY <3>1 DEF OfferedChoices, AlternativesFor
    <3> HIDE DEF page
    <3>7. PageOK(page)
      BY <3>2, <3>3, <3>4, <3>5, <3>6 DEF PageOK
    <3>8. screen' = [screen EXCEPT ![v] = page]
      BY <3>1 DEF page
    <3> QED BY <1>2, <1>6, <3>7, <3>8 DEF ScreensOK
  <2>2. ASSUME NEW v \in Advisers, screen' = [screen EXCEPT ![v] = NoScreen] PROVE ScreensOK'
    BY <1>2, <1>6, <2>2 DEF ScreensOK
  <2>3. CASE UNCHANGED screen
    BY <1>2, <1>6, <2>3 DEF ScreensOK
  <2> QED BY <2>1, <2>2, <2>3 DEF Undecided, SafetyExit
<1> QED BY <1>4, <1>5, <1>7 DEF IInv

LEMMA NextInv == IInv /\ [Next]_vars => IInv'
<1> SUFFICES ASSUME IInv, [Next]_vars PROVE IInv'
  OBVIOUS
<1>1. CASE Undecided
  BY <1>1, UndecidedInv
<1>2. ASSUME NEW v \in Advisers, Decided(v) PROVE IInv'
  BY <1>2, DecidedTables, DecidedScreens, DecidedApproved DEF IInv
<1> QED BY <1>1, <1>2, Steps

LEMMA Reachable == Spec => []IInv
  BY InitInv, NextInv, PTL DEF Spec

-----------------------------------------------------------------------------
(* What the workbench guarantees                                           *)

\* The rows, the log and the open pages stay well formed: a row points at an earlier row and at
\* a run that exists, a decision at an earlier one (workbench.py:226-398).
THEOREM TypeCorrect == Spec => []TypeOK
<1>1. IInv => TypeOK
  BY DEF IInv, Tables, RowsOK, LogOK, ScreensOK, PageOK, TypeOK, Actions
<1> QED BY <1>1, Reachable, PTL

\* For any demands, requests and plans, and however decisions of several runs follow each other,
\* no demand is ever proposed or active twice (workbench.py:308-346).
THEOREM OneLive == Spec => []OneLivePerDemand
<1>1. OneEach => OneLivePerDemand
  <2> SUFFICES ASSUME OneEach, NEW d \in Demands PROVE Cardinality(Live(d)) <= 1
    BY DEF OneLivePerDemand
  <2>1. CASE Live(d) = {}
    BY <2>1, FS_EmptySet
  <2>2. CASE Live(d) # {}
    <3>1. PICK a \in Live(d) : TRUE
      BY <2>2
    <3>2. Live(d) = {a}
      BY <3>1 DEF OneEach, Live
    <3> QED BY <3>2, FS_Singleton
  <2> QED BY <2>1, <2>2
<1> QED BY <1>1, Reachable, PTL DEF IInv, Tables

\* An allocation is active only while the last decision on it is the approval its one package
\* was made under (workbench.py:226-291).
THEOREM ActiveBacked == Spec => []ActiveIsApproved
  BY Reachable, PTL DEF IInv

\* A decision is about the state and the history the confirmation page showed, whatever other
\* sessions did while it was open (workbench.py:239-259).
THEOREM DecisionsAsShown == Spec => DecidedAsShown
<1> DEFINE Shown(v) ==
        Len(decisions') > Len(decisions) /\ screen'[v] # screen[v] =>
            /\ screen[v].shown = allocs[screen[v].alloc].state
            /\ screen[v].token = decisions'[Len(decisions')].predecessor
<1>1. IInv /\ [Next]_vars => \A v \in Advisers : Shown(v)
  <2> SUFFICES ASSUME IInv, [Next]_vars, NEW v \in Advisers PROVE Shown(v)
    OBVIOUS
  <2>1. Tables /\ ScreensOK
    BY DEF IInv
  <2>2. CASE Undecided
    <3>1. Len(decisions) \in Nat /\ decisions' = decisions
      BY <2>1, <2>2, SeqDomain DEF Undecided, Tables, LogOK
    <3> QED BY <3>1
  <2>3. ASSUME NEW w \in Advisers, Decided(w) PROVE Shown(v)
    <3>1. CASE v # w
      BY <2>1, <2>3, <3>1 DEF Decided, ScreensOK
    <3>2. CASE v = w
      <4>1. screen[v].token = Token(screen[v].alloc) /\ allocs[screen[v].alloc].state # "inactive"
        BY <2>3, <3>2 DEF Decided, ScreenCurrent
      <4>2. screen[v].shown = allocs[screen[v].alloc].state
        BY <2>1, <2>3, <3>2, <4>1 DEF Decided, ScreensOK, PageOK
      <4>3. Len(decisions') = Len(decisions) + 1
        BY <2>1, <2>3, DecidedLog
      <4>4. decisions'[Len(decisions) + 1] = [alloc |-> screen[v].alloc,
                                              action |-> screen[v].action,
                                              predecessor |-> Token(screen[v].alloc)]
        BY <2>1, <2>3, <3>2, DecidedLog
      <4>5. decisions'[Len(decisions')].predecessor = Token(screen[v].alloc)
        BY <4>3, <4>4
      <4> QED BY <4>1, <4>2, <4>5
    <3> QED BY <3>1, <3>2
  <2> QED BY <2>2, <2>3, Steps
<1> QED BY <1>1, Reachable, PTL DEF Spec, DecidedAsShown

\* Once a case has a safety exit, no row of it is proposed, activated or decided on, not even by
\* the refresh that follows a decision on another case (planning/services.py:433).
THEOREM ExitIsFinal == Spec => NothingNewAfterExit
<1>1. IInv /\ [Next]_vars =>
         [\A a \in DOMAIN allocs' :
            CaseOf[allocs'[a].demand] \in exited =>
                /\ a \in DOMAIN allocs
                /\ allocs'[a].state \in {allocs[a].state, "inactive"}
                /\ \A i \in DOMAIN decisions' \ DOMAIN decisions : decisions'[i].alloc # a]_vars
  <2> DEFINE Quiet(a) ==
        CaseOf[allocs'[a].demand] \in exited =>
            /\ a \in DOMAIN allocs
            /\ allocs'[a].state \in {allocs[a].state, "inactive"}
            /\ \A i \in DOMAIN decisions' \ DOMAIN decisions : decisions'[i].alloc # a
  <2> SUFFICES ASSUME IInv, [Next]_vars, NEW a \in DOMAIN allocs' PROVE Quiet(a)
    OBVIOUS
  <2>1. Tables /\ ScreensOK
    BY DEF IInv
  <2>2. CASE Undecided
    BY <2>2 DEF Undecided
  <2>3. ASSUME NEW v \in Advisers, Decided(v) PROVE Quiet(a)
    <3> HAVE CaseOf[allocs'[a].demand] \in exited
    <3>1. /\ screen[v].alloc \in DOMAIN allocs
          /\ a \in DOMAIN allocs => RowMoved(v, a)
          /\ a \notin DOMAIN allocs => RowAdded(v, a)
      BY <2>1, <2>3, DecidedRows
    <3>2. a \in DOMAIN allocs
      BY <3>1 DEF RowAdded
    <3>3. allocs'[a].demand = allocs[a].demand
      BY <2>1, <3>1, <3>2 DEF RowMoved, Tables, RowsOK, IsRow
    <3>4. a # screen[v].alloc
      BY <2>3, <3>3 DEF Decided, Recordable, CaseOfAlloc
    <3>5. allocs'[a].state \in {allocs[a].state, "inactive"}
      BY <3>1, <3>2, <3>4 DEF RowMoved
    <3>6. /\ Len(decisions) \in Nat /\ DOMAIN decisions = 1..Len(decisions)
          /\ DOMAIN decisions' = 1..(Len(decisions) + 1)
      BY <2>1, <2>3, DecidedLog
    <3>7. decisions'[Len(decisions) + 1] = [alloc |-> screen[v].alloc,
                                            action |-> screen[v].action,
                                            predecessor |-> Token(screen[v].alloc)]
      BY <2>1, <2>3, DecidedLog
    <3>8. decisions'[Len(decisions) + 1].alloc = screen[v].alloc
      BY <3>7
    <3>9. \A i \in DOMAIN decisions' \ DOMAIN decisions : decisions'[i].alloc # a
      BY <3>4, <3>6, <3>8
    <3> QED BY <3>2, <3>5, <3>9
  <2> QED BY <2>2, <2>3, Steps
<1> QED BY <1>1, Reachable, PTL DEF Spec, NothingNewAfterExit

-----------------------------------------------------------------------------
(* The workbench implements the board of demands                           *)

\* The live row of a demand says where it is.
LiveRowIsShown ==
    \A a \in DOMAIN allocs :
        allocs[a].state # "inactive" => Board[allocs[a].demand] = allocs[a].state

\* A demand is active on the board exactly when a row of it is.
ActiveRowIsShown ==
    \A d \in Demands :
        Board[d] = "active" <=>
            \E a \in DOMAIN allocs : allocs[a].demand = d /\ allocs[a].state = "active"

LEMMA BoardShows == Tables => LiveRowIsShown /\ ActiveRowIsShown
<1> SUFFICES ASSUME Tables PROVE LiveRowIsShown /\ ActiveRowIsShown
  OBVIOUS
<1>1. ASSUME NEW a \in DOMAIN allocs, allocs[a].state # "inactive"
      PROVE  Board[allocs[a].demand] = allocs[a].state
  <2>1. allocs[a].demand \in Demands /\ allocs[a].state \in {"proposed", "active"}
    BY <1>1 DEF Tables, RowsOK, States
  <2>2. Live(allocs[a].demand) = {a}
    BY <1>1 DEF Live, Tables, OneEach
  <2> QED BY <2>1, <2>2 DEF Board
<1>2. ActiveRowIsShown
  BY DEF ActiveRowIsShown, Board, Live
<1> QED BY <1>1, <1>2 DEF LiveRowIsShown

LEMMA BoardShowsNext == Tables' => LiveRowIsShown' /\ ActiveRowIsShown'
  BY BoardShows, PTL

LEMMA BoardInit == IInv /\ Init => DemandBoard!Init
<1> SUFFICES ASSUME IInv, Init PROVE DemandBoard!Init
  OBVIOUS
<1>1. Tables /\ ActiveIsApproved
  BY DEF IInv
<1>2. \A a \in DOMAIN allocs : allocs[a].state # "active"
  <2>1. packages = {}
    BY DEF Init
  <2> QED BY <1>1, <2>1 DEF ActiveIsApproved
<1>3. Board \in [Demands -> {"waiting", "proposed"}]
  BY <1>2 DEF Board, Live
<1>4. DecisionLog = <<>>
  BY DEF Init, DecisionLog
<1> QED BY <1>3, <1>4 DEF DemandBoard!Init

\* A decision is the step of the board its action names.
LEMMA BoardDecided ==
    ASSUME IInv, NEW v \in Advisers, Decided(v)
    PROVE  LET d == allocs[screen[v].alloc].demand
           IN  /\ d \in Demands
               /\ \/ screen[v].action = "approve" /\ Board[d] = "proposed" /\ Board'[d] = "active"
                  \/ screen[v].action = "reject" /\ Board[d] \in {"proposed", "active"}
                                                 /\ Board'[d] = "waiting"
                  \/ screen[v].action = "amend" /\ Board[d] \in {"proposed", "active"}
                                                /\ Board'[d] = "proposed"
               /\ \A e \in Demands \ {d} : Board[e] = "active" <=> Board'[e] = "active"
<1> PICK a, d, act : a = screen[v].alloc /\ d = allocs[screen[v].alloc].demand
                     /\ act = screen[v].action
  OBVIOUS
<1> DEFINE Moved(action, from, to) == act = action /\ Board[d] \in from /\ Board'[d] = to
<1>1. Tables /\ ScreensOK /\ Tables'
  BY DecidedTables DEF IInv
<1>2. /\ a \in DOMAIN allocs /\ DOMAIN allocs \subseteq DOMAIN allocs'
      /\ \A b \in DOMAIN allocs : RowMoved(v, b)
      /\ \A b \in DOMAIN allocs' \ DOMAIN allocs : RowAdded(v, b)
  BY <1>1, DecidedRows
<1>3. \/ allocs[a].state = "proposed"
      \/ allocs[a].state = "active" /\ act \in {"amend", "reject"}
  BY DEF Decided, ScreenCurrent
<1>4. PageOK(screen[v]) /\ act \in Actions
  BY <1>1 DEF Decided, ScreensOK, PageOK
<1>5. d \in Demands /\ \A b \in DOMAIN allocs : IsRow(allocs[b])
  BY <1>1, <1>2 DEF Tables, RowsOK
<1>6. Board[d] = allocs[a].state
  BY <1>1, <1>2, <1>3, BoardShows DEF LiveRowIsShown
<1>7. \A b \in DOMAIN allocs : allocs'[b].demand = allocs[b].demand
  BY <1>2, <1>5 DEF RowMoved, IsRow
<1>8. ASSUME act = "approve" PROVE Moved("approve", {"proposed"}, "active")
  <2>1. allocs'[a].state = "active" /\ a \in DOMAIN allocs'
    BY <1>2, <1>8 DEF RowMoved
  <2>2. Board'[allocs'[a].demand] = "active"
    BY <1>1, <2>1, BoardShowsNext DEF LiveRowIsShown
  <2>3. Board'[d] = "active"
    BY <1>2, <1>7, <2>2
  <2> QED BY <1>3, <1>6, <1>8, <2>3
<1>9. ASSUME act = "reject" PROVE Moved("reject", {"proposed", "active"}, "waiting")
  <2>1. d \notin DOMAIN NewRun(v).input.demands
    BY <1>1, <1>3, <1>9, NewRunInput DEF Decided
  <2>2. ASSUME NEW b \in DOMAIN allocs', allocs'[b].demand = d PROVE allocs'[b].state = "inactive"
    <3>1. b \in DOMAIN allocs
      BY <1>2, <2>1, <2>2 DEF RowAdded
    <3>2. CASE b = a
      BY <1>2, <1>9, <3>2 DEF RowMoved
    <3>3. CASE b # a
      <4>1. allocs[b].state = "inactive"
        BY <1>1, <1>2, <1>3, <1>7, <2>2, <3>1, <3>3 DEF Tables, OneEach
      <4> QED BY <1>2, <3>1, <3>3, <4>1 DEF RowMoved
    <3> QED BY <3>2, <3>3
  <2>3. Board'[d] = "waiting"
    <3>1. Live(d)' = {}
      BY <2>2 DEF Live
    <3> QED BY <1>5, <3>1 DEF Board
  <2> QED BY <1>3, <1>6, <1>9, <2>3
<1>10. ASSUME act = "amend" PROVE Moved("amend", {"proposed", "active"}, "proposed")
  <2>1. NewRun(v).primary = PlansOf(SourceRun(v))[screen[v].variant]
    BY <1>10 DEF NewRun, SelectedRun
  <2>2. d \in DOMAIN PlansOf(SourceRun(v))[screen[v].variant].alloc
    BY <1>4, <1>10 DEF PageOK, SourceRun
  <2>3. PICK b \in DOMAIN allocs' \ DOMAIN allocs : allocs'[b].demand = d
    BY <1>1, <2>1, <2>2, DecidedRows
  <2>4. allocs'[b].state = "proposed"
    BY <1>2, <2>3 DEF RowAdded
  <2>5. Board'[allocs'[b].demand] = "proposed"
    BY <1>1, <2>3, <2>4, BoardShowsNext DEF LiveRowIsShown
  <2> QED BY <1>3, <1>6, <1>10, <2>3, <2>5
<1>11. ASSUME NEW e \in Demands \ {d} PROVE Board[e] = "active" <=> Board'[e] = "active"
  <2>1. \A b \in DOMAIN allocs :
           allocs[b].demand = e => (allocs[b].state = "active" <=> allocs'[b].state = "active")
    BY <1>2, <1>11 DEF RowMoved
  <2>2. \A b \in DOMAIN allocs' \ DOMAIN allocs : allocs'[b].state # "active"
    BY <1>2 DEF RowAdded
  <2>3. Board[e] = "active" <=> \E b \in DOMAIN allocs : allocs[b].demand = e /\ allocs[b].state = "active"
    BY <1>1, BoardShows DEF ActiveRowIsShown
  <2>4. Board'[e] = "active" <=>
           \E b \in DOMAIN allocs' : allocs'[b].demand = e /\ allocs'[b].state = "active"
    BY <1>1, BoardShowsNext DEF ActiveRowIsShown
  <2> QED BY <1>2, <1>7, <2>1, <2>2, <2>3, <2>4
<1> QED BY <1>4, <1>5, <1>8, <1>9, <1>10, <1>11 DEF Actions

\* The log of the board grows by what was decided.
LEMMA LogDecided ==
    ASSUME IInv, NEW v \in Advisers, Decided(v)
    PROVE  DecisionLog' = Append(DecisionLog, <<allocs[screen[v].alloc].demand, screen[v].action>>)
<1> DEFINE a == screen[v].alloc
           n == Len(decisions)
           e == <<allocs[screen[v].alloc].demand, screen[v].action>>
           new == Append(DecisionLog, e)
<1>1. Tables /\ ScreensOK
  BY DEF IInv
<1>2. /\ n \in Nat /\ DOMAIN decisions = 1..n /\ DOMAIN decisions' = 1..(n + 1)
      /\ \A i \in 1..n : decisions'[i] = decisions[i]
  BY <1>1, DecidedLog
<1>3. decisions'[n + 1] = [alloc |-> a, action |-> screen[v].action, predecessor |-> Token(a)]
  BY <1>1, DecidedLog
<1>4. decisions'[n + 1].alloc = a /\ decisions'[n + 1].action = screen[v].action
  BY <1>3
<1>5. \A b \in DOMAIN allocs : allocs'[b].demand = allocs[b].demand
  <2>1. \A b \in DOMAIN allocs : RowMoved(v, b) /\ IsRow(allocs[b])
    BY <1>1, DecidedRows DEF Tables, RowsOK
  <2> QED BY <2>1 DEF RowMoved, IsRow
<1>6. a \in DOMAIN allocs /\ \A i \in 1..n : decisions[i].alloc \in DOMAIN allocs
  BY <1>1, <1>2, DecidedRows DEF Tables, LogOK
<1>7. /\ DecisionLog = [i \in 1..n |-> <<allocs[decisions[i].alloc].demand, decisions[i].action>>]
      /\ IsSeq(DecisionLog) /\ Len(DecisionLog) = n
  <2>1. DecisionLog = [i \in 1..n |-> <<allocs[decisions[i].alloc].demand, decisions[i].action>>]
    BY <1>2 DEF DecisionLog
  <2>2. DOMAIN DecisionLog = 1..n /\ DecisionLog = [i \in 1..n |-> DecisionLog[i]]
    BY <2>1
  <2> QED BY <1>2, <2>1, <2>2, FunctionIsSeq
<1>8. DecisionLog' = [i \in 1..(n + 1) |-> <<allocs'[decisions'[i].alloc].demand, decisions'[i].action>>]
  BY <1>2 DEF DecisionLog
<1> HIDE DEF e, n
<1>9. /\ IsSeq(new) /\ DOMAIN new = 1..(n + 1)
      /\ \A k \in 1..n : new[k] = DecisionLog[k]
      /\ new[n + 1] = e
  <2>0. IsSeq(DecisionLog) /\ Len(DecisionLog) = n /\ DOMAIN DecisionLog = 1..n
    BY <1>7
  <2>1. PICK s : s = DecisionLog /\ IsSeq(s) /\ Len(s) = n /\ DOMAIN s = 1..n
    BY <2>0, Zenon
  <2>2. /\ IsSeq(Append(s, e)) /\ DOMAIN Append(s, e) = 1..(Len(s) + 1)
        /\ \A k \in DOMAIN s : Append(s, e)[k] = s[k]
        /\ Append(s, e)[Len(s) + 1] = e
    BY <2>1, AppendRow
  <2> QED BY <2>1, <2>2
<1>10. new = [i \in 1..(n + 1) |-> new[i]]
  <2> HIDE DEF new
  <2>1. Len(new) = n + 1 /\ new = [i \in 1..Len(new) |-> new[i]]
    BY <1>2, <1>9, LenProperties DEF IsSeq
  <2> QED BY <2>1
<1>11. ASSUME NEW i \in 1..(n + 1)
       PROVE  <<allocs'[decisions'[i].alloc].demand, decisions'[i].action>> = new[i]
  <2>1. CASE i = n + 1
    BY <1>4, <1>5, <1>6, <1>9, <2>1 DEF e
  <2>2. CASE i # n + 1
    BY <1>2, <1>5, <1>6, <1>7, <1>9, <2>2
  <2> QED BY <2>1, <2>2
<1> QED BY <1>8, <1>10, <1>11 DEF e

LEMMA BoardStep == IInv /\ [Next]_vars => [DemandBoard!Next]_(DemandBoard!vars)
<1> SUFFICES ASSUME IInv, [Next]_vars PROVE [DemandBoard!Next]_(DemandBoard!vars)
  OBVIOUS
<1>1. CASE Undecided
  <2>1. UNCHANGED <<runs, allocs, decisions, packages>>
    BY <1>1 DEF Undecided
  <2> QED BY <2>1 DEF DemandBoard!vars, Board, Live, DecisionLog
<1>2. ASSUME NEW v \in Advisers, Decided(v) PROVE DemandBoard!Next
  <2> DEFINE d   == allocs[screen[v].alloc].demand
             act == screen[v].action
  <2>1. /\ d \in Demands
        /\ \/ act = "approve" /\ Board[d] = "proposed" /\ Board'[d] = "active"
           \/ act = "reject" /\ Board[d] \in {"proposed", "active"} /\ Board'[d] = "waiting"
           \/ act = "amend" /\ Board[d] \in {"proposed", "active"} /\ Board'[d] = "proposed"
        /\ \A e \in Demands \ {d} : Board[e] = "active" <=> Board'[e] = "active"
    BY <1>2, BoardDecided
  <2>2. DecisionLog' = Append(DecisionLog, <<d, act>>)
    BY <1>2, LogDecided
  <2>3. Board' \in [Demands -> DemandBoard!Places]
    BY DEF Board, DemandBoard!Places
  <2> QED BY <2>1, <2>2, <2>3 DEF DemandBoard!Next, DemandBoard!Approve, DemandBoard!Reject,
                                  DemandBoard!Amend, DemandBoard!Decided
<1> QED BY <1>1, <1>2, Steps

\* Through all the rows that are retired and created, every decision moves its own demand as the
\* action says and no other one into or out of active (workbench.py:226-398).
THEOREM ImplementsBoard == Spec => ImplementsDemandBoard
  BY InitInv, Reachable, BoardInit, BoardStep, PTL DEF Spec, ImplementsDemandBoard, DemandBoard!Spec

-----------------------------------------------------------------------------
(* Nothing is dropped                                                      *)

LEMMA LessIs ==
    ASSUME NEW capacity \in Nat, NEW used \in Nat
    PROVE  Less(capacity, used) \in Nat
<1> DEFINE S == {0, capacity - used}
<1>1. \E x \in S : \A y \in S : x >= y
  <2>1. CASE capacity >= used
    BY <2>1
  <2>2. CASE capacity < used
    BY <2>2
  <2> QED BY <2>1, <2>2
<1>2. Max(S) \in S /\ \A y \in S : Max(S) >= y
  BY <1>1 DEF Max
<1>3. Max(S) \in Int /\ Max(S) >= 0
  BY <1>2
<1>4. Less(capacity, used) = Max(S)
  BY DEF Less
<1> QED BY <1>3, <1>4

\* What is left of a valid request is a valid request: no capacity falls below zero however much
\* the active allocations use.
LEMMA RemainingValid ==
    ASSUME NEW req, ValidRequest(req), NEW rows, IsSeq(rows), NEW rejected
    PROVE  ValidRequest(RemainingRequest(req, rows, rejected))
<1> DEFINE D        == DOMAIN req.demands
           S        == DOMAIN req.slots
           active   == ActiveIn(rows, req)
           using(s) == {a \in active : rows[a].slot = s}
           used(s)  == SumFunction([a \in using(s) |-> req.demands[rows[a].demand].effort])
           left     == D \ ({rows[a].demand : a \in active} \cup rejected)
           demands  == [d \in left |-> req.demands[d]]
           less(s)  == [req.slots[s] EXCEPT !.seats = Less(@, Cardinality(using(s))),
                                            !.hours = Less(@, used(s)),
                                            !.rooms = Less(@, Cardinality(using(s)))]
           slots    == [s \in S |-> less(s)]
           new      == [req EXCEPT !.demands = demands, !.slots = slots]
           R        == [route: Int, day: Int, seats: Nat, hours: Nat, rooms: Nat]
<1>1. RemainingRequest(req, rows, rejected) = new
  BY DEF RemainingRequest
<1>2. IsFiniteSet(active)
  <2>1. Len(rows) \in Nat /\ DOMAIN rows = 1..Len(rows)
    BY SeqDomain
  <2>2. active \subseteq 1..Len(rows) /\ IsFiniteSet(1..Len(rows))
    BY <2>1, FS_Interval DEF ActiveIn
  <2> QED BY <2>2, FS_Subset
<1>3. ASSUME NEW s \in S
      PROVE  Cardinality(using(s)) \in Nat /\ used(s) \in Nat
  <2> DEFINE w == [a \in active |-> req.demands[rows[a].demand].effort]
             T == using(s)
  <2>1. T \in SUBSET active
    OBVIOUS
  <2>2. IsFiniteSet(T)
    BY <1>2, <2>1, FS_Subset
  <2>3. Cardinality(T) \in Nat
    BY <2>2, FS_CardinalityType
  <2>4. w \in [active -> Nat]
    BY DEF ActiveIn, ValidRequest, ValidDemand
  <2>5. [a \in T |-> w[a]] = [a \in T |-> req.demands[rows[a].demand].effort]
    BY <2>1
  <2>6. used(s) = SumOver(w, T)
    BY <2>5 DEF SumOver
  <2> HIDE DEF active, w, T
  <2>7. \A U \in SUBSET active : SumOver(w, U) \in Nat
    BY <1>2, <2>4, SumsGrow
  <2>8. SumOver(w, T) \in Nat
    BY <2>1, <2>7
  <2> QED BY <2>3, <2>6, <2>8 DEF T, active
<1> HIDE DEF active, used
<1>4. ASSUME NEW s \in S PROVE less(s) \in R
  <2> DEFINE slot  == req.slots[s]
             count == Cardinality(using(s))
             seats == Less(slot.seats, count)
             hours == Less(slot.hours, used(s))
             rooms == Less(slot.rooms, count)
  <2>1. slot \in R
    BY DEF ValidRequest, SlotsIn
  <2>2. count \in Nat /\ used(s) \in Nat
    BY <1>3
  <2> HIDE DEF count
  <2>3. seats \in Nat /\ hours \in Nat /\ rooms \in Nat
    BY <2>1, <2>2, LessIs
  <2>4. less(s) = [[[slot EXCEPT !.seats = seats] EXCEPT !.hours = hours] EXCEPT !.rooms = rooms]
    BY <2>1 DEF count
  <2> HIDE DEF slot, seats, hours, rooms
  <2> QED BY <2>1, <2>3, <2>4
<1> HIDE DEF less
<1>5. slots \in [S -> R] /\ DOMAIN slots = S
  BY <1>4
<1>6. /\ DOMAIN demands \subseteq D
      /\ \A d \in DOMAIN demands : demands[d] = req.demands[d]
  OBVIOUS
<1> HIDE DEF demands, slots, left
<1>7. /\ DOMAIN new = DOMAIN req /\ new.slots = slots
      /\ new.demands = demands /\ new.policy = req.policy
  BY DEF ValidRequest
<1> HIDE DEF new
<1>8. IsFiniteSet(DOMAIN demands)
  BY <1>6, FS_Subset DEF ValidRequest
<1>9. \A d \in DOMAIN demands : d \in Int /\ ValidDemand(demands[d])
  BY <1>6 DEF ValidRequest
<1>10. ValidRequest(new)
  BY <1>5, <1>7, <1>8, <1>9 DEF ValidRequest, SlotsIn
<1> QED BY <1>1, <1>10

\* The last run that planned a demand.
PlannedIn(d) == {r \in DOMAIN runs : d \in DOMAIN runs[r].input.demands}
LastRun(d) == Max(PlannedIn(d))

\* Of each demand of the first request: the disjunct of NothingDropped that explains it.
Kept(d) ==
    \/ Live(d) # {}
    \/ d \in DOMAIN runs[LastRun(d)].primary.unmet
    \/ \E i \in DOMAIN decisions : /\ i >= LastRun(d)
                                   /\ decisions[i].action = "reject"
                                   /\ allocs[decisions[i].alloc].demand = d

\* Every run is the whole result of the planner on a valid input (Complete), decision i made
\* run i + 1, and a row's demand is one its run planned.
KeptInv ==
    /\ \A r \in DOMAIN runs : Complete(runs[r])
    /\ Len(runs) = Len(decisions) + 1
    /\ \A a \in DOMAIN allocs : allocs[a].demand \in DOMAIN runs[allocs[a].run].input.demands
    /\ \A d \in DOMAIN runs[1].input.demands : LastRun(d) \in DOMAIN runs /\ Kept(d)

LEMMA KeptMeans == KeptInv => NothingDropped
  BY DEF KeptInv, Kept, LastRun, PlannedIn, NothingDropped

\* A plan of a complete run serves a demand or says why not.
LEMMA AllAnswered ==
    ASSUME NEW run, Complete(run)
    PROVE  \A d \in DOMAIN run.input.demands :
              d \in DOMAIN run.primary.alloc \/ d \in DOMAIN run.primary.unmet
<1> DEFINE req == run.input
           P == {Render(req, alloc) : alloc \in AllOf(req)}
<1>1. PlansOf(run) \in Seq(P) /\ run.primary = PlansOf(run)[1] /\ ValidRequest(req)
  BY DEF Complete
<1>2. \E v \in DOMAIN PlansOf(run) : PlansOf(run)[v].alloc = BestOf(req)
  BY DEF Complete, AllOf
<1>3. Len(PlansOf(run)) \in Nat /\ DOMAIN PlansOf(run) = 1..Len(PlansOf(run))
  BY <1>1, LenProperties
<1>4. 1 \in DOMAIN PlansOf(run)
  BY <1>2, <1>3
<1>5. run.primary \in P
  BY <1>1, <1>4, ElementOfSeq
<1>6. PICK alloc \in AllOf(req) : run.primary = Render(req, alloc)
  BY <1>5
<1> HIDE DEF req
<1>7. run.primary.alloc = alloc /\ DOMAIN run.primary.unmet = DOMAIN req.demands \ DOMAIN alloc
  BY <1>6 DEF Render
<1> QED BY <1>7 DEF req

\* A decision plans its own run, in which an amended demand is planned again.
LEMMA DecidedRun ==
    ASSUME Tables, ScreensOK, KeptInv, NEW v \in Advisers, Decided(v)
    PROVE  LET a == screen[v].alloc
               n == Len(runs)
           IN  /\ n \in Nat /\ DOMAIN runs = 1..n /\ DOMAIN runs' = 1..(n + 1)
               /\ \A r \in DOMAIN runs : runs'[r] = runs[r]
               /\ runs'[n + 1] = NewRun(v)
               /\ Len(runs') = n + 1
               /\ Complete(NewRun(v))
               /\ screen[v].action = "amend" => allocs[a].demand \in DOMAIN NewRun(v).input.demands
<1> DEFINE a    == screen[v].alloc
           n    == Len(runs)
           src  == SourceRun(v)
           rows == RowsAfter(v)
           req  == RequestAfter(v)
           rejected == IF screen[v].action = "reject" THEN {allocs[a].demand} ELSE {}
<1>1. /\ n \in Nat /\ DOMAIN runs = 1..n /\ DOMAIN runs' = 1..(n + 1)
      /\ \A r \in DOMAIN runs : runs'[r] = runs[r]
      /\ runs'[n + 1] = NewRun(v) /\ Len(runs') = n + 1
  BY AppendRow, SeqDomain DEF Decided, Commit, Tables, RunsOK
<1>2. /\ a \in DOMAIN allocs /\ allocs[a].state # "inactive" /\ IsRow(allocs[a])
      /\ allocs[a].run \in DOMAIN runs
  BY DEF Decided, ScreenCurrent, ScreensOK, PageOK, Tables, RowsOK
<1>3. Complete(src) /\ ValidRequest(src.input) /\ allocs[a].demand \in DOMAIN src.input.demands
  BY <1>2 DEF SourceRun, KeptInv, Complete
<1>4. /\ IsSeq(rows) /\ DOMAIN rows = DOMAIN allocs
      /\ \A b \in DOMAIN allocs :
            /\ rows[b].demand = allocs[b].demand
            /\ rows[b].state = IF b = a THEN IF screen[v].action = "approve" THEN "active" ELSE "inactive"
                               ELSE allocs[b].state
  <2>1. rows = [allocs EXCEPT ![a].state =
                   IF screen[v].action = "approve" THEN "active" ELSE "inactive"]
    BY DEF RowsAfter, Reviewed
  <2>2. Len(allocs) \in Nat /\ DOMAIN allocs = 1..Len(allocs)
    BY SeqDomain DEF Tables, RowsOK
  <2> HIDE DEF rows
  <2>3. IsSeq(rows) /\ DOMAIN rows = DOMAIN allocs
    BY <2>1, <2>2, FunctionIsSeq
  <2> QED BY <1>2, <2>1, <2>3 DEF Tables, RowsOK, IsRow
<1>5. req = RemainingRequest(src.input, rows, rejected)
  BY DEF RequestAfter
<1> HIDE DEF a, n, src, rows, req, rejected
<1>6. ValidRequest(req)
  <2> DEFINE old == src.input
  <2>1. ValidRequest(old) /\ IsSeq(rows) /\ req = RemainingRequest(old, rows, rejected)
    BY <1>3, <1>4, <1>5
  <2> HIDE DEF old
  <2> QED BY <2>1, RemainingValid
<1>7. Complete(NewRun(v)) /\ NewRun(v).input = req
  <2>1. CASE screen[v].action = "amend"
    <3>1. req = src.input /\ screen[v].variant \in DOMAIN PlansOf(src)
      BY <2>1 DEF Decided, Replannable, SelectedPlanValid, req, src
    <3>2. NewRun(v) = SelectedRun(req, src, screen[v].variant)
      BY <2>1 DEF NewRun, req, src
    <3>3. Complete(SelectedRun(req, src, screen[v].variant))
          /\ SelectedRun(req, src, screen[v].variant).input = src.input
      BY <1>3, <3>1, SelectedComplete
    <3> QED BY <3>1, <3>2, <3>3
  <2>2. CASE screen[v].action # "amend"
    <3>1. NewRun(v) = RecordedRun(req)
      BY <2>2 DEF NewRun, req
    <3> QED BY <1>6, <3>1, RecordedComplete
  <2> QED BY <2>1, <2>2
<1>8. ASSUME screen[v].action = "amend" PROVE allocs[a].demand \in DOMAIN NewRun(v).input.demands
  <2> DEFINE old == src.input
  <2>1. Fits(old) /\ req = RemainingRequest(old, rows, {})
    BY <1>2, <1>5, <1>8 DEF Tables, RunsOK, SourceRun, src, rejected, a
  <2> HIDE DEF old
  <2>2. DOMAIN req.demands = DOMAIN old.demands \ ({rows[b].demand : b \in ActiveIn(rows, old)} \cup {})
    BY <2>1, RemainingDemands
  <2>3. ASSUME NEW b \in ActiveIn(rows, old) PROVE rows[b].demand # allocs[a].demand
    <3>1. b \in DOMAIN allocs /\ rows[b].state = "active"
      BY <1>4 DEF ActiveIn
    <3>2. b # a /\ allocs[b].state = "active" /\ rows[b].demand = allocs[b].demand
      BY <1>4, <1>8, <3>1
    <3> QED BY <1>2, <3>1, <3>2 DEF Tables, OneEach
  <2> QED BY <1>3, <1>7, <2>2, <2>3 DEF old
<1> QED BY <1>1, <1>7, <1>8 DEF a, n

\* What the new run plans is proposed or left unmet by it; of any other demand the last run stays
\* the same, and its row stays live unless it is the one rejected.
LEMMA DecidedKept ==
    ASSUME Tables, ScreensOK, KeptInv, NEW v \in Advisers, Decided(v)
    PROVE  KeptInv'
<1> DEFINE a == screen[v].alloc
           n == Len(runs)
           m == Len(decisions)
           run == NewRun(v)
<1>1. /\ n \in Nat /\ DOMAIN runs = 1..n /\ DOMAIN runs' = 1..(n + 1)
      /\ \A r \in DOMAIN runs : runs'[r] = runs[r]
      /\ runs'[n + 1] = run /\ Len(runs') = n + 1
      /\ Complete(run)
      /\ screen[v].action = "amend" => allocs[a].demand \in DOMAIN run.input.demands
  BY DecidedRun
<1>2. /\ m \in Nat /\ DOMAIN decisions = 1..m
      /\ Len(decisions') = m + 1 /\ DOMAIN decisions' = 1..(m + 1)
      /\ \A i \in 1..m : decisions'[i] = decisions[i]
      /\ screen[v].action \in Actions
  BY DecidedLog
<1>3. decisions'[m + 1].alloc = a /\ decisions'[m + 1].action = screen[v].action
  <2>1. decisions'[m + 1] = [alloc |-> a, action |-> screen[v].action, predecessor |-> Token(a)]
    BY DecidedLog
  <2> QED BY <2>1
<1>4. /\ a \in DOMAIN allocs /\ allocs[a].state # "inactive"
      /\ DOMAIN allocs \subseteq DOMAIN allocs'
      /\ \A b \in DOMAIN allocs : RowMoved(v, b)
      /\ \A b \in DOMAIN allocs' \ DOMAIN allocs : RowAdded(v, b)
      /\ \A d \in DOMAIN run.primary.alloc :
            \E b \in DOMAIN allocs' \ DOMAIN allocs : allocs'[b].demand = d
  BY DecidedRows
<1>5. \A b \in DOMAIN allocs : /\ allocs'[b].demand = allocs[b].demand
                               /\ allocs'[b].run = allocs[b].run
                               /\ allocs[b].run \in DOMAIN runs
  <2> TAKE b \in DOMAIN allocs
  <2>1. RowMoved(v, b) /\ IsRow(allocs[b]) /\ allocs[b].run \in DOMAIN runs
    BY <1>4 DEF Tables, RowsOK
  <2> QED BY <2>1 DEF RowMoved, IsRow
<1>6. n = m + 1
  BY DEF KeptInv
<1>7. \A i \in 1..m : decisions[i].alloc \in DOMAIN allocs
  BY <1>2 DEF Tables, LogOK
<1>8. runs'[1] = runs[1]
  BY <1>1, <1>2, <1>6
<1> HIDE DEF n, m, run
<1>9. \A r \in DOMAIN runs' : Complete(runs'[r])
  BY <1>1 DEF KeptInv
<1>10. Len(runs') = Len(decisions') + 1
  BY <1>1, <1>2, <1>6
<1>11. ASSUME NEW b \in DOMAIN allocs'
       PROVE  allocs'[b].demand \in DOMAIN runs'[allocs'[b].run].input.demands
  <2>1. CASE b \in DOMAIN allocs
    BY <1>1, <1>5, <2>1 DEF KeptInv
  <2>2. CASE b \notin DOMAIN allocs
    BY <1>1, <1>4, <2>2 DEF RowAdded, n, run
  <2> QED BY <2>1, <2>2
<1>12. ASSUME NEW d \in DOMAIN run.input.demands
       PROVE  LastRun(d)' = n + 1 /\ Kept(d)'
  <2> DEFINE S == PlannedIn(d)'
  <2>1. n + 1 \in S /\ S \in SUBSET Nat /\ \A r \in S : r <= n + 1
    BY <1>1, <1>12 DEF PlannedIn
  <2> HIDE DEF S
  <2>2. Max(S) = n + 1
    BY <1>1, <2>1, MaxIs
  <2>3. LastRun(d)' = n + 1
    BY <2>2 DEF LastRun, S
  <2>4. CASE d \in DOMAIN run.primary.alloc
    <3>1. PICK b \in DOMAIN allocs' \ DOMAIN allocs : allocs'[b].demand = d
      BY <1>4, <2>4
    <3>2. allocs'[b].state # "inactive"
      BY <1>4 DEF RowAdded
    <3> QED BY <2>3, <3>1, <3>2 DEF Kept, Live
  <2>5. CASE d \in DOMAIN run.primary.unmet
    BY <1>1, <2>3, <2>5 DEF Kept
  <2> QED BY <1>1, <1>12, <2>3, <2>4, <2>5, AllAnswered
<1>13. ASSUME NEW d \in DOMAIN runs[1].input.demands, d \notin DOMAIN run.input.demands
       PROVE  LastRun(d)' = LastRun(d) /\ Kept(d)'
  <2>1. PlannedIn(d)' = PlannedIn(d)
    BY <1>1, <1>13 DEF PlannedIn
  <2>2. LastRun(d)' = LastRun(d)
    BY <2>1 DEF LastRun
  <2>3. LastRun(d) \in 1..n /\ Kept(d)
    BY <1>1 DEF KeptInv
  <2>4. CASE Live(d) # {}
    <3>1. PICK b \in DOMAIN allocs : allocs[b].demand = d /\ allocs[b].state # "inactive"
      BY <2>4 DEF Live
    <3>2. RowMoved(v, b)
      BY <1>4
    <3>3. CASE b # a \/ screen[v].action = "approve"
      <4>1. allocs'[b].state # "inactive"
        BY <1>13, <3>1, <3>2, <3>3 DEF RowMoved, run, a
      <4>2. b \in Live(d)'
        BY <1>4, <1>5, <3>1, <4>1 DEF Live
      <4> QED BY <2>2, <4>2 DEF Kept
    <3>4. CASE b = a /\ screen[v].action # "approve"
      <4>1. screen[v].action = "reject"
        BY <1>1, <1>2, <1>13, <3>1, <3>4 DEF Actions
      <4>2. allocs'[a].demand = d
        BY <1>5, <3>1, <3>4
      <4>3. m + 1 \in DOMAIN decisions' /\ m + 1 >= LastRun(d)'
        BY <1>2, <1>6, <2>2, <2>3
      <4>4. \E i \in DOMAIN decisions' : /\ i >= LastRun(d)'
                                          /\ decisions'[i].action = "reject"
                                          /\ allocs'[decisions'[i].alloc].demand = d
        BY <1>3, <4>1, <4>2, <4>3
      <4> QED BY <2>2, <4>4 DEF Kept
    <3> QED BY <3>3, <3>4
  <2>5. CASE d \in DOMAIN runs[LastRun(d)].primary.unmet
    <3>1. runs'[LastRun(d)'] = runs[LastRun(d)]
      BY <1>1, <2>2, <2>3
    <3>2. d \in DOMAIN runs'[LastRun(d)'].primary.unmet
      BY <2>5, <3>1
    <3> QED BY <2>2, <3>2 DEF Kept
  <2>6. CASE \E i \in DOMAIN decisions : /\ i >= LastRun(d)
                                         /\ decisions[i].action = "reject"
                                         /\ allocs[decisions[i].alloc].demand = d
    <3>1. PICK i \in 1..m : /\ i >= LastRun(d) /\ decisions[i].action = "reject"
                            /\ allocs[decisions[i].alloc].demand = d
      BY <1>2, <2>6
    <3>2. decisions'[i] = decisions[i] /\ allocs'[decisions[i].alloc].demand = d /\ i \in DOMAIN decisions'
      BY <1>2, <1>5, <1>7, <3>1
    <3> QED BY <2>2, <3>1, <3>2 DEF Kept
  <2> QED BY <2>2, <2>3, <2>4, <2>5, <2>6 DEF Kept
<1>14. ASSUME NEW d \in DOMAIN runs'[1].input.demands
       PROVE  LastRun(d)' \in DOMAIN runs' /\ Kept(d)'
  <2>1. CASE d \in DOMAIN run.input.demands
    BY <1>1, <1>12, <2>1
  <2>2. CASE d \notin DOMAIN run.input.demands
    <3>1. d \in DOMAIN runs[1].input.demands
      BY <1>8
    <3>2. LastRun(d) \in 1..n
      BY <1>1, <3>1 DEF KeptInv
    <3> QED BY <1>1, <1>13, <2>2, <3>1, <3>2
  <2> QED BY <2>1, <2>2
<1> QED BY <1>9, <1>10, <1>11, <1>14 DEF KeptInv

LEMMA InitKept == Init => KeptInv
<1> SUFFICES ASSUME Init PROVE KeptInv
  OBVIOUS
<1>1. PICK req \in InitialRequests : runs = <<RecordedRun(req)>>
  BY DEF Init
<1>2. ValidRequest(req)
  BY RequestsFit
<1>3. Complete(runs[1]) /\ runs[1].input = req
  BY <1>1, <1>2, RecordedComplete
<1>4. DOMAIN runs = {1} /\ Len(runs) = 1 /\ Len(decisions) = 0
  BY <1>1 DEF Init
<1>5. DOMAIN runs[1].primary.alloc \subseteq Demands
  BY <1>3, RequestsFit DEF Init, AllProposable
<1> DEFINE plan == runs[1].primary
           prior == [d \in Demands |-> 0]
<1>6. allocs = Proposals(plan, 1, prior)
  BY DEF Init
<1>7. \A d \in DOMAIN plan.alloc : d \in DOMAIN runs[1].input.demands
  BY DEF Init, AllProposable
<1> HIDE DEF prior
<1>8. /\ \A a \in DOMAIN allocs :
            \E d \in DOMAIN plan.alloc : allocs[a] = Proposal(plan, d, 1, prior[d])
      /\ \A d \in DOMAIN plan.alloc : \E a \in DOMAIN allocs : allocs[a].demand = d
  <2> HIDE DEF plan
  <2> QED BY <1>5, <1>6, ProposalRows DEF plan
<1>9. ASSUME NEW a \in DOMAIN allocs
      PROVE  /\ allocs[a].demand \in DOMAIN runs[1].input.demands
             /\ allocs[a].run = 1 /\ allocs[a].state = "proposed"
  <2>1. PICK d \in DOMAIN plan.alloc : allocs[a] = Proposal(plan, d, 1, prior[d])
    BY <1>8
  <2>2. d \in DOMAIN runs[1].input.demands
    BY <1>7
  <2> HIDE DEF plan
  <2> QED BY <2>1, <2>2 DEF Proposal
<1>10. ASSUME NEW d \in DOMAIN runs[1].input.demands PROVE LastRun(d) \in DOMAIN runs /\ Kept(d)
  <2>1. PlannedIn(d) = {1}
    BY <1>4, <1>10 DEF PlannedIn
  <2>2. LastRun(d) = 1
    BY <2>1, MaxIs DEF LastRun
  <2>3. d \in DOMAIN plan.alloc \/ d \in DOMAIN plan.unmet
    BY <1>3, <1>10, AllAnswered
  <2>4. CASE d \in DOMAIN plan.alloc
    BY <1>4, <1>8, <1>9, <2>2, <2>4 DEF Kept, Live
  <2>5. CASE d \in DOMAIN plan.unmet
    BY <1>4, <2>2, <2>5 DEF Kept
  <2> QED BY <2>3, <2>4, <2>5
<1> QED BY <1>3, <1>4, <1>9, <1>10 DEF KeptInv

LEMMA KeptStays == Spec => []KeptInv
<1>1. IInv /\ KeptInv /\ [Next]_vars => KeptInv'
  <2> SUFFICES ASSUME IInv, KeptInv, [Next]_vars PROVE KeptInv'
    OBVIOUS
  <2>1. CASE Undecided
    <3>1. UNCHANGED <<runs, allocs, decisions>>
      BY <2>1 DEF Undecided
    <3>2. \A d : LastRun(d)' = LastRun(d) /\ Live(d)' = Live(d)
      BY <3>1 DEF LastRun, PlannedIn, Live
    <3>3. \A d : Kept(d)' = Kept(d)
      BY <3>1, <3>2 DEF Kept
    <3> QED BY <3>1, <3>2, <3>3 DEF KeptInv
  <2>2. ASSUME NEW v \in Advisers, Decided(v) PROVE KeptInv'
    BY <2>2, DecidedKept DEF IInv
  <2> QED BY <2>1, <2>2, Steps
<1> QED BY <1>1, InitKept, Reachable, PTL DEF Spec

\* For any demands and valid requests, and however decisions of several runs follow each other,
\* no demand disappears silently: it is live, rejected since it was last planned, or reported
\* unmet by the last run that planned it (workbench.py:348-398, planning/services.py:288-300).
THEOREM NoneDropped == Spec => []NothingDropped
  BY KeptMeans, KeptStays, PTL

\* Every run the workbench makes, replanned or selected, is the whole result of the planner on the
\* input it stores, which stays valid whatever the active allocations use up, and every run
\* follows a decision of its own (workbench.py:308-346).
THEOREM RunsAreWhole ==
    Spec => [](Len(runs) = Len(decisions) + 1 /\ \A r \in DOMAIN runs : Complete(runs[r]))
<1>1. KeptInv => Len(runs) = Len(decisions) + 1 /\ \A r \in DOMAIN runs : Complete(runs[r])
  BY DEF KeptInv
<1> QED BY <1>1, KeptStays, PTL
=============================================================================
