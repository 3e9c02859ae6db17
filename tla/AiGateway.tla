------------------------------ MODULE AiGateway ------------------------------
(***************************************************************************)
(* Provisional interpretation (ai_gateway) over the evidence of module     *)
(* Intake: the gateway calls the adapter within bounds and appends what    *)
(* came of it; a hypothesis is recorded later, from the stored output and  *)
(* never from what the caller says of it.  Each is one transaction, and    *)
(* imports, corrections and safety exits happen in between.                *)
(***************************************************************************)
EXTENDS Intake

CONSTANTS TaskKinds,          \* the tasks requested
          AdapterReplies,     \* what the adapter may do
          MaxSources,         \* bound of the code: captures cited by a request
          MaxAttempts         \* bound: gateway attempts

VARIABLES attempts,           \* gateway attempts with their outputs, append-only
          hypotheses          \* need hypotheses, append-only

vars == <<intakeVars, attempts, hypotheses>>

Init == IntakeInit /\ attempts = <<>> /\ hypotheses = <<>>

CasesOf(sources) == {captures[k].case : k \in sources}

-----------------------------------------------------------------------------
(* AiGatewayService.interpret                                              *)

\* A request cites captures that exist; only a cohort explanation spans cases.  Each source is
\* cited in its own version, and the listing order is left out.
Citable(task, sources) ==
    /\ sources # {} /\ Cardinality(sources) <= MaxSources
    /\ task # "cohort_explanation" => Cardinality(CasesOf(sources)) = 1

\* Fault: only the capture that caused an exit is restricted, not its whole case.
FaultOnlyCaptureRestricted(sources) == sources \cap exits # {}

\* A safety exit applies to the whole case of a capture.
Restricted(sources) == \E case \in CasesOf(sources) : CaseExited(case)

\* What becomes of the adapter's reply: errors and snapshots first, then the unsafe marker, then
\* the schema, then confidence and unknowns.
DispositionOf ==
    [times_out    |-> "timeout",
     raises       |-> "adapter_error",
     not_json     |-> "schema_failure",
     flags_unsafe |-> "restricted_safety_escalation",
     off_schema   |-> "schema_failure",
     unsure       |-> "human_review_required",
     sound        |-> "provisional_output"]

ASSUME RepliesHaveDispositions == AdapterReplies \subseteq DOMAIN DispositionOf

\* An attempt is stored whatever happens; the adapter is called only for unrestricted cases and
\* with a valid provenance of its own.
Interpret(task, sources, provenanceValid, reply) ==
    LET called == ~Restricted(sources) /\ provenanceValid
    IN  /\ Len(attempts) < MaxAttempts
        /\ Citable(task, sources)
        /\ attempts' = Append(attempts,
              [task |-> task, sources |-> sources,
               reply |-> IF called THEN reply ELSE "not_called",
               disposition |-> IF Restricted(sources) THEN "restricted_safety_escalation"
                               ELSE IF called THEN DispositionOf[reply] ELSE "adapter_error"])
        /\ UNCHANGED <<intakeVars, hypotheses>>

-----------------------------------------------------------------------------
(* HypothesisService.record                                                *)

\* Fault: any captures of the case will do.
FaultSourcesNotCompared(t, sources) == attempts[t].disposition = "provisional_output"

\* The stored output is provisional, of a task that may ground a hypothesis, and about exactly
\* these captures.
Grounds(t, sources) ==
    /\ attempts[t].disposition = "provisional_output"
    /\ attempts[t].task \in {"intake_interpretation", "need_hypothesis"}
    /\ attempts[t].sources = sources

RecordHypothesis(t, sources) ==
    /\ Cardinality(CasesOf(sources)) = 1
    /\ \A case \in CasesOf(sources) : ~CaseExited(case)
    /\ Grounds(t, sources)
    /\ \A h \in DOMAIN hypotheses : hypotheses[h].attempt # t
    /\ hypotheses' = Append(hypotheses,
                            [attempt |-> t, sources |-> sources,
                             case |-> CHOOSE case \in CasesOf(sources) : TRUE])
    /\ UNCHANGED <<intakeVars, attempts>>

SourceSets == {s \in SUBSET DOMAIN captures : s # {} /\ Cardinality(s) <= MaxSources}

Next ==
    \/ IntakeNext /\ UNCHANGED <<attempts, hypotheses>>
    \/ \E sources \in SourceSets :
          \/ \E task \in TaskKinds, valid \in BOOLEAN, reply \in AdapterReplies :
                Interpret(task, sources, valid, reply)
          \/ \E t \in DOMAIN attempts : RecordHypothesis(t, sources)

Spec == Init /\ [][Next]_vars

-----------------------------------------------------------------------------
(* Properties                                                              *)

\* The type invariant of the evidence and of what was made of it.
TypeOK ==
    /\ \A i \in Importers : \/ importing[i] = NotStarted
                            \/ /\ importing[i].phase \in {"storing", "answered"}
                               /\ importing[i].file \in Files
    /\ \A k \in DOMAIN captures : /\ captures[k].batch \in DOMAIN batches
                                  /\ captures[k].supersedes \in 0..(k - 1)
                                  /\ captures[k].case \in DOMAIN captures
    /\ exits \subseteq DOMAIN captures
    /\ \A t \in DOMAIN attempts : /\ attempts[t].sources \subseteq DOMAIN captures
                                  /\ attempts[t].task \in TaskKinds
                                  /\ attempts[t].reply \in AdapterReplies \cup {"not_called"}
    /\ \A h \in DOMAIN hypotheses : hypotheses[h].attempt \in DOMAIN attempts

\* A hypothesis rests on one stored interpretation of exactly its captures, all of one case, that
\* the adapter was sure of, and no interpretation grounds two: a correction recorded in between
\* never slips in (services.py:187-290, contracts.py:324-367).
HypothesesGrounded ==
    /\ \A h \in DOMAIN hypotheses :
          LET attempt == attempts[hypotheses[h].attempt]
          IN  /\ attempt.reply = "sound"
              /\ attempt.sources = hypotheses[h].sources
              /\ CasesOf(attempt.sources) = {hypotheses[h].case}
    /\ \A g, h \in DOMAIN hypotheses : hypotheses[g].attempt = hypotheses[h].attempt => g = h

\* After the safety exit of a case nothing interprets any of its captures, cited alone, through
\* a correction or among a cohort, and an interpretation made before the exit grounds no
\* hypothesis after it (services.py:74-86, 196-202).
ClosedAfterExit ==
    [][\A case \in CasesOf(exits) :
          /\ \A t \in DOMAIN attempts' \ DOMAIN attempts :
                case \in CasesOf(attempts'[t].sources) =>
                    /\ attempts'[t].reply = "not_called"
                    /\ attempts'[t].disposition = "restricted_safety_escalation"
          /\ \A h \in DOMAIN hypotheses' \ DOMAIN hypotheses : hypotheses'[h].case # case]_vars
=============================================================================
