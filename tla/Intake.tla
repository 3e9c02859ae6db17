------------------------------- MODULE Intake -------------------------------
(***************************************************************************)
(* Source evidence (intake_provenance/services.py): CSV imports, their     *)
(* replays and conflicts, the safety gate, corrections.  An import looks   *)
(* for an earlier batch of the same source version outside the transaction *)
(* that stores its own, so imports interleave between the two; the unique  *)
(* key of the batch table is what the second one then runs into.           *)
(* A submitted file is [manifest, valid, version, body]: the identity of   *)
(* its manifest, whether that passes, the source version it names and its  *)
(* content, [readable, rows].  A row is [learner, wellFormed, statement,   *)
(* direct]: statement is "ordinary", "sensitive" (medical or welfare       *)
(* words) or "unsafe"; direct tells of a direct identifier in some field.  *)
(***************************************************************************)
EXTENDS Naturals, Sequences, FiniteSets

CONSTANTS Files,            \* the files that may be submitted
          Importers,        \* processes that import one file each
          MaxCorrections    \* bound: captures that correct another

\* The rows of a file are numbered from one.
ASSUME RowsAreNumbered ==
    \A file \in Files : /\ file.valid \in BOOLEAN
                        /\ Len(file.body.rows) \in Nat
                        /\ DOMAIN file.body.rows = 1..Len(file.body.rows)

VARIABLES importing,        \* what each importer is doing, with its answer
          batches,          \* stored batches, append-only
          captures,         \* source captures, append-only
          exits             \* captures with a restricted safety exit

intakeVars == <<importing, batches, captures, exits>>

-----------------------------------------------------------------------------
(* What a file is stored as                                                *)

\* _manifest_digest and the batch metadata: a rejected manifest is its own source version.
Key(file) == IF file.valid THEN <<"source", file.version>> ELSE <<"rejected", file.manifest>>

\* What _process_row refuses of a row by itself, sensitive content other than an unsafe
\* statement included.
Unfit(row) == ~row.wellFormed \/ row.direct \/ row.statement = "sensitive"

\* Fault: only accepted rows count for duplicates.
FaultQuarantinedNotSeen(rows, n) ==
    \E m \in 1..(n - 1) : /\ rows[m].learner = rows[n].learner
                          /\ ~Unfit(rows[m]) /\ rows[m].statement = "ordinary"

\* seen_identifiers: a row of the learner was kept, and the first fit one is.
Repeated(rows, n) ==
    \E m \in 1..(n - 1) : rows[m].learner = rows[n].learner /\ ~Unfit(rows[m])

\* The outcome of each row.
RowStatuses(rows) ==
    [n \in DOMAIN rows |->
        IF Unfit(rows[n]) \/ Repeated(rows, n) THEN "rejected"
        ELSE IF rows[n].statement = "unsafe" THEN "quarantined"
        ELSE "accepted"]

\* Row zero stands for a file rejected as a whole.
Results(file) ==
    IF file.valid /\ file.body.readable THEN RowStatuses(file.body.rows) ELSE <<"file_rejected">>

\* The rows that are kept, and the place of one among them.
KeptRows(results) == {n \in DOMAIN results : results[n] \in {"accepted", "quarantined"}}

Place(kept, n) == Cardinality({m \in kept : m <= n})

\* One new case with one capture for each row that is kept, in the order of the file.
NewCaptures(file, results) ==
    [i \in 1..Cardinality(KeptRows(results)) |->
        LET n == CHOOSE n \in KeptRows(results) : Place(KeptRows(results), n) = i
        IN  [case |-> Len(captures) + i, learner |-> file.body.rows[n].learner,
             batch |-> Len(batches) + 1, row |-> n, supersedes |-> 0]]

\* Fault: the exit names the row where it should name the capture.
FaultExitNamesRow(results) ==
    {Len(captures) + n : n \in {m \in DOMAIN results : results[m] = "quarantined"}}

NewExits(results) ==
    {Len(captures) + Place(KeptRows(results), n) :
        n \in {m \in DOMAIN results : results[m] = "quarantined"}}

-----------------------------------------------------------------------------
(* Importing                                                               *)

NotStarted == [phase |-> "idle"]
Storing(file) == [phase |-> "storing", file |-> file]
Answered(file, answer) == [phase |-> "answered", file |-> file, answer |-> answer]

IntakeInit ==
    /\ importing = [i \in Importers |-> NotStarted]
    /\ batches = <<>>
    /\ captures = <<>>
    /\ exits = {}

Stored(file) == {b \in DOMAIN batches : batches[b].key = Key(file)}

\* Fault: only the submitted bytes are compared.
FaultManifestNotCompared(b, file) == batches[b].body = file.body

\* _replay_matches: the same bytes under the same manifest.
ReplayMatches(b, file) == batches[b].body = file.body /\ batches[b].manifest = file.manifest

\* The look for an earlier batch; it answers at once when there is one.
Submit(i, file) ==
    /\ importing[i] = NotStarted
    /\ \/ /\ Stored(file) = {}
          /\ importing' = [importing EXCEPT ![i] = Storing(file)]
       \/ \E b \in Stored(file) :
             importing' = [importing EXCEPT ![i] =
                Answered(file, IF ReplayMatches(b, file) THEN <<"replayed", b>> ELSE <<"conflict">>)]
    /\ UNCHANGED <<batches, captures, exits>>

\* Fault: the batch table has no unique key.
FaultNoUniqueKey(file) == TRUE

\* The unique constraint on the source label and version.
KeyIsFree(file) == Stored(file) = {}

\* The transaction that stores the batch and everything that follows from its rows.
Store(i) ==
    LET file == importing[i].file
        results == Results(file)
    IN  /\ importing[i].phase = "storing"
        /\ IF KeyIsFree(file)
           THEN /\ batches' = Append(batches, [key |-> Key(file), manifest |-> file.manifest,
                                               body |-> file.body, results |-> results])
                /\ captures' = captures \o NewCaptures(file, results)
                /\ exits' = exits \cup NewExits(results)
                /\ importing' = [importing EXCEPT ![i] =
                                    Answered(file, <<"imported", Len(batches) + 1>>)]
           ELSE /\ importing' = [importing EXCEPT ![i] = Answered(file, <<"failed">>)]
                /\ UNCHANGED <<batches, captures, exits>>

-----------------------------------------------------------------------------
(* Corrections and the safety exits of later signals                       *)

CaseExited(case) == \E x \in exits : captures[x].case = case

\* CaptureService.correct: a new capture of the same case; any capture may be corrected.
Correct(k) ==
    /\ Cardinality({j \in DOMAIN captures : captures[j].supersedes # 0}) < MaxCorrections
    /\ captures' = Append(captures, [captures[k] EXCEPT !.supersedes = k])
    /\ UNCHANGED <<importing, batches, exits>>

\* CaptureService.record_safety_exit: one for a case.
RecordSafetyExit(k) ==
    /\ ~CaseExited(captures[k].case)
    /\ exits' = exits \cup {k}
    /\ UNCHANGED <<importing, batches, captures>>

IntakeNext ==
    \/ \E i \in Importers : Store(i) \/ \E file \in Files : Submit(i, file)
    \/ \E k \in DOMAIN captures : Correct(k) \/ RecordSafetyExit(k)

-----------------------------------------------------------------------------
(* Properties                                                              *)

\* However imports of one source version race, replay or conflict, it enters the evidence once:
\* one batch, and one case for each of its rows (services.py:99-116, models.py:129-134).
VersionEntersOnce ==
    /\ \A b, d \in DOMAIN batches : batches[b].key = batches[d].key => b = d
    /\ \A j, k \in DOMAIN captures :
          /\ captures[j].supersedes = 0 /\ captures[k].supersedes = 0
          /\ captures[j].row = captures[k].row
          /\ batches[captures[j].batch].key = batches[captures[k].batch].key
          => j = k

\* A file brings a learner in at most once, the quarantined row of the learner included, and an
\* unsafe statement never starts an ordinary case (services.py:238-290).
RowsKeptApart ==
    /\ \A j, k \in DOMAIN captures :
          /\ captures[j].supersedes = 0 /\ captures[k].supersedes = 0
          /\ captures[j].batch = captures[k].batch /\ captures[j].learner = captures[k].learner
          => j = k
    /\ \A k \in DOMAIN captures :
          batches[captures[k].batch].body.rows[captures[k].row].statement = "unsafe"
            => CaseExited(captures[k].case)

\* An importer is told of the batch its own bytes and manifest made, or of no batch at all: no
\* answer, raced or replayed, reports the rows of another submission (services.py:99-116, 209).
AnsweredForOwnFile ==
    \A i \in Importers :
        importing[i].phase = "answered" /\ importing[i].answer[1] \in {"imported", "replayed"} =>
            LET batch == batches[importing[i].answer[2]]
            IN  /\ batch.manifest = importing[i].file.manifest
                /\ batch.results = Results(importing[i].file)
=============================================================================
