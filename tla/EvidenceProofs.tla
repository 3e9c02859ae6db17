--------------------------- MODULE EvidenceProofs ---------------------------
(***************************************************************************)
(* Evidence and its interpretation, for any files, importers, tasks and    *)
(* bounds.  Everything rests on the tables being append-only: what a row   *)
(* points at stays what it was when the row was stored.                    *)
(***************************************************************************)
EXTENDS AiGateway, SequenceTheorems, FiniteSetTheorems, TLAPS

\* A sequence, of whatever it holds.
IsSeq(s) == s \in Seq({s[k] : k \in DOMAIN s})

\* t is s with rows added at the end.
Extends(t, s) == DOMAIN s \subseteq DOMAIN t /\ \A k \in DOMAIN s : t[k] = s[k]

LEMMA SeqDomain == ASSUME NEW s, IsSeq(s) PROVE Len(s) \in Nat /\ DOMAIN s = 1..Len(s)
  BY LenProperties DEF IsSeq

LEMMA EmptyIsSeq == IsSeq(<<>>)
  BY DEF IsSeq

LEMMA TypedIsSeq == ASSUME NEW S, NEW s \in Seq(S) PROVE IsSeq(s)
<1>1. Len(s) \in Nat /\ DOMAIN s = 1..Len(s) /\ s = [k \in 1..Len(s) |-> s[k]]
  BY LenProperties
<1>2. s \in [1..Len(s) -> {s[k] : k \in DOMAIN s}]
  BY <1>1
<1> QED BY <1>1, <1>2, SeqDef DEF IsSeq

\* Appending one row.
LEMMA AppendExtends ==
    ASSUME NEW s, IsSeq(s), NEW e
    PROVE  /\ IsSeq(Append(s, e)) /\ Extends(Append(s, e), s)
           /\ DOMAIN Append(s, e) = 1..(Len(s) + 1)
           /\ Append(s, e)[Len(s) + 1] = e
<1> DEFINE S == {s[k] : k \in DOMAIN s} \cup {e}
<1>1. s \in Seq(S) /\ e \in S
  BY SeqDomain, SeqDef DEF IsSeq
<1>2. Append(s, e) \in Seq(S) /\ Len(Append(s, e)) = Len(s) + 1
  <2> HIDE DEF S
  <2> QED BY <1>1, AppendProperties
<1>3. DOMAIN Append(s, e) = 1..(Len(s) + 1)
  BY <1>2, LenProperties
<1>4. /\ \A k \in 1..Len(s) : Append(s, e)[k] = s[k]
      /\ Append(s, e)[Len(s) + 1] = e
  <2> HIDE DEF S
  <2> QED BY <1>1, AppendProperties
<1>5. IsSeq(Append(s, e))
  <2> HIDE DEF S
  <2> QED BY <1>2, TypedIsSeq
<1> QED BY <1>3, <1>4, <1>5, SeqDomain DEF Extends

\* Appending any number of rows.
LEMMA ConcatExtends ==
    ASSUME NEW s, IsSeq(s), NEW t, IsSeq(t)
    PROVE  /\ IsSeq(s \o t) /\ Extends(s \o t, s)
           /\ DOMAIN (s \o t) = 1..(Len(s) + Len(t))
           /\ \A i \in 1..Len(t) : (s \o t)[Len(s) + i] = t[i]
<1> DEFINE S == {s[k] : k \in DOMAIN s} \cup {t[k] : k \in DOMAIN t}
<1>1. s \in Seq(S) /\ t \in Seq(S)
  BY SeqDomain, SeqDef DEF IsSeq
<1>2. Len(s) \in Nat /\ Len(t) \in Nat /\ DOMAIN s = 1..Len(s)
  BY SeqDomain
<1>3. s \o t \in Seq(S) /\ Len(s \o t) = Len(s) + Len(t)
  <2> HIDE DEF S
  <2> QED BY <1>1, ConcatProperties
<1>4. \A i \in 1..(Len(s) + Len(t)) : (s \o t)[i] = IF i <= Len(s) THEN s[i] ELSE t[i - Len(s)]
  <2> HIDE DEF S
  <2> QED BY <1>1, ConcatProperties
<1>5. DOMAIN (s \o t) = 1..(Len(s) + Len(t))
  BY <1>3, LenProperties
<1>6. \A i \in 1..Len(t) : (s \o t)[Len(s) + i] = t[i]
  BY <1>2, <1>4
<1>7. IsSeq(s \o t)
  <2> HIDE DEF S
  <2> QED BY <1>3, TypedIsSeq
<1>8. Extends(s \o t, s)
  BY <1>2, <1>4, <1>5 DEF Extends
<1> QED BY <1>5, <1>6, <1>7, <1>8

-----------------------------------------------------------------------------
(* What an import adds                                                     *)

LEMMA ResultsFinite ==
    ASSUME NEW file \in Files
    PROVE  IsFiniteSet(DOMAIN Results(file)) /\ DOMAIN Results(file) \subseteq Nat
<1>1. CASE file.valid /\ file.body.readable
  <2>1. DOMAIN Results(file) = 1..Len(file.body.rows)
    BY <1>1, RowsAreNumbered DEF Results, RowStatuses
  <2> QED BY <2>1, RowsAreNumbered, FS_Interval
<1>2. CASE ~(file.valid /\ file.body.readable)
  <2>1. DOMAIN Results(file) = {1}
    BY <1>2 DEF Results
  <2> QED BY <2>1, FS_Singleton
<1> QED BY <1>1, <1>2

\* The places of the rows that are kept number them from one.
LEMMA KeptPlaced ==
    ASSUME NEW kept \in SUBSET Nat, IsFiniteSet(kept)
    PROVE  /\ Cardinality(kept) \in Nat
           /\ \A n \in kept : Place(kept, n) \in 1..Cardinality(kept)
           /\ \A m, n \in kept : Place(kept, m) = Place(kept, n) => m = n
           /\ \A i \in 1..Cardinality(kept) : \E n \in kept : Place(kept, n) = i
<1> DEFINE upTo(n) == {m \in kept : m <= n}
           c == Cardinality(kept)
<1>1. c \in Nat
  BY FS_CardinalityType
<1>2. ASSUME NEW n \in kept
      PROVE  /\ IsFiniteSet(upTo(n)) /\ Cardinality(upTo(n)) \in Nat
             /\ Place(kept, n) = Cardinality(upTo(n)) /\ Place(kept, n) \in 1..c
  <2>1. upTo(n) \in SUBSET kept /\ n \in upTo(n)
    OBVIOUS
  <2>2. Place(kept, n) = Cardinality(upTo(n))
    BY DEF Place
  <2> HIDE DEF upTo
  <2>3. IsFiniteSet(upTo(n)) /\ Cardinality(upTo(n)) \in Nat /\ Cardinality(upTo(n)) <= c
    BY <2>1, FS_Subset, FS_CardinalityType
  <2>4. Cardinality(upTo(n)) # 0
    BY <2>1, <2>3, FS_EmptySet
  <2> HIDE DEF c
  <2> QED BY <1>1, <2>2, <2>3, <2>4
<1>3. ASSUME NEW m \in kept, NEW n \in kept, m < n PROVE Place(kept, m) # Place(kept, n)
  <2>1. upTo(m) \in SUBSET upTo(n) /\ n \in upTo(n) /\ n \notin upTo(m)
    <3>1. \A x \in kept : x \in Nat
      OBVIOUS
    <3>2. \A x \in kept : x <= m => x <= n
      BY <1>3, <3>1
    <3>3. n <= n /\ ~(n <= m)
      BY <1>3, <3>1
    <3> QED BY <3>2, <3>3
  <2> HIDE DEF upTo
  <2>2. IsFiniteSet(upTo(n)) /\ upTo(m) # upTo(n)
    BY <1>2, <2>1
  <2>3. Cardinality(upTo(m)) # Cardinality(upTo(n))
    BY <2>1, <2>2, FS_Subset
  <2> QED BY <1>2, <2>3
<1>4. \A m, n \in kept : Place(kept, m) = Place(kept, n) => m = n
  <2>1. ASSUME NEW m \in kept, NEW n \in kept, m # n PROVE m < n \/ n < m
    BY <2>1
  <2> QED BY <1>3, <2>1
<1>5. \A i \in 1..c : \E n \in kept : Place(kept, n) = i
  <2> DEFINE f == [n \in kept |-> Place(kept, n)]
  <2>1. f \in Injection(kept, 1..c)
    <3>1. f \in [kept -> 1..c]
      BY <1>2
    <3>2. \A m, n \in kept : f[m] = f[n] => m = n
      BY <1>4
    <3> HIDE DEF f
    <3> QED BY <3>1, <3>2 DEF Injection, IsInjective
  <2>2. IsFiniteSet(1..c) /\ Cardinality(1..c) = c
    <3> HIDE DEF c
    <3> QED BY <1>1, FS_Interval
  <2>3. f \in Surjection(kept, 1..c)
    <3> HIDE DEF f
    <3> QED BY <2>1, <2>2, FS_Injection DEF c
  <2>4. \A i \in 1..c : \E n \in kept : f[n] = i
    <3> HIDE DEF f
    <3> QED BY <2>3 DEF Surjection
  <2> QED BY <2>4
<1> QED BY <1>1, <1>2, <1>4, <1>5

LEMMA KeptCounted ==
    ASSUME NEW file \in Files
    PROVE  LET kept == KeptRows(Results(file))
           IN  /\ Cardinality(kept) \in Nat
               /\ \A n \in kept : Place(kept, n) \in 1..Cardinality(kept)
               /\ \A m, n \in kept : Place(kept, m) = Place(kept, n) => m = n
               /\ \A i \in 1..Cardinality(kept) : \E n \in kept : Place(kept, n) = i
<1> DEFINE kept == KeptRows(Results(file))
<1>1. IsFiniteSet(kept) /\ kept \in SUBSET Nat
  BY ResultsFinite, FS_Subset DEF KeptRows
<1> HIDE DEF kept
<1>2. /\ Cardinality(kept) \in Nat
      /\ \A n \in kept : Place(kept, n) \in 1..Cardinality(kept)
      /\ \A m, n \in kept : Place(kept, m) = Place(kept, n) => m = n
      /\ \A i \in 1..Cardinality(kept) : \E n \in kept : Place(kept, n) = i
  BY <1>1, KeptPlaced
<1> QED BY <1>2 DEF kept

-----------------------------------------------------------------------------
(* The invariant                                                           *)

\* The batch a file is stored as.
BatchOf(file) == [key |-> Key(file), manifest |-> file.manifest, body |-> file.body,
                  results |-> Results(file)]

BatchesOK == IsSeq(batches) /\ \A b \in DOMAIN batches : \E file \in Files : batches[b] = BatchOf(file)

IsCapture(c) == c = [case |-> c.case, learner |-> c.learner, batch |-> c.batch, row |-> c.row,
                     supersedes |-> c.supersedes]

CapturesOK ==
    /\ IsSeq(captures)
    /\ \A k \in DOMAIN captures : /\ IsCapture(captures[k])
                                  /\ captures[k].batch \in DOMAIN batches
                                  /\ captures[k].supersedes \in 0..(k - 1)
                                  /\ captures[k].case \in DOMAIN captures
    /\ exits \subseteq DOMAIN captures

\* An answer that names a batch names the one the importer's own file is stored as.
OwnAnswer(file, answer) ==
    answer[1] \in {"imported", "replayed"} =>
        answer[2] \in DOMAIN batches /\ batches[answer[2]] = BatchOf(file)

ImporterOK(r) ==
    \/ r = NotStarted
    \/ r.file \in Files /\ r = Storing(r.file)
    \/ r.file \in Files /\ r = Answered(r.file, r.answer) /\ OwnAnswer(r.file, r.answer)

ImportersOK ==
    /\ DOMAIN importing = Importers
    /\ \A i \in Importers : ImporterOK(importing[i])

AttemptsOK ==
    /\ IsSeq(attempts)
    /\ \A t \in DOMAIN attempts : /\ attempts[t].sources \subseteq DOMAIN captures
                                  /\ attempts[t].task \in TaskKinds
                                  /\ attempts[t].reply \in AdapterReplies \cup {"not_called"}
                                  /\ attempts[t].disposition = "provisional_output" =>
                                         attempts[t].reply = "sound"

Grounded(h) ==
    LET attempt == attempts[hypotheses[h].attempt]
    IN  /\ hypotheses[h].attempt \in DOMAIN attempts
        /\ attempt.reply = "sound"
        /\ attempt.sources = hypotheses[h].sources
        /\ CasesOf(attempt.sources) = {hypotheses[h].case}

HypothesesOK ==
    /\ IsSeq(hypotheses)
    /\ \A h \in DOMAIN hypotheses : Grounded(h)
    /\ \A g, h \in DOMAIN hypotheses : hypotheses[g].attempt = hypotheses[h].attempt => g = h

Inv == BatchesOK /\ CapturesOK /\ ImportersOK /\ AttemptsOK /\ HypothesesOK

LEMMA InitInv == Init => Inv
<1> SUFFICES ASSUME Init PROVE Inv
  OBVIOUS
<1>1. BatchesOK /\ CapturesOK
  BY EmptyIsSeq DEF Init, IntakeInit, BatchesOK, CapturesOK
<1>2. ImportersOK
  BY DEF Init, IntakeInit, ImportersOK, ImporterOK, NotStarted
<1>3. AttemptsOK /\ HypothesesOK
  BY EmptyIsSeq DEF Init, AttemptsOK, HypothesesOK
<1> QED BY <1>1, <1>2, <1>3 DEF Inv

-----------------------------------------------------------------------------
(* What was stored keeps its meaning                                       *)

\* Captures keep their case.
LEMMA CasesStay ==
    ASSUME Extends(captures', captures), NEW sources \in SUBSET DOMAIN captures
    PROVE  CasesOf(sources)' = CasesOf(sources)
  BY DEF CasesOf, Extends

LEMMA GroundedStays ==
    ASSUME AttemptsOK, HypothesesOK, Extends(captures', captures), Extends(attempts', attempts),
           NEW h \in DOMAIN hypotheses, hypotheses'[h] = hypotheses[h]
    PROVE  Grounded(h)'
<1>1. PICK a, sources : a = hypotheses[h].attempt /\ sources = attempts[a].sources
  OBVIOUS
<1>2. /\ a \in DOMAIN attempts /\ attempts[a].reply = "sound" /\ sources = hypotheses[h].sources
      /\ CasesOf(sources) = {hypotheses[h].case} /\ sources \subseteq DOMAIN captures
  BY <1>1 DEF HypothesesOK, Grounded, AttemptsOK
<1>3. CasesOf(sources)' = CasesOf(sources)
  BY <1>2, CasesStay
<1>4. a \in DOMAIN attempts' /\ attempts'[a] = attempts[a]
  BY <1>2 DEF Extends
<1> QED BY <1>1, <1>2, <1>3, <1>4 DEF Grounded

LEMMA InterpretationsStay ==
    ASSUME AttemptsOK, HypothesesOK, Extends(captures', captures), UNCHANGED <<attempts, hypotheses>>
    PROVE  AttemptsOK' /\ HypothesesOK'
<1>1. AttemptsOK'
  BY DEF AttemptsOK, Extends
<1>2. ASSUME NEW h \in DOMAIN hypotheses PROVE Grounded(h)'
  BY GroundedStays DEF Extends
<1>3. HypothesesOK'
  BY <1>2 DEF HypothesesOK
<1> QED BY <1>1, <1>3

\* An answer given stays right when a batch is stored.
LEMMA ImporterStays ==
    ASSUME Extends(batches', batches), NEW i \in Importers, ImporterOK(importing[i]),
           importing'[i] = importing[i]
    PROVE  ImporterOK(importing[i])'
  BY DEF ImporterOK, OwnAnswer, Extends, BatchOf

-----------------------------------------------------------------------------
(* The steps                                                               *)

LEMMA SameBatch ==
    ASSUME NEW file \in Files, NEW other \in Files, Key(other) = Key(file),
           other.manifest = file.manifest, other.body = file.body
    PROVE  BatchOf(other) = BatchOf(file)
<1>1. other.valid = file.valid
  BY RowsAreNumbered DEF Key
<1> QED BY <1>1 DEF BatchOf, Results

LEMMA SubmitInv ==
    ASSUME Inv, NEW i \in Importers, NEW file \in Files, Submit(i, file),
           UNCHANGED <<attempts, hypotheses>>
    PROVE  Inv'
<1>1. UNCHANGED <<batches, captures, exits>>
  BY DEF Submit
<1>2. ImporterOK(importing[i])'
  <2>1. CASE importing' = [importing EXCEPT ![i] = Storing(file)]
    <3>1. importing'[i] = Storing(file)
      BY <2>1 DEF Inv, ImportersOK
    <3> QED BY <3>1 DEF ImporterOK, Storing
  <2>2. ASSUME NEW b \in Stored(file), NEW answer,
               answer = IF ReplayMatches(b, file) THEN <<"replayed", b>> ELSE <<"conflict">>,
               importing' = [importing EXCEPT ![i] = Answered(file, answer)]
        PROVE  ImporterOK(importing[i])'
    <3>1. importing'[i] = Answered(file, answer)
      BY <2>2 DEF Inv, ImportersOK
    <3>2. b \in DOMAIN batches /\ batches[b].key = Key(file)
      BY DEF Stored
    <3>3. CASE ReplayMatches(b, file)
      <4>1. PICK other \in Files : batches[b] = BatchOf(other)
        BY <3>2 DEF Inv, BatchesOK
      <4>2. BatchOf(other) = BatchOf(file)
        <5>1. Key(other) = Key(file) /\ other.manifest = file.manifest /\ other.body = file.body
          BY <3>2, <3>3, <4>1 DEF BatchOf, ReplayMatches
        <5> QED BY <5>1, SameBatch
      <4>3. OwnAnswer(file, answer)'
        BY <1>1, <2>2, <3>2, <3>3, <4>1, <4>2 DEF OwnAnswer, BatchOf
      <4> QED BY <3>1, <4>3 DEF ImporterOK, Answered
    <3>4. CASE ~ReplayMatches(b, file)
      <4>1. OwnAnswer(file, answer)'
        BY <2>2, <3>4 DEF OwnAnswer
      <4> QED BY <3>1, <4>1 DEF ImporterOK, Answered
    <3> QED BY <3>3, <3>4
  <2> QED BY <2>1, <2>2 DEF Submit
<1>3. /\ DOMAIN importing' = Importers
      /\ \A j \in Importers \ {i} : importing'[j] = importing[j]
  BY DEF Submit, Inv, ImportersOK
<1>4. ImportersOK'
  BY <1>1, <1>2, <1>3 DEF Inv, ImportersOK, ImporterOK, OwnAnswer
<1>5. BatchesOK' /\ CapturesOK'
  BY <1>1 DEF Inv, BatchesOK, CapturesOK
<1>6. AttemptsOK' /\ HypothesesOK'
  BY <1>1, InterpretationsStay DEF Inv, Extends
<1> QED BY <1>4, <1>5, <1>6 DEF Inv

\* The captures a file brings come after those that are there, one for each row that is kept.
LEMMA NewCapturesAdded ==
    ASSUME Inv, NEW file \in Files, captures' = captures \o NewCaptures(file, Results(file))
    PROVE  LET kept == KeptRows(Results(file))
           IN  /\ Len(captures) \in Nat /\ DOMAIN captures = 1..Len(captures)
               /\ IsSeq(captures') /\ Extends(captures', captures)
               /\ DOMAIN captures' = 1..(Len(captures) + Cardinality(kept))
               /\ \A i \in 1..Cardinality(kept) :
                     \E n \in kept :
                        /\ Place(kept, n) = i
                        /\ captures'[Len(captures) + i] =
                              [case |-> Len(captures) + i, learner |-> file.body.rows[n].learner,
                               batch |-> Len(batches) + 1, row |-> n, supersedes |-> 0]
<1> DEFINE kept == KeptRows(Results(file))
           new == NewCaptures(file, Results(file))
<1>1. Len(captures) \in Nat /\ DOMAIN captures = 1..Len(captures) /\ IsSeq(captures)
  BY SeqDomain DEF Inv, CapturesOK
<1>2. /\ Cardinality(kept) \in Nat
      /\ \A i \in 1..Cardinality(kept) : \E n \in kept : Place(kept, n) = i
  BY KeptCounted
<1>3. new \in Seq({new[n] : n \in DOMAIN new}) /\ DOMAIN new = 1..Cardinality(kept)
  <2>1. DOMAIN new = 1..Cardinality(kept) /\ new = [n \in 1..Cardinality(kept) |-> new[n]]
    BY DEF NewCaptures
  <2> DEFINE c == Cardinality(kept)
             values == {new[n] : n \in DOMAIN new}
  <2> HIDE DEF new, kept
  <2>2. new \in [1..c -> values] /\ c \in Nat
    BY <1>2, <2>1
  <2>3. new \in Seq(values)
    <3> HIDE DEF c, values
    <3> QED BY <2>2, SeqDef
  <2> QED BY <2>1, <2>3
<1>4. IsSeq(new) /\ Len(new) = Cardinality(kept)
  <2>1. IsSeq(new)
    BY <1>3 DEF IsSeq
  <2>2. Len(new) \in Nat /\ 1..Len(new) = 1..Cardinality(kept)
    <3> HIDE DEF new, kept
    <3> QED BY <2>1, <1>3, SeqDomain
  <2> HIDE DEF new, kept
  <2> QED BY <2>1, <2>2, <1>2
<1>5. /\ IsSeq(captures') /\ Extends(captures', captures)
      /\ DOMAIN captures' = 1..(Len(captures) + Cardinality(kept))
      /\ \A n \in 1..Cardinality(kept) : captures'[Len(captures) + n] = new[n]
  <2> HIDE DEF new, kept
  <2>1. captures' = captures \o new
    BY DEF new
  <2>2. /\ IsSeq(captures \o new) /\ Extends(captures \o new, captures)
        /\ DOMAIN (captures \o new) = 1..(Len(captures) + Len(new))
        /\ \A n \in 1..Len(new) : (captures \o new)[Len(captures) + n] = new[n]
    BY <1>1, <1>4, ConcatExtends
  <2> QED BY <1>4, <2>1, <2>2
<1>6. ASSUME NEW i \in 1..Cardinality(kept)
      PROVE  \E n \in kept :
                /\ Place(kept, n) = i
                /\ new[i] = [case |-> Len(captures) + i, learner |-> file.body.rows[n].learner,
                             batch |-> Len(batches) + 1, row |-> n, supersedes |-> 0]
  <2> DEFINE row == CHOOSE n \in kept : Place(kept, n) = i
  <2>1. row \in kept /\ Place(kept, row) = i
    BY <1>2
  <2>2. new[i] = [case |-> Len(captures) + i, learner |-> file.body.rows[row].learner,
                  batch |-> Len(batches) + 1, row |-> row, supersedes |-> 0]
    BY DEF NewCaptures
  <2> HIDE DEF row
  <2> QED BY <2>1, <2>2
<1> HIDE DEF new
<1> QED BY <1>1, <1>5, <1>6

\* The captures and the exits a file brings.
LEMMA NewCapturesOK ==
    ASSUME Inv, NEW file \in Files,
           batches' = Append(batches, BatchOf(file)),
           captures' = captures \o NewCaptures(file, Results(file)),
           exits' = exits \cup NewExits(Results(file))
    PROVE  CapturesOK' /\ Extends(captures', captures)
<1> DEFINE kept == KeptRows(Results(file))
<1>1. Len(batches) \in Nat /\ DOMAIN batches = 1..Len(batches)
      /\ DOMAIN batches' = 1..(Len(batches) + 1)
  BY SeqDomain, AppendExtends DEF Inv, BatchesOK
<1>2. Cardinality(kept) \in Nat
  BY KeptCounted
<1>3. /\ Len(captures) \in Nat /\ DOMAIN captures = 1..Len(captures)
      /\ IsSeq(captures') /\ Extends(captures', captures)
      /\ DOMAIN captures' = 1..(Len(captures) + Cardinality(kept))
  BY NewCapturesAdded
<1>4. ASSUME NEW i \in 1..Cardinality(kept)
      PROVE  LET capture == captures'[Len(captures) + i]
             IN  /\ IsCapture(capture) /\ capture.case = Len(captures) + i
                 /\ capture.batch = Len(batches) + 1 /\ capture.supersedes = 0
  <2>1. PICK n \in kept :
            captures'[Len(captures) + i] =
                [case |-> Len(captures) + i, learner |-> file.body.rows[n].learner,
                 batch |-> Len(batches) + 1, row |-> n, supersedes |-> 0]
    BY NewCapturesAdded
  <2> QED BY <2>1 DEF IsCapture
<1>5. ASSUME NEW k \in DOMAIN captures'
      PROVE  /\ IsCapture(captures'[k]) /\ captures'[k].batch \in DOMAIN batches'
             /\ captures'[k].supersedes \in 0..(k - 1) /\ captures'[k].case \in DOMAIN captures'
  <2> HIDE DEF kept
  <2>1. CASE k \in DOMAIN captures
    <3>1. captures'[k] = captures[k] /\ DOMAIN captures \subseteq DOMAIN captures'
      BY <1>3, <2>1 DEF Extends
    <3>2. DOMAIN batches \subseteq DOMAIN batches'
      BY <1>1
    <3> QED BY <2>1, <3>1, <3>2 DEF Inv, CapturesOK
  <2>2. CASE k \notin DOMAIN captures
    <3>1. PICK i \in 1..Cardinality(kept) : k = Len(captures) + i
      <4>1. k - Len(captures) \in 1..Cardinality(kept) /\ k = Len(captures) + (k - Len(captures))
        BY <1>2, <1>3, <2>2
      <4> QED BY <4>1
    <3>2. /\ IsCapture(captures'[k]) /\ captures'[k].case = k
          /\ captures'[k].batch = Len(batches) + 1 /\ captures'[k].supersedes = 0
      BY <1>4, <3>1
    <3> QED BY <1>1, <1>3, <3>1, <3>2
  <2> QED BY <2>1, <2>2
<1>6. exits' \subseteq DOMAIN captures'
  <2>1. ASSUME NEW n \in DOMAIN Results(file), Results(file)[n] = "quarantined"
        PROVE  Place(kept, n) \in 1..Cardinality(kept)
    BY <2>1, KeptCounted DEF KeptRows
  <2>2. NewExits(Results(file)) \subseteq (Len(captures) + 1)..(Len(captures) + Cardinality(kept))
    <3> HIDE DEF kept
    <3>1. ASSUME NEW x \in NewExits(Results(file))
          PROVE  \E n \in 1..Cardinality(kept) : x = Len(captures) + n
      BY <2>1 DEF NewExits, kept
    <3> QED BY <1>2, <1>3, <3>1
  <2>3. exits \subseteq DOMAIN captures
    BY DEF Inv, CapturesOK
  <2> HIDE DEF kept
  <2> QED BY <1>2, <1>3, <2>2, <2>3
<1> QED BY <1>3, <1>5, <1>6 DEF CapturesOK

LEMMA StoreInv ==
    ASSUME Inv, NEW i \in Importers, Store(i), UNCHANGED <<attempts, hypotheses>>
    PROVE  Inv'
<1> DEFINE file == importing[i].file
<1>1. file \in Files
  <2>1. importing[i].phase = "storing" /\ ImporterOK(importing[i])
    BY DEF Store, Inv, ImportersOK
  <2> QED BY <2>1 DEF ImporterOK, NotStarted
<1>2. /\ DOMAIN importing' = Importers
      /\ \A j \in Importers \ {i} : importing'[j] = importing[j]
  BY DEF Store, Inv, ImportersOK
<1>3. CASE KeyIsFree(file)
  <2>1. /\ batches' = Append(batches, BatchOf(file))
        /\ captures' = captures \o NewCaptures(file, Results(file))
        /\ exits' = exits \cup NewExits(Results(file))
    BY <1>3 DEF Store, BatchOf
  <2>2. importing'[i] = Answered(file, <<"imported", Len(batches) + 1>>)
    BY <1>3 DEF Store, Inv, ImportersOK
  <2>3. CapturesOK' /\ Extends(captures', captures)
    BY <1>1, <2>1, NewCapturesOK
  <2>4. /\ IsSeq(batches') /\ Extends(batches', batches)
        /\ Len(batches) \in Nat /\ DOMAIN batches = 1..Len(batches)
        /\ DOMAIN batches' = 1..(Len(batches) + 1)
        /\ batches'[Len(batches) + 1] = BatchOf(file)
    BY <2>1, AppendExtends, SeqDomain DEF Inv, BatchesOK
  <2> HIDE DEF file
  <2>5. BatchesOK'
    <3>1. ASSUME NEW b \in DOMAIN batches' PROVE \E f \in Files : batches'[b] = BatchOf(f)
      <4>1. b \in DOMAIN batches \/ b = Len(batches) + 1
        BY <2>4
      <4> QED BY <1>1, <2>4, <4>1 DEF Inv, BatchesOK, Extends
    <3> QED BY <2>4, <3>1 DEF BatchesOK, BatchOf
  <2>6. ImporterOK(importing[i])'
    BY <1>1, <2>2, <2>4 DEF ImporterOK, OwnAnswer, Answered, BatchOf
  <2>7. \A j \in Importers \ {i} : ImporterOK(importing[j])'
    BY <1>2, <2>4, ImporterStays DEF Inv, ImportersOK
  <2>8. ImportersOK'
    BY <1>2, <2>6, <2>7 DEF ImportersOK
  <2>9. AttemptsOK' /\ HypothesesOK'
    BY <2>3, InterpretationsStay DEF Inv
  <2> QED BY <2>3, <2>5, <2>8, <2>9 DEF Inv
<1>4. CASE ~KeyIsFree(file)
  <2>1. UNCHANGED <<batches, captures, exits>>
    BY <1>4 DEF Store
  <2>2. importing'[i] = Answered(file, <<"failed">>)
    BY <1>4 DEF Store, Inv, ImportersOK
  <2> HIDE DEF file
  <2>3. ImportersOK'
    BY <1>1, <1>2, <2>1, <2>2 DEF Inv, ImportersOK, ImporterOK, OwnAnswer, Answered
  <2>4. BatchesOK' /\ CapturesOK'
    BY <2>1 DEF Inv, BatchesOK, CapturesOK
  <2>5. AttemptsOK' /\ HypothesesOK'
    BY <2>1, InterpretationsStay DEF Inv, Extends
  <2> QED BY <2>3, <2>4, <2>5 DEF Inv
<1> QED BY <1>3, <1>4

LEMMA CorrectInv ==
    ASSUME Inv, NEW k \in DOMAIN captures, Correct(k), UNCHANGED <<attempts, hypotheses>>
    PROVE  Inv'
<1> DEFINE copy == [captures[k] EXCEPT !.supersedes = k]
<1>1. captures' = Append(captures, copy) /\ UNCHANGED <<importing, batches, exits>>
  BY DEF Correct
<1>2. /\ IsCapture(copy) /\ copy.supersedes = k /\ copy.batch = captures[k].batch
      /\ copy.case = captures[k].case
  <2>1. IsCapture(captures[k])
    BY DEF Inv, CapturesOK
  <2> QED BY <2>1 DEF IsCapture
<1> HIDE DEF copy
<1>3. /\ IsSeq(captures') /\ Extends(captures', captures)
      /\ Len(captures) \in Nat /\ DOMAIN captures = 1..Len(captures)
      /\ DOMAIN captures' = 1..(Len(captures) + 1)
      /\ captures'[Len(captures) + 1] = copy
  BY <1>1, AppendExtends, SeqDomain DEF Inv, CapturesOK
<1>4. ASSUME NEW j \in DOMAIN captures'
      PROVE  /\ IsCapture(captures'[j]) /\ captures'[j].batch \in DOMAIN batches'
             /\ captures'[j].supersedes \in 0..(j - 1) /\ captures'[j].case \in DOMAIN captures'
  <2>1. CASE j \in DOMAIN captures
    <3>1. captures'[j] = captures[j] /\ DOMAIN captures \subseteq DOMAIN captures'
      BY <1>3, <2>1 DEF Extends
    <3> QED BY <1>1, <2>1, <3>1 DEF Inv, CapturesOK
  <2>2. CASE j \notin DOMAIN captures
    <3>1. j = Len(captures) + 1 /\ captures'[j] = copy
      BY <1>3, <2>2
    <3>2. captures[k].batch \in DOMAIN batches /\ captures[k].case \in DOMAIN captures
      BY DEF Inv, CapturesOK
    <3>3. k \in 0..(j - 1)
      BY <1>3, <3>1
    <3> QED BY <1>1, <1>2, <1>3, <3>1, <3>2, <3>3
  <2> QED BY <2>1, <2>2
<1>5. CapturesOK'
  BY <1>1, <1>3, <1>4 DEF CapturesOK, Inv
<1>6. BatchesOK' /\ ImportersOK'
  BY <1>1 DEF Inv, BatchesOK, ImportersOK, ImporterOK, OwnAnswer
<1>7. AttemptsOK' /\ HypothesesOK'
  BY <1>3, InterpretationsStay DEF Inv
<1> QED BY <1>5, <1>6, <1>7 DEF Inv

LEMMA SafetyExitInv ==
    ASSUME Inv, NEW k \in DOMAIN captures, RecordSafetyExit(k), UNCHANGED <<attempts, hypotheses>>
    PROVE  Inv'
<1>1. UNCHANGED <<importing, batches, captures>> /\ exits' = exits \cup {k}
  BY DEF RecordSafetyExit
<1>2. BatchesOK' /\ ImportersOK' /\ CapturesOK'
  BY <1>1 DEF Inv, BatchesOK, ImportersOK, ImporterOK, OwnAnswer, CapturesOK
<1>3. AttemptsOK' /\ HypothesesOK'
  BY <1>1, InterpretationsStay DEF Inv, Extends
<1> QED BY <1>2, <1>3 DEF Inv

LEMMA InterpretInv ==
    ASSUME Inv, NEW task \in TaskKinds, NEW sources \in SourceSets, NEW valid \in BOOLEAN,
           NEW reply \in AdapterReplies, Interpret(task, sources, valid, reply)
    PROVE  Inv'
<1> DEFINE called == ~Restricted(sources) /\ valid
           row == [task |-> task, sources |-> sources,
                   reply |-> IF called THEN reply ELSE "not_called",
                   disposition |-> IF Restricted(sources) THEN "restricted_safety_escalation"
                                   ELSE IF called THEN DispositionOf[reply] ELSE "adapter_error"]
<1>1. attempts' = Append(attempts, row) /\ UNCHANGED <<importing, batches, captures, exits, hypotheses>>
  BY DEF Interpret, intakeVars
<1>2. row.sources \subseteq DOMAIN captures /\ row.task \in TaskKinds
      /\ row.reply \in AdapterReplies \cup {"not_called"}
  BY DEF SourceSets
<1>3. row.disposition = "provisional_output" => row.reply = "sound"
  <2>1. DispositionOf[reply] = "provisional_output" => reply = "sound"
    BY RepliesHaveDispositions DEF DispositionOf
  <2> QED BY <2>1
<1> HIDE DEF row
<1>4. /\ IsSeq(attempts') /\ Extends(attempts', attempts)
      /\ Len(attempts) \in Nat /\ DOMAIN attempts = 1..Len(attempts)
      /\ DOMAIN attempts' = 1..(Len(attempts) + 1)
      /\ attempts'[Len(attempts) + 1] = row
  BY <1>1, AppendExtends, SeqDomain DEF Inv, AttemptsOK
<1>5. AttemptsOK'
  <2>1. \A t \in DOMAIN attempts' : \/ t \in DOMAIN attempts /\ attempts'[t] = attempts[t]
                                   \/ attempts'[t] = row
    BY <1>4 DEF Extends
  <2> QED BY <1>1, <1>2, <1>3, <1>4, <2>1 DEF Inv, AttemptsOK
<1>6. HypothesesOK'
  <2>1. \A h \in DOMAIN hypotheses : Grounded(h)'
    BY <1>1, <1>4, GroundedStays DEF Inv, Extends
  <2> QED BY <1>1, <2>1 DEF Inv, HypothesesOK
<1>7. BatchesOK' /\ ImportersOK' /\ CapturesOK'
  BY <1>1 DEF Inv, BatchesOK, ImportersOK, ImporterOK, OwnAnswer, CapturesOK
<1> QED BY <1>5, <1>6, <1>7 DEF Inv

LEMMA RecordHypothesisInv ==
    ASSUME Inv, NEW t \in DOMAIN attempts, NEW sources \in SourceSets, RecordHypothesis(t, sources)
    PROVE  Inv'
<1> DEFINE row == [attempt |-> t, sources |-> sources,
                   case |-> CHOOSE case \in CasesOf(sources) : TRUE]
<1>1. hypotheses' = Append(hypotheses, row)
      /\ UNCHANGED <<importing, batches, captures, exits, attempts>>
  BY DEF RecordHypothesis, intakeVars
<1>2. CasesOf(sources) = {row.case}
  <2>1. CasesOf(sources) \subseteq DOMAIN captures
    BY DEF CasesOf, SourceSets, Inv, CapturesOK
  <2>2. IsFiniteSet(DOMAIN captures)
    <3>1. Len(captures) \in Nat /\ DOMAIN captures = 1..Len(captures)
      BY SeqDomain DEF Inv, CapturesOK
    <3> QED BY <3>1, FS_Interval
  <2>3. IsFiniteSet(CasesOf(sources))
    BY <2>1, <2>2, FS_Subset
  <2>4. PICK x : CasesOf(sources) = {x}
    BY <2>3, FS_Singleton DEF RecordHypothesis
  <2> QED BY <2>4
<1>3. /\ attempts[t].reply = "sound" /\ attempts[t].sources = sources
      /\ \A h \in DOMAIN hypotheses : hypotheses[h].attempt # t
  BY DEF RecordHypothesis, Grounds, Inv, AttemptsOK
<1>4. row.attempt = t /\ row.sources = sources
  OBVIOUS
<1> HIDE DEF row
<1>5. /\ IsSeq(hypotheses') /\ Extends(hypotheses', hypotheses)
      /\ Len(hypotheses) \in Nat /\ DOMAIN hypotheses = 1..Len(hypotheses)
      /\ DOMAIN hypotheses' = 1..(Len(hypotheses) + 1)
      /\ hypotheses'[Len(hypotheses) + 1] = row
  BY <1>1, AppendExtends, SeqDomain DEF Inv, HypothesesOK
<1>6. ASSUME NEW h \in DOMAIN hypotheses' PROVE Grounded(h)'
  <2>1. CASE h \in DOMAIN hypotheses
    BY <1>1, <1>5, <2>1, GroundedStays DEF Inv, Extends
  <2>2. CASE h \notin DOMAIN hypotheses
    <3>1. hypotheses'[h] = row
      BY <1>5, <2>2
    <3> QED BY <1>1, <1>2, <1>3, <1>4, <3>1 DEF Grounded, CasesOf
  <2> QED BY <2>1, <2>2
<1>7. ASSUME NEW g \in DOMAIN hypotheses', NEW h \in DOMAIN hypotheses',
             hypotheses'[g].attempt = hypotheses'[h].attempt
      PROVE  g = h
  <2>1. \A j \in DOMAIN hypotheses' :
            \/ j \in DOMAIN hypotheses /\ hypotheses'[j] = hypotheses[j]
            \/ j = Len(hypotheses) + 1 /\ hypotheses'[j] = row
    BY <1>5 DEF Extends
  <2> QED BY <1>3, <1>4, <1>7, <2>1 DEF Inv, HypothesesOK
<1>8. HypothesesOK'
  BY <1>5, <1>6, <1>7 DEF HypothesesOK
<1>9. BatchesOK' /\ ImportersOK' /\ CapturesOK' /\ AttemptsOK'
  BY <1>1 DEF Inv, BatchesOK, ImportersOK, ImporterOK, OwnAnswer, CapturesOK, AttemptsOK
<1> QED BY <1>8, <1>9 DEF Inv

LEMMA NextInv == Inv /\ [Next]_vars => Inv'
<1> SUFFICES ASSUME Inv, [Next]_vars PROVE Inv'
  OBVIOUS
<1>1. ASSUME IntakeNext, UNCHANGED <<attempts, hypotheses>> PROVE Inv'
  BY <1>1, SubmitInv, StoreInv, CorrectInv, SafetyExitInv DEF IntakeNext
<1>2. ASSUME NEW sources \in SourceSets, NEW task \in TaskKinds, NEW valid \in BOOLEAN,
             NEW reply \in AdapterReplies, Interpret(task, sources, valid, reply)
      PROVE  Inv'
  BY <1>2, InterpretInv
<1>3. ASSUME NEW sources \in SourceSets, NEW t \in DOMAIN attempts, RecordHypothesis(t, sources)
      PROVE  Inv'
  BY <1>3, RecordHypothesisInv
<1>4. CASE UNCHANGED vars
  <2>1. BatchesOK' /\ CapturesOK' /\ ImportersOK'
    BY <1>4 DEF vars, intakeVars, Inv, BatchesOK, CapturesOK, ImportersOK, ImporterOK, OwnAnswer
  <2>2. AttemptsOK' /\ HypothesesOK'
    BY <1>4, InterpretationsStay DEF vars, intakeVars, Inv, Extends
  <2> QED BY <2>1, <2>2 DEF Inv
<1> QED BY <1>1, <1>2, <1>3, <1>4 DEF Next

\* Every reachable state has the shapes the code gives it, and more: rows point at rows that were
\* there before them, and what they point at never changes.
THEOREM Reachable == Spec => []Inv
  BY InitInv, NextInv, PTL DEF Spec

LEMMA InvTypeOK == Inv => TypeOK
<1> SUFFICES ASSUME Inv PROVE TypeOK
  OBVIOUS
<1>1. \A i \in Importers : \/ importing[i] = NotStarted
                           \/ /\ importing[i].phase \in {"storing", "answered"}
                              /\ importing[i].file \in Files
  BY DEF Inv, ImportersOK, ImporterOK, Storing, Answered
<1> QED BY <1>1 DEF TypeOK, Inv, CapturesOK, AttemptsOK, HypothesesOK, Grounded

\* The shapes alone: rows point at rows that exist and that are older than they are.
THEOREM TypeCorrect == Spec => []TypeOK
  BY Reachable, InvTypeOK, PTL

\* However imports of the same source race, an importer that is told of a batch is told of the one
\* that its own bytes under its own manifest made (intake_provenance/services.py:99-116, 209).
THEOREM AnswersAreOwn == Spec => []AnsweredForOwnFile
<1>1. Inv => AnsweredForOwnFile
  <2> SUFFICES ASSUME Inv, NEW i \in Importers, importing[i].phase = "answered",
                      importing[i].answer[1] \in {"imported", "replayed"}
               PROVE  LET batch == batches[importing[i].answer[2]]
                      IN  /\ batch.manifest = importing[i].file.manifest
                          /\ batch.results = Results(importing[i].file)
    BY DEF AnsweredForOwnFile
  <2>1. OwnAnswer(importing[i].file, importing[i].answer)
    BY DEF Inv, ImportersOK, ImporterOK, NotStarted, Storing
  <2> QED BY <2>1 DEF OwnAnswer, BatchOf
<1> QED BY <1>1, Reachable, PTL

\* A hypothesis rests on one stored interpretation the adapter was sure of, of exactly its captures
\* and of one case, whatever is imported, corrected or exited in between, and no interpretation
\* grounds two (ai_gateway/services.py:187-290).
THEOREM HypothesesRestOnOutput == Spec => []HypothesesGrounded
<1>1. Inv => HypothesesGrounded
  BY DEF Inv, HypothesesOK, Grounded, HypothesesGrounded
<1> QED BY <1>1, Reachable, PTL

-----------------------------------------------------------------------------
(* Safety exits                                                            *)

LEMMA ExitRestricts ==
    ASSUME NEW case \in CasesOf(exits), NEW sources, case \in CasesOf(sources)
    PROVE  CaseExited(case) /\ Restricted(sources)
  BY DEF CasesOf, CaseExited, Restricted

LEMMA StepClosed ==
    ASSUME Inv, [Next]_vars, NEW case \in CasesOf(exits)
    PROVE  /\ \A t \in DOMAIN attempts' \ DOMAIN attempts :
                 case \in CasesOf(attempts'[t].sources) =>
                     /\ attempts'[t].reply = "not_called"
                     /\ attempts'[t].disposition = "restricted_safety_escalation"
           /\ \A h \in DOMAIN hypotheses' \ DOMAIN hypotheses : hypotheses'[h].case # case
<1>1. CASE UNCHANGED <<attempts, hypotheses>>
  BY <1>1
<1>2. ASSUME NEW sources \in SourceSets, NEW task \in TaskKinds, NEW valid \in BOOLEAN,
             NEW reply \in AdapterReplies, Interpret(task, sources, valid, reply),
             NEW t \in DOMAIN attempts' \ DOMAIN attempts, case \in CasesOf(attempts'[t].sources)
      PROVE  /\ attempts'[t].reply = "not_called"
             /\ attempts'[t].disposition = "restricted_safety_escalation"
  <2> DEFINE called == ~Restricted(sources) /\ valid
             row == [task |-> task, sources |-> sources,
                     reply |-> IF called THEN reply ELSE "not_called",
                     disposition |-> IF Restricted(sources) THEN "restricted_safety_escalation"
                                     ELSE IF called THEN DispositionOf[reply] ELSE "adapter_error"]
  <2>1. attempts' = Append(attempts, row)
    BY <1>2 DEF Interpret
  <2>2. attempts'[t] = row
    <3> HIDE DEF row
    <3> QED BY <2>1, AppendExtends, SeqDomain DEF Inv, AttemptsOK
  <2>3. Restricted(sources)
    BY <1>2, <2>2, ExitRestricts
  <2> QED BY <2>2, <2>3
<1>3. ASSUME NEW sources \in SourceSets, NEW t \in DOMAIN attempts, RecordHypothesis(t, sources),
             NEW h \in DOMAIN hypotheses' \ DOMAIN hypotheses
      PROVE  hypotheses'[h].case # case
  <2> DEFINE row == [attempt |-> t, sources |-> sources,
                     case |-> CHOOSE c \in CasesOf(sources) : TRUE]
  <2>1. hypotheses' = Append(hypotheses, row)
    BY <1>3 DEF RecordHypothesis
  <2>2. hypotheses'[h] = row
    <3> HIDE DEF row
    <3> QED BY <2>1, AppendExtends, SeqDomain DEF Inv, HypothesesOK
  <2>3. row.case \in CasesOf(sources)
    BY DEF SourceSets, CasesOf
  <2>4. ~CaseExited(row.case)
    BY <1>3, <2>3 DEF RecordHypothesis
  <2>5. CaseExited(case)
    BY DEF CasesOf, CaseExited
  <2> QED BY <2>2, <2>4, <2>5
<1>4. ASSUME NEW sources \in SourceSets, NEW task \in TaskKinds, NEW valid \in BOOLEAN,
             NEW reply \in AdapterReplies, Interpret(task, sources, valid, reply)
      PROVE  UNCHANGED hypotheses
  BY <1>4 DEF Interpret
<1>5. ASSUME NEW sources \in SourceSets, NEW t \in DOMAIN attempts, RecordHypothesis(t, sources)
      PROVE  UNCHANGED attempts
  BY <1>5 DEF RecordHypothesis
<1>6. CASE UNCHANGED vars
  BY <1>1, <1>6 DEF vars
<1>7. CASE \E sources \in SourceSets, task \in TaskKinds, valid \in BOOLEAN, reply \in AdapterReplies :
              Interpret(task, sources, valid, reply)
  BY <1>2, <1>4, <1>7
<1>8. CASE \E sources \in SourceSets, t \in DOMAIN attempts : RecordHypothesis(t, sources)
  BY <1>3, <1>5, <1>8
<1> QED BY <1>1, <1>6, <1>7, <1>8 DEF Next

\* After its safety exit nothing interprets a capture of the case and nothing becomes a hypothesis
\* about it, for any captures, corrections and cohorts (ai_gateway/services.py:74-86, 196-202).
THEOREM ExitClosesInterpretation == Spec => ClosedAfterExit
<1>1. Inv /\ [Next]_vars =>
        [\A case \in CasesOf(exits) :
            /\ \A t \in DOMAIN attempts' \ DOMAIN attempts :
                  case \in CasesOf(attempts'[t].sources) =>
                      /\ attempts'[t].reply = "not_called"
                      /\ attempts'[t].disposition = "restricted_safety_escalation"
            /\ \A h \in DOMAIN hypotheses' \ DOMAIN hypotheses : hypotheses'[h].case # case]_vars
  BY StepClosed
<1> QED BY <1>1, Reachable, PTL DEF Spec, ClosedAfterExit

-----------------------------------------------------------------------------
(* What enters the evidence                                                *)

KeysApart == \A b, d \in DOMAIN batches : batches[b].key = batches[d].key => b = d

\* A capture comes from a row its batch kept; where that was quarantined its case is closed.
CaptureFits(k) ==
    LET batch == batches[captures[k].batch]
    IN  /\ captures[k].row \in KeptRows(batch.results)
        /\ captures[k].learner = batch.body.rows[captures[k].row].learner
        /\ batch.results[captures[k].row] = "quarantined" => CaseExited(captures[k].case)

\* A row has one capture, and its corrections.
Original(k) == captures[k].supersedes = 0

OriginalsApart ==
    \A j, k \in DOMAIN captures :
        /\ Original(j) /\ Original(k)
        /\ captures[j].batch = captures[k].batch /\ captures[j].row = captures[k].row
        => j = k

EntryInv ==
    /\ Inv
    /\ KeysApart
    /\ \A k \in DOMAIN captures : CaptureFits(k)
    /\ OriginalsApart

\* What a capture fits does not change, and no exit is withdrawn.
LEMMA FitStays ==
    ASSUME Inv, Extends(captures', captures), Extends(batches', batches), exits \subseteq exits',
           NEW k \in DOMAIN captures, CaptureFits(k)
    PROVE  CaptureFits(k)'
<1>1. captures'[k] = captures[k]
  BY DEF Extends
<1>2. batches'[captures[k].batch] = batches[captures[k].batch]
  BY DEF Inv, CapturesOK, Extends
<1>3. CaseExited(captures[k].case) => \E x \in exits' : captures'[x].case = captures[k].case
  BY DEF Inv, CapturesOK, Extends, CaseExited
<1> QED BY <1>1, <1>2, <1>3 DEF CaptureFits, CaseExited

LEMMA StoredEntry ==
    ASSUME EntryInv, NEW i \in Importers, Store(i), Inv'
    PROVE  EntryInv'
<1> DEFINE file == importing[i].file
           kept == KeptRows(Results(file))
<1>1. Inv
  BY DEF EntryInv
<1>2. CASE ~KeyIsFree(file)
  <2>1. UNCHANGED <<batches, captures, exits>>
    BY <1>2 DEF Store
  <2> QED BY <2>1 DEF EntryInv, KeysApart, CaptureFits, CaseExited, OriginalsApart, Original
<1>3. CASE KeyIsFree(file)
  <2>1. file \in Files
    <3>1. importing[i].phase = "storing" /\ ImporterOK(importing[i])
      BY <1>1 DEF Store, Inv, ImportersOK
    <3> QED BY <3>1 DEF ImporterOK, NotStarted
  <2>2. /\ batches' = Append(batches, BatchOf(file))
        /\ captures' = captures \o NewCaptures(file, Results(file))
        /\ exits' = exits \cup NewExits(Results(file))
    BY <1>3 DEF Store, BatchOf
  <2>3. \A b \in DOMAIN batches : batches[b].key # Key(file)
    BY <1>3 DEF KeyIsFree, Stored
  <2> HIDE DEF file
  <2>4. PICK n \in Nat : n = Len(batches) /\ DOMAIN batches = 1..n
    BY <1>1, SeqDomain DEF Inv, BatchesOK
  <2>5. Extends(batches', batches) /\ DOMAIN batches' = 1..(n + 1) /\ batches'[n + 1] = BatchOf(file)
    BY <1>1, <2>2, <2>4, AppendExtends DEF Inv, BatchesOK
  <2>6. /\ Len(captures) \in Nat /\ DOMAIN captures = 1..Len(captures)
        /\ IsSeq(captures') /\ Extends(captures', captures)
        /\ DOMAIN captures' = 1..(Len(captures) + Cardinality(kept))
        /\ \A j \in 1..Cardinality(kept) :
              \E r \in kept :
                 /\ Place(kept, r) = j
                 /\ captures'[Len(captures) + j] =
                       [case |-> Len(captures) + j, learner |-> file.body.rows[r].learner,
                        batch |-> n + 1, row |-> r, supersedes |-> 0]
    BY <1>1, <2>1, <2>2, <2>4, NewCapturesAdded
  <2>7. PICK m \in Nat : m = Len(captures) /\ DOMAIN captures = 1..m
    BY <2>6
  <2>8. /\ Cardinality(kept) \in Nat
        /\ \A r \in kept : Place(kept, r) \in 1..Cardinality(kept)
        /\ \A q, r \in kept : Place(kept, q) = Place(kept, r) => q = r
    BY <2>1, KeptCounted
  <2> DEFINE Brings(k, r) == captures'[k] = [case |-> k, learner |-> file.body.rows[r].learner,
                                             batch |-> n + 1, row |-> r, supersedes |-> 0]
  <2>9. ASSUME NEW k \in DOMAIN captures', k \notin DOMAIN captures
        PROVE  \E r \in kept : k = m + Place(kept, r) /\ Brings(k, r)
    <3>1. k - m \in 1..Cardinality(kept) /\ k = m + (k - m)
      <4> HIDE DEF kept
      <4> QED BY <2>6, <2>7, <2>8, <2>9
    <3>2. PICK j \in 1..Cardinality(kept) : k = m + j
      BY <3>1
    <3> QED BY <2>6, <2>7, <3>2
  <2>10. KeysApart'
    <3>1. BatchOf(file).key = Key(file)
      BY DEF BatchOf
    <3>2. \A b \in DOMAIN batches' : (b \in DOMAIN batches /\ batches'[b] = batches[b]) \/ b = n + 1
      BY <2>4, <2>5 DEF Extends
    <3> QED BY <2>3, <2>5, <3>1, <3>2 DEF EntryInv, KeysApart
  <2>11. ASSUME NEW k \in DOMAIN captures' PROVE CaptureFits(k)'
    <3>1. CASE k \in DOMAIN captures
      BY <1>1, <2>2, <2>5, <2>6, <3>1, FitStays DEF EntryInv
    <3>2. CASE k \notin DOMAIN captures
      <4>1. PICK r \in kept : k = m + Place(kept, r) /\ Brings(k, r)
        BY <2>9, <3>2
      <4>2. /\ captures'[k].case = k /\ captures'[k].batch = n + 1 /\ captures'[k].row = r
            /\ captures'[k].learner = file.body.rows[r].learner
        BY <4>1
      <4>3. BatchOf(file).results = Results(file) /\ BatchOf(file).body = file.body
        BY DEF BatchOf
      <4>4. Results(file)[r] = "quarantined" => k \in exits'
        BY <2>2, <2>7, <4>1 DEF NewExits, KeptRows
      <4> QED BY <2>5, <4>2, <4>3, <4>4 DEF CaptureFits, CaseExited
    <3> QED BY <3>1, <3>2
  <2>12. OriginalsApart'
    <3> SUFFICES ASSUME NEW j \in DOMAIN captures', NEW k \in DOMAIN captures',
                        Original(j)', Original(k)',
                        captures'[j].batch = captures'[k].batch, captures'[j].row = captures'[k].row
                 PROVE  j = k
      BY DEF OriginalsApart
    <3>1. \A x \in DOMAIN captures : /\ captures'[x] = captures[x]
                                     /\ captures[x].batch # n + 1
      BY <1>1, <2>4, <2>6 DEF Inv, CapturesOK, Extends
    <3>2. CASE j \in DOMAIN captures /\ k \in DOMAIN captures
      BY <3>1, <3>2 DEF EntryInv, OriginalsApart, Original
    <3>3. ASSUME NEW x \in DOMAIN captures', x \notin DOMAIN captures
          PROVE  \E r \in kept : /\ x = m + Place(kept, r)
                                 /\ captures'[x].batch = n + 1 /\ captures'[x].row = r
      BY <2>9, <3>3
    <3>4. CASE j \notin DOMAIN captures /\ k \notin DOMAIN captures
      BY <3>3, <3>4
    <3> QED BY <3>1, <3>2, <3>3, <3>4
  <2> QED BY <2>10, <2>11, <2>12 DEF EntryInv
<1> QED BY <1>2, <1>3

LEMMA CorrectedEntry ==
    ASSUME EntryInv, NEW k \in DOMAIN captures, Correct(k), Inv'
    PROVE  EntryInv'
<1> DEFINE copy == [captures[k] EXCEPT !.supersedes = k]
<1>1. captures' = Append(captures, copy) /\ UNCHANGED <<batches, exits>>
  BY DEF Correct
<1>2. /\ copy.supersedes = k /\ copy.batch = captures[k].batch /\ copy.row = captures[k].row
      /\ copy.case = captures[k].case /\ copy.learner = captures[k].learner
  <2>1. IsCapture(captures[k])
    BY DEF EntryInv, Inv, CapturesOK
  <2> QED BY <2>1 DEF IsCapture
<1> HIDE DEF copy
<1>3. PICK m \in Nat : m = Len(captures) /\ DOMAIN captures = 1..m
  BY SeqDomain DEF EntryInv, Inv, CapturesOK
<1>4. /\ Extends(captures', captures) /\ DOMAIN captures' = 1..(m + 1)
      /\ captures'[m + 1] = copy
  BY <1>1, <1>3, AppendExtends DEF EntryInv, Inv, CapturesOK
<1>5. \A x \in DOMAIN captures' : x \in DOMAIN captures \/ x = m + 1
  BY <1>3, <1>4
<1>6. \A x \in DOMAIN captures : CaptureFits(x)'
  BY <1>1, <1>4, FitStays DEF EntryInv, Extends
<1>7. CaptureFits(m + 1)'
  <2>1. CaptureFits(k)' /\ captures'[k] = captures[k]
    BY <1>4, <1>6 DEF Extends
  <2> QED BY <1>2, <1>4, <2>1 DEF CaptureFits, CaseExited
<1>8. ~Original(m + 1)'
  BY <1>2, <1>3, <1>4 DEF Original
<1>9. OriginalsApart'
  BY <1>4, <1>5, <1>8 DEF EntryInv, OriginalsApart, Original, Extends
<1>10. KeysApart'
  BY <1>1 DEF EntryInv, KeysApart
<1> QED BY <1>5, <1>6, <1>7, <1>9, <1>10 DEF EntryInv

LEMMA NextEntry == EntryInv /\ [Next]_vars => EntryInv'
<1> SUFFICES ASSUME EntryInv, [Next]_vars PROVE EntryInv'
  OBVIOUS
<1>1. Inv /\ Inv'
  BY NextInv DEF EntryInv
<1>2. ASSUME Extends(captures', captures), DOMAIN captures' = DOMAIN captures,
             UNCHANGED batches, exits \subseteq exits'
      PROVE  EntryInv'
  <2>1. \A k \in DOMAIN captures : CaptureFits(k)'
    BY <1>1, <1>2, FitStays DEF EntryInv, Extends
  <2> QED BY <1>1, <1>2, <2>1 DEF EntryInv, KeysApart, OriginalsApart, Original, Extends
<1>3. ASSUME UNCHANGED <<batches, captures>>, exits \subseteq exits' PROVE EntryInv'
  BY <1>2, <1>3 DEF Extends
<1>4. ASSUME NEW i \in Importers, NEW file \in Files, Submit(i, file) PROVE EntryInv'
  BY <1>3, <1>4 DEF Submit
<1>5. ASSUME NEW k \in DOMAIN captures, RecordSafetyExit(k) PROVE EntryInv'
  BY <1>3, <1>5 DEF RecordSafetyExit
<1>6. ASSUME NEW sources \in SourceSets, NEW task \in TaskKinds, NEW valid \in BOOLEAN,
             NEW reply \in AdapterReplies, Interpret(task, sources, valid, reply)
      PROVE  EntryInv'
  BY <1>3, <1>6 DEF Interpret, intakeVars
<1>7. ASSUME NEW sources \in SourceSets, NEW t \in DOMAIN attempts, RecordHypothesis(t, sources)
      PROVE  EntryInv'
  BY <1>3, <1>7 DEF RecordHypothesis, intakeVars
<1>8. CASE UNCHANGED vars
  BY <1>3, <1>8 DEF vars, intakeVars
<1> QED BY <1>1, <1>4, <1>5, <1>6, <1>7, <1>8, StoredEntry, CorrectedEntry DEF Next, IntakeNext

LEMMA EntryReachable == Spec => []EntryInv
<1>1. Init => EntryInv
  BY InitInv DEF Init, IntakeInit, EntryInv, KeysApart, OriginalsApart
<1> QED BY <1>1, NextEntry, PTL DEF Spec

\* Two rows of one file that both were kept are of different learners, and an unsafe statement
\* that was kept was quarantined.
LEMMA RowsOfResults ==
    ASSUME NEW file \in Files, NEW q \in KeptRows(Results(file)), NEW r \in KeptRows(Results(file))
    PROVE  /\ file.body.rows[q].learner = file.body.rows[r].learner => q = r
           /\ file.body.rows[r].statement = "unsafe" => Results(file)[r] = "quarantined"
<1> DEFINE rows == file.body.rows
<1>1. file.valid /\ file.body.readable
  <2>1. Results(file)[r] \in {"accepted", "quarantined"} /\ r \in DOMAIN Results(file)
    BY DEF KeptRows
  <2>2. <<"file_rejected">>[1] = "file_rejected" /\ DOMAIN <<"file_rejected">> = {1}
    OBVIOUS
  <2> QED BY <2>1, <2>2 DEF Results
<1>2. Results(file) = RowStatuses(rows) /\ DOMAIN rows = 1..Len(rows) /\ Len(rows) \in Nat
  BY <1>1, RowsAreNumbered DEF Results
<1> HIDE DEF rows
<1>3. ASSUME NEW n \in KeptRows(Results(file))
      PROVE  /\ n \in 1..Len(rows) /\ ~Unfit(rows[n]) /\ ~Repeated(rows, n)
             /\ rows[n].statement = "unsafe" => Results(file)[n] = "quarantined"
  BY <1>2 DEF KeptRows, RowStatuses
<1>4. ASSUME NEW m \in KeptRows(Results(file)), NEW n \in KeptRows(Results(file)), m < n
      PROVE  rows[m].learner # rows[n].learner
  <2>1. m \in 1..(n - 1)
    BY <1>2, <1>3, <1>4
  <2> QED BY <1>3, <2>1 DEF Repeated
<1>5. q < r \/ r < q \/ q = r
  BY <1>2, <1>3
<1> QED BY <1>3, <1>4, <1>5 DEF rows

\* However imports race, a source version is stored once and a row of it makes one case
\* (services.py:99-116, models.py:129-134).
THEOREM EntersOnce == Spec => []VersionEntersOnce
<1>1. EntryInv => VersionEntersOnce
  <2> SUFFICES ASSUME EntryInv PROVE VersionEntersOnce
    OBVIOUS
  <2>1. \A k \in DOMAIN captures : captures[k].batch \in DOMAIN batches
    BY DEF EntryInv, Inv, CapturesOK
  <2> QED BY <2>1 DEF EntryInv, KeysApart, OriginalsApart, Original, VersionEntersOnce
<1> QED BY <1>1, EntryReachable, PTL

\* A file brings a learner in once, and what an unsafe statement started has a safety exit
\* (services.py:238-290).
THEOREM KeptApart == Spec => []RowsKeptApart
<1>1. EntryInv => RowsKeptApart
  <2> SUFFICES ASSUME EntryInv PROVE RowsKeptApart
    OBVIOUS
  <2>1. ASSUME NEW k \in DOMAIN captures
        PROVE  \E file \in Files : batches[captures[k].batch] = BatchOf(file)
    BY DEF EntryInv, Inv, CapturesOK, BatchesOK
  <2>2. ASSUME NEW k \in DOMAIN captures, NEW file \in Files,
               batches[captures[k].batch] = BatchOf(file)
        PROVE  /\ captures[k].row \in KeptRows(Results(file))
               /\ captures[k].learner = file.body.rows[captures[k].row].learner
               /\ Results(file)[captures[k].row] = "quarantined" => CaseExited(captures[k].case)
               /\ batches[captures[k].batch].body = file.body
    BY <2>2 DEF EntryInv, CaptureFits, BatchOf
  <2>3. ASSUME NEW j \in DOMAIN captures, NEW k \in DOMAIN captures, Original(j), Original(k),
               captures[j].batch = captures[k].batch, captures[j].learner = captures[k].learner
        PROVE  j = k
    <3>1. PICK file \in Files : batches[captures[k].batch] = BatchOf(file)
      BY <2>1
    <3>2. captures[j].row = captures[k].row
      BY <2>2, <2>3, <3>1, RowsOfResults
    <3> QED BY <2>3, <3>2 DEF EntryInv, OriginalsApart
  <2>4. ASSUME NEW k \in DOMAIN captures,
               batches[captures[k].batch].body.rows[captures[k].row].statement = "unsafe"
        PROVE  CaseExited(captures[k].case)
    <3>1. PICK file \in Files : batches[captures[k].batch] = BatchOf(file)
      BY <2>1
    <3> QED BY <2>2, <2>4, <3>1, RowsOfResults
  <2> QED BY <2>3, <2>4 DEF RowsKeptApart, Original
<1> QED BY <1>1, EntryReachable, PTL
=============================================================================
