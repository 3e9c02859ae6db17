----------------------------- MODULE MCAiGateway -----------------------------
(* A small instance of AiGateway: five submissions of two source versions.  *)
EXTENDS AiGateway, TLC

Row(learner, statement) ==
    [learner |-> learner, wellFormed |-> TRUE, statement |-> statement, direct |-> FALSE]

File(manifest, version, rows) ==
    [manifest |-> manifest, valid |-> TRUE, version |-> version,
     body |-> [readable |-> TRUE, rows |-> rows]]

Ordinary == <<Row("l1", "ordinary"), Row("l2", "unsafe")>>

MCFiles ==
    {File("m1", "v1", Ordinary),
     \* other bytes and another manifest of the same source version
     File("m1", "v1", <<[Row("l1", "ordinary") EXCEPT !.direct = TRUE], Row("l2", "sensitive")>>),
     File("m2", "v1", Ordinary),
     \* a learner quarantined and then repeated, and rows nobody may keep
     File("m3", "v2", <<[Row("l2", "unsafe") EXCEPT !.wellFormed = FALSE],
                        Row("l1", "unsafe"), Row("l1", "ordinary")>>),
     \* a manifest that is rejected
     [File("m4", "v1", Ordinary) EXCEPT !.valid = FALSE]}

\* Importing processes are interchangeable.
Processes == Permutations(Importers)
=============================================================================
