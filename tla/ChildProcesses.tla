--------------------------- MODULE ChildProcesses ---------------------------
(***************************************************************************)
(* The child processes of the loop engine (loop_engine/agent.py): an agent *)
(* or a verification command runs in a session of its own, a record on     *)
(* disk names it while it runs, and the next command ends what a killed    *)
(* engine left behind before it does anything else.  A process is named by *)
(* its pid, which is also the session; a descendant that leaves the        *)
(* session, or makes a process group of its own in the instant between the *)
(* listing of the session and the signal, is out of the code's sight and   *)
(* of the model's.  Every look at the machine is one run of ps, which may  *)
(* fail or time out.                                                       *)
(***************************************************************************)
EXTENDS Naturals, FiniteSets

CONSTANTS Pids,           \* each names one child, at most
          None,           \* no pid
          MaxKills,       \* bound: times the engine is killed
          MaxFailures     \* bound: times ps fails where that changes what the engine does

ASSUME NoneIsNoPid == None \notin Pids
ASSUME BoundsAssumption == MaxKills \in Nat /\ MaxFailures \in Nat

VARIABLES engine,         \* what the engine process is doing
          current,        \* the child it is doing it with
          sight,          \* what its looks at that child were worth
          proc,           \* what runs under each pid
          record,         \* pids with a record on disk
          kills,          \* times the engine was killed
          failures        \* times ps failed

vars == <<engine, current, sight, proc, record, kills, failures>>

\* "leader": the child itself, perhaps with descendants; "orphans": descendants only;
\* "killed": sent SIGKILL and not gone yet; "foreign": an unrelated process has the number now.
ProcStates == {"unused", "leader", "orphans", "killed", "gone", "foreign"}

\* "unread": the start time could not be read; "taken": the number changed hands since the
\* look; "blind": the session could not be listed when it was ended.
Sights == {"clear", "unread", "taken", "blind"}

Init ==
    /\ engine = "down"
    /\ current = None
    /\ sight = "clear"
    /\ proc = [p \in Pids |-> "unused"]
    /\ record = {}
    /\ kills = 0
    /\ failures = 0

PsFails == failures < MaxFailures /\ failures' = failures + 1

\* The engine turns to no child any more.
LetGo(next) == engine' = next /\ current' = None /\ sight' = "clear"

\* Fault: only the group of the session leader is looked at.
FaultLeaderOnly(p) == proc[p] \in {"leader", "killed"}

\* _session_process_groups: anything of the session that is not a zombie.
SessionLives(p) == proc[p] \in {"leader", "orphans", "killed"}

\* SIGTERM, a grace period, SIGKILL: whatever lived is gone by then, or dies of it later.
\* A process that only has the number now is hit too, if it leads a session or a group.
Ended(p) == (IF SessionLives(p) THEN {} ELSE {proc[p]})
            \cup (IF SessionLives(p) \/ proc[p] = "foreign" THEN {"gone", "killed"} ELSE {})

\* The same when the session cannot be listed: the group with the child's number is signalled,
\* if there is one, and descendants in groups of their own run on.
GroupEnded(p) == Ended(p) \cup (IF proc[p] \in {"leader", "orphans"} THEN {"orphans"} ELSE {})

\* The signals were sent, or the first of them, or none: the listing before the next one failed.
PartlyEnded(p) == GroupEnded(p) \cup {proc[p]}

-----------------------------------------------------------------------------
(* A new command: reconcile the records first (_reconcile_pid_records)     *)

Start ==
    /\ engine = "down"
    /\ engine' = "reconciling"
    /\ UNCHANGED <<current, sight, proc, record, kills, failures>>

\* Fault: the start time in the record is not compared.
FaultStartNotCompared(p) == FALSE

\* Fault: a process that is not there has no start time, which is not the recorded one.
FaultMissingIsReused(p) == proc[p] # "leader"

\* A process runs under the pid that started at another time than the recorded one.
Reused(p) == proc[p] = "foreign"

\* A reused pid is an error, and the record stays.
RefuseReused(p) ==
    /\ engine = "reconciling" /\ p \in record
    /\ Reused(p)
    /\ engine' = "down"
    /\ UNCHANGED <<current, sight, proc, record, kills, failures>>

\* So is a leader that exits between the look at its start time and that at its session.
RefuseVanished(p) ==
    /\ engine = "reconciling" /\ p \in record
    /\ proc[p] = "leader"
    /\ \E after \in {"orphans", "gone"} : proc' = [proc EXCEPT ![p] = after]
    /\ engine' = "down"
    /\ UNCHANGED <<current, sight, record, kills, failures>>

\* The recorded process runs under the pid, or none does.
LookUp(p) ==
    /\ engine = "reconciling" /\ p \in record
    /\ ~Reused(p)
    /\ engine' = "ending"
    /\ current' = p
    /\ UNCHANGED <<sight, proc, record, kills, failures>>

\* _process_start returns "", as if no process ran under the pid: nothing is compared.
LookUpFails(p) ==
    /\ engine = "reconciling" /\ p \in record
    /\ PsFails
    /\ engine' = "ending"
    /\ current' = p
    /\ sight' = "unread"
    /\ UNCHANGED <<proc, record, kills>>

\* The session is listed, ended and listed again; what cannot be ended is an error, and the
\* record stays.
EndSession ==
    /\ engine = "ending"
    /\ \E after \in Ended(current) :
          /\ proc' = [proc EXCEPT ![current] = after]
          /\ IF after = "killed" THEN LetGo("down")
             ELSE engine' = "removing" /\ UNCHANGED <<current, sight>>
    /\ UNCHANGED <<record, kills, failures>>

\* A listing fails: an error at once, and the record stays.
ListingFails ==
    /\ engine = "ending"
    /\ PsFails
    /\ \E after \in PartlyEnded(current) : proc' = [proc EXCEPT ![current] = after]
    /\ LetGo("down")
    /\ UNCHANGED <<record, kills>>

\* The record is removed: by the reconciliation, or at the end of the turn.
RemoveRecord ==
    /\ engine \in {"removing", "unlinking"}
    /\ record' = record \ {current}
    /\ LetGo(IF engine = "unlinking" THEN "ready" ELSE "reconciling")
    /\ UNCHANGED <<proc, kills, failures>>

Reconciled ==
    /\ engine = "reconciling" /\ record = {}
    /\ engine' = "ready"
    /\ UNCHANGED <<current, sight, proc, record, kills, failures>>

-----------------------------------------------------------------------------
(* A turn of an agent, or one verification command                         *)

Spawn(p) ==
    /\ engine = "ready"
    /\ proc[p] = "unused"
    /\ proc' = [proc EXCEPT ![p] = "leader"]
    /\ current' = p
    /\ engine' = "spawned"
    /\ UNCHANGED <<sight, record, kills, failures>>

\* _write_pid_record, with the start time ps still tells of a leader that is a zombie.
WriteRecord ==
    /\ engine = "spawned"
    /\ record' = record \cup {current}
    /\ engine' = "waiting"
    /\ UNCHANGED <<current, sight, proc, kills, failures>>

\* The leader exited before its start time was read: nothing is recorded.
SkipRecord ==
    /\ engine = "spawned"
    /\ proc[current] # "leader"
    /\ engine' = "waiting"
    /\ UNCHANGED <<current, sight, proc, record, kills, failures>>

\* The leader lives and ps does not tell its start time, in twenty attempts: the child is
\* ended, with what ps then tells of its session, and the turn fails.
GiveUpChild ==
    /\ engine = "spawned"
    /\ proc[current] = "leader"
    /\ PsFails
    /\ \E after \in GroupEnded(current) : proc' = [proc EXCEPT ![current] = after]
    /\ LetGo("ready")
    /\ UNCHANGED <<record, kills>>

\* Writing the record fails.  This is before the block that ends the child, which is left
\* running while the turn is reported as not started.
AbandonChild ==
    /\ engine = "spawned"
    /\ LetGo("ready")
    /\ UNCHANGED <<proc, record, kills, failures>>

\* The child is done, or its time is up; either way its session is ended.
EndTurn ==
    /\ engine = "waiting"
    /\ \E after \in Ended(current) : proc' = [proc EXCEPT ![current] = after]
    /\ engine' = "unlinking"
    /\ UNCHANGED <<current, sight, record, kills, failures>>

\* The last listing before SIGKILL fails: the turn ends all the same.
EndTurnBlind ==
    /\ engine = "waiting"
    /\ PsFails
    /\ \E after \in GroupEnded(current) : proc' = [proc EXCEPT ![current] = after]
    /\ engine' = "unlinking"
    /\ sight' = "blind"
    /\ UNCHANGED <<current, record, kills>>

Stop ==
    /\ engine = "ready"
    /\ engine' = "down"
    /\ UNCHANGED <<current, sight, proc, record, kills, failures>>

-----------------------------------------------------------------------------
(* The rest of the machine                                                 *)

Killed ==
    /\ engine # "down" /\ kills < MaxKills
    /\ LetGo("down")
    /\ kills' = kills + 1
    /\ UNCHANGED <<proc, record, failures>>

LeaderExits(p) ==
    /\ proc[p] = "leader"
    /\ \E after \in {"orphans", "gone"} : proc' = [proc EXCEPT ![p] = after]
    /\ UNCHANGED <<engine, current, sight, record, kills, failures>>

LastDescendantExits(p) ==
    /\ proc[p] = "orphans"
    /\ proc' = [proc EXCEPT ![p] = "gone"]
    /\ UNCHANGED <<engine, current, sight, record, kills, failures>>

KilledDies(p) ==
    /\ proc[p] = "killed"
    /\ proc' = [proc EXCEPT ![p] = "gone"]
    /\ UNCHANGED <<engine, current, sight, record, kills, failures>>

\* The number goes to another process, which stays: its exit could only help.  The engine's
\* own child is a zombie, and keeps its number, until the engine waits for it.
PidReused(p) ==
    /\ proc[p] = "gone" /\ ~(engine = "spawned" /\ current = p)
    /\ proc' = [proc EXCEPT ![p] = "foreign"]
    /\ sight' = IF current = p /\ sight = "clear" THEN "taken" ELSE sight
    /\ UNCHANGED <<engine, current, record, kills, failures>>

EngineStep ==
    \/ Start \/ EndSession \/ ListingFails \/ RemoveRecord \/ Reconciled \/ WriteRecord
    \/ SkipRecord \/ GiveUpChild \/ AbandonChild \/ EndTurn \/ EndTurnBlind \/ Stop
    \/ \E p \in Pids : RefuseReused(p) \/ RefuseVanished(p) \/ LookUp(p) \/ LookUpFails(p)
                       \/ Spawn(p)

Next ==
    \/ EngineStep
    \/ Killed
    \/ \E p \in Pids : LeaderExits(p) \/ LastDescendantExits(p) \/ KilledDies(p) \/ PidReused(p)

\* A running command goes on, the operator issues the next one, and SIGKILL works in the end.
Fairness ==
    /\ WF_vars(EngineStep)
    /\ \A p \in Pids : WF_vars(KilledDies(p))

Spec == Init /\ [][Next]_vars /\ Fairness

-----------------------------------------------------------------------------
(* Properties                                                              *)

\* The record of a child outlives it: whoever removes it, and whichever engine was killed when,
\* no process of the session runs on, descendants of a leader long gone included, except under a
\* SIGKILL already sent.  Only a turn whose last listing of the session failed gives the record
\* up with descendants alive (agent.py:404-409); the cleanup of a later command never does.
RecordOutlivesChild ==
    [][\A p \in record \ record' : proc[p] \in {"leader", "orphans"} => sight = "blind"]_vars

\* A process that merely has the pid of an old child is only signalled when ps did not tell the
\* start time to compare (agent.py:511, 563-565), or when it got the number after the look: one
\* that had it before a working look is spared, and so is one nobody is at work on.
ForeignSpared ==
    [][\A p \in Pids : proc[p] = "foreign" /\ proc'[p] # "foreign" =>
           current = p /\ sight \in {"unread", "taken"}]_vars

\* Cleaning up ends: a record that stays for good is that of a pid that is in other hands again
\* and again.  One that stays there is refused at every start until an operator removes the file
\* (agent.py:512-516, 527-552).
CleanupEnds == \A p \in Pids : <>[](p \in record) => []<>(proc[p] = "foreign")
=============================================================================
