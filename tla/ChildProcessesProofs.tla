------------------------ MODULE ChildProcessesProofs ------------------------
(***************************************************************************)
(* The safety of child cleanup, for any number of children, of kills and   *)
(* of failures of ps.  Both properties speak of one step; what makes a     *)
(* step safe is what the engine knows of the child it is at work on:       *)
(* between commands there is none, the number of a child it looked at in   *)
(* vain or lost may be in other hands, and a record is about to be removed *)
(* only when nothing of the session runs on, or its last listing failed.   *)
(***************************************************************************)
EXTENDS ChildProcesses, TLAPS

Alone == {"down", "reconciling", "ready"}
AtWork == {"ending", "removing", "spawned", "waiting", "unlinking"}
Running == {"leader", "orphans"}

TypeInv ==
    /\ engine \in Alone \cup AtWork
    /\ current \in Pids \cup {None}
    /\ sight \in Sights
    /\ proc \in [Pids -> ProcStates]
    /\ record \subseteq Pids

Attended ==
    /\ engine \in Alone => current = None /\ sight = "clear"
    /\ engine \in AtWork => current \in Pids
    /\ engine \in AtWork /\ sight = "clear" => proc[current] # "foreign"
    /\ sight = "blind" => engine = "unlinking"
    /\ engine = "spawned" => sight = "clear"
    /\ engine = "removing" => proc[current] \notin Running
    /\ engine = "unlinking" => proc[current] \notin Running \/ sight = "blind"

Inv == TypeInv /\ Attended

\* Ending a session leaves nothing of it but what SIGKILL is about to take, and makes no stranger.
LEMMA EndedIsEnded ==
    ASSUME NEW p \in Pids, TypeInv, NEW after \in Ended(p)
    PROVE  /\ after \in ProcStates \ Running
           /\ after = "foreign" => proc[p] = "foreign"
  BY DEF Ended, SessionLives, TypeInv, ProcStates, Running

LEMMA GroupEndedIsTyped ==
    ASSUME NEW p \in Pids, TypeInv, NEW after \in PartlyEnded(p)
    PROVE  /\ after \in ProcStates
           /\ after = "foreign" => proc[p] = "foreign"
  BY DEF PartlyEnded, GroupEnded, Ended, SessionLives, TypeInv, ProcStates

LEMMA InitInv == Init => Inv
  BY DEF Init, Inv, TypeInv, Attended, Alone, AtWork, ProcStates, Sights

\* The engine lets go of its child: whatever became of it, nothing is claimed of it.
LEMMA LetGoInv ==
    ASSUME Inv, NEW next \in Alone, LetGo(next), record' \subseteq Pids,
           proc' \in [Pids -> ProcStates]
    PROVE  Inv'
  BY NoneIsNoPid DEF Inv, TypeInv, Attended, LetGo, Alone, AtWork, Sights

LEMMA ReconcilingInv ==
    ASSUME Inv, NEW p \in Pids,
           RefuseReused(p) \/ RefuseVanished(p) \/ LookUp(p) \/ LookUpFails(p)
    PROVE  Inv'
<1> USE NoneIsNoPid DEF Inv, TypeInv, Attended, Alone, AtWork, ProcStates, Sights
<1>1. CASE RefuseReused(p)
  BY <1>1 DEF RefuseReused
<1>2. CASE RefuseVanished(p)
  <2>1. PICK after \in {"orphans", "gone"} : proc' = [proc EXCEPT ![p] = after]
    BY <1>2 DEF RefuseVanished
  <2>2. proc' \in [Pids -> ProcStates]
    BY <2>1
  <2> QED BY <1>2, <2>2 DEF RefuseVanished
<1>3. CASE LookUp(p)
  BY <1>3 DEF LookUp, Reused
<1>4. CASE LookUpFails(p)
  BY <1>4 DEF LookUpFails
<1> QED BY <1>1, <1>2, <1>3, <1>4

LEMMA EndingInv ==
    ASSUME Inv, EndSession \/ ListingFails
    PROVE  Inv'
<1>0. current \in Pids
  BY DEF Inv, Attended, AtWork, EndSession, ListingFails
<1>1. CASE EndSession
  <2>1. PICK after \in Ended(current) :
            /\ proc' = [proc EXCEPT ![current] = after]
            /\ IF after = "killed" THEN LetGo("down")
               ELSE engine' = "removing" /\ UNCHANGED <<current, sight>>
    BY <1>1 DEF EndSession
  <2>2. after \in ProcStates \ Running /\ (after = "foreign" => proc[current] = "foreign")
    BY <1>0, <2>1, EndedIsEnded DEF Inv
  <2>3. proc' \in [Pids -> ProcStates] /\ record' \subseteq Pids
    BY <1>1, <2>1, <2>2 DEF EndSession, Inv, TypeInv
  <2>4. CASE after = "killed"
    BY <2>1, <2>3, <2>4, LetGoInv DEF Alone
  <2>5. CASE after # "killed"
    BY <1>0, <1>1, <2>1, <2>2, <2>3, <2>5 DEF EndSession, Inv, TypeInv, Attended, Alone, AtWork
  <2> QED BY <2>4, <2>5
<1>2. CASE ListingFails
  <2>1. PICK after \in PartlyEnded(current) : proc' = [proc EXCEPT ![current] = after]
    BY <1>2 DEF ListingFails
  <2>2. after \in ProcStates
    BY <1>0, <2>1, GroupEndedIsTyped DEF Inv
  <2>3. proc' \in [Pids -> ProcStates] /\ record' \subseteq Pids
    BY <1>2, <2>1, <2>2 DEF ListingFails, Inv, TypeInv
  <2> QED BY <1>2, <2>3, LetGoInv DEF ListingFails, Alone
<1> QED BY <1>1, <1>2

LEMMA TurnInv ==
    ASSUME Inv, WriteRecord \/ SkipRecord \/ GiveUpChild \/ AbandonChild \/ EndTurn \/ EndTurnBlind
    PROVE  Inv'
<1>0. current \in Pids
  BY DEF Inv, Attended, AtWork, WriteRecord, SkipRecord, GiveUpChild, AbandonChild, EndTurn,
         EndTurnBlind
<1>1. CASE WriteRecord
  BY <1>0, <1>1 DEF WriteRecord, Inv, TypeInv, Attended, Alone, AtWork
<1>2. CASE SkipRecord
  BY <1>2 DEF SkipRecord, Inv, TypeInv, Attended, Alone, AtWork
<1>3. CASE GiveUpChild
  <2>1. PICK after \in GroupEnded(current) : proc' = [proc EXCEPT ![current] = after]
    BY <1>3 DEF GiveUpChild
  <2>2. after \in ProcStates
    BY <1>0, <2>1, GroupEndedIsTyped DEF Inv, PartlyEnded
  <2>3. proc' \in [Pids -> ProcStates] /\ record' \subseteq Pids
    BY <1>3, <2>1, <2>2 DEF GiveUpChild, Inv, TypeInv
  <2> QED BY <1>3, <2>3, LetGoInv DEF GiveUpChild, Alone
<1>4. CASE AbandonChild
  <2>1. proc' \in [Pids -> ProcStates] /\ record' \subseteq Pids
    BY <1>4 DEF AbandonChild, Inv, TypeInv
  <2> QED BY <1>4, <2>1, LetGoInv DEF AbandonChild, Alone
<1>5. CASE EndTurn
  <2>1. PICK after \in Ended(current) : proc' = [proc EXCEPT ![current] = after]
    BY <1>5 DEF EndTurn
  <2>2. after \in ProcStates \ Running /\ (after = "foreign" => proc[current] = "foreign")
    BY <1>0, <2>1, EndedIsEnded DEF Inv
  <2> QED BY <1>0, <1>5, <2>1, <2>2 DEF EndTurn, Inv, TypeInv, Attended, Alone, AtWork
<1>6. CASE EndTurnBlind
  <2>1. PICK after \in GroupEnded(current) : proc' = [proc EXCEPT ![current] = after]
    BY <1>6 DEF EndTurnBlind
  <2>2. after \in ProcStates
    BY <1>0, <2>1, GroupEndedIsTyped DEF Inv, PartlyEnded
  <2> QED BY <1>0, <1>6, <2>1, <2>2 DEF EndTurnBlind, Inv, TypeInv, Attended, Alone, AtWork, Sights
<1> QED BY <1>1, <1>2, <1>3, <1>4, <1>5, <1>6

LEMMA EngineInv == ASSUME Inv, EngineStep PROVE Inv'
<1>1. CASE Start \/ Reconciled \/ Stop
  BY <1>1 DEF Start, Reconciled, Stop, Inv, TypeInv, Attended, Alone, AtWork
<1>2. CASE RemoveRecord
  <2>1. proc' \in [Pids -> ProcStates] /\ record' \subseteq Pids
    BY <1>2 DEF RemoveRecord, Inv, TypeInv
  <2>2. \E next \in Alone : LetGo(next)
    BY <1>2 DEF RemoveRecord, Alone
  <2> QED BY <2>1, <2>2, LetGoInv
<1>3. CASE EndSession \/ ListingFails
  BY <1>3, EndingInv
<1>4. CASE WriteRecord \/ SkipRecord \/ GiveUpChild \/ AbandonChild \/ EndTurn \/ EndTurnBlind
  BY <1>4, TurnInv
<1>5. ASSUME NEW p \in Pids, RefuseReused(p) \/ RefuseVanished(p) \/ LookUp(p) \/ LookUpFails(p)
      PROVE  Inv'
  BY <1>5, ReconcilingInv
<1>6. ASSUME NEW p \in Pids, Spawn(p) PROVE Inv'
  BY <1>6 DEF Spawn, Inv, TypeInv, Attended, Alone, AtWork, ProcStates
<1> QED BY <1>1, <1>2, <1>3, <1>4, <1>5, <1>6 DEF EngineStep

LEMMA MachineInv ==
    ASSUME Inv, NEW p \in Pids,
           LeaderExits(p) \/ LastDescendantExits(p) \/ KilledDies(p) \/ PidReused(p)
    PROVE  Inv'
<1> USE NoneIsNoPid DEF Inv, TypeInv, Attended, Alone, AtWork, ProcStates, Sights, Running
<1>1. CASE LeaderExits(p)
  <2>1. PICK after \in {"orphans", "gone"} : proc' = [proc EXCEPT ![p] = after]
    BY <1>1 DEF LeaderExits
  <2> QED BY <1>1, <2>1 DEF LeaderExits
<1>2. CASE LastDescendantExits(p)
  BY <1>2 DEF LastDescendantExits
<1>3. CASE KilledDies(p)
  BY <1>3 DEF KilledDies
<1>4. CASE PidReused(p)
  BY <1>4 DEF PidReused
<1> QED BY <1>1, <1>2, <1>3, <1>4

LEMMA NextInv == Inv /\ [Next]_vars => Inv'
<1> SUFFICES ASSUME Inv, [Next]_vars PROVE Inv'
  OBVIOUS
<1>1. CASE EngineStep
  BY <1>1, EngineInv
<1>2. CASE Killed
  <2>1. proc' \in [Pids -> ProcStates] /\ record' \subseteq Pids
    BY <1>2 DEF Killed, Inv, TypeInv
  <2> QED BY <1>2, <2>1, LetGoInv DEF Killed, Alone
<1>3. ASSUME NEW p \in Pids,
             LeaderExits(p) \/ LastDescendantExits(p) \/ KilledDies(p) \/ PidReused(p)
      PROVE  Inv'
  BY <1>3, MachineInv
<1>4. CASE UNCHANGED vars
  BY <1>4 DEF vars, Inv, TypeInv, Attended
<1> QED BY <1>1, <1>2, <1>3, <1>4 DEF Next

\* Every reachable state has the shapes the code gives it, and the engine knows of the child it
\* is at work on what the other two theorems need.
THEOREM Reachable == Spec => []Inv
  BY InitInv, NextInv, PTL DEF Spec

-----------------------------------------------------------------------------
(* Records                                                                 *)

LEMMA StepKeepsRecord ==
    ASSUME Inv, [Next]_vars, NEW p \in record \ record', proc[p] \in {"leader", "orphans"}
    PROVE  sight = "blind"
<1>1. RemoveRecord
  BY DEF Next, EngineStep, vars, Start, RemoveRecord, Reconciled, WriteRecord, SkipRecord,
         GiveUpChild, AbandonChild, EndTurn, EndTurnBlind, Stop, RefuseReused, RefuseVanished,
         LookUp, LookUpFails, EndSession, ListingFails, Spawn, Killed, LeaderExits,
         LastDescendantExits, KilledDies, PidReused
<1>2. p = current
  BY <1>1 DEF RemoveRecord
<1> QED BY <1>1, <1>2 DEF RemoveRecord, Inv, Attended, Running

\* The record of a child is removed while processes of its session run on only by the turn that
\* could not list the session at its end (agent.py:404-409), and never by the cleanup of a later
\* command, for any number of children, kills and failures of ps (agent.py:191-193, 498-552).
THEOREM RecordsOutliveChildren == Spec => RecordOutlivesChild
<1>1. Inv /\ [Next]_vars =>
        [\A p \in record \ record' : proc[p] \in {"leader", "orphans"} => sight = "blind"]_vars
  BY StepKeepsRecord
<1> QED BY <1>1, Reachable, PTL DEF Spec, RecordOutlivesChild

-----------------------------------------------------------------------------
(* Strangers                                                               *)

\* A step that can touch a stranger is one of the child at work.
LEMMA StepSparesForeign ==
    ASSUME Inv, [Next]_vars, NEW p \in Pids, proc[p] = "foreign", proc'[p] # "foreign"
    PROVE  current = p /\ sight \in {"unread", "taken"}
<1> USE DEF Inv, TypeInv, Attended, AtWork, Sights
<1>1. CASE EndSession \/ ListingFails \/ EndTurn \/ EndTurnBlind
  <2>1. current \in Pids /\ engine \in {"ending", "waiting"}
    BY <1>1 DEF EndSession, ListingFails, EndTurn, EndTurnBlind
  <2>2. PICK after : proc' = [proc EXCEPT ![current] = after]
    BY <1>1 DEF EndSession, ListingFails, EndTurn, EndTurnBlind
  <2>3. current = p
    BY <2>1, <2>2
  <2> QED BY <2>1, <2>3
<1>2. CASE GiveUpChild
  <2>1. current \in Pids /\ proc[current] = "leader"
    BY <1>2 DEF GiveUpChild
  <2>2. PICK after : proc' = [proc EXCEPT ![current] = after]
    BY <1>2 DEF GiveUpChild
  <2> QED BY <2>1, <2>2
<1>3. ASSUME NEW q \in Pids, Spawn(q) \/ RefuseVanished(q)
      PROVE  FALSE
  <2>1. PICK after : proc' = [proc EXCEPT ![q] = after]
    BY <1>3 DEF Spawn, RefuseVanished
  <2>2. proc[q] \in {"unused", "leader"}
    BY <1>3 DEF Spawn, RefuseVanished
  <2> QED BY <2>1, <2>2
<1>4. CASE \/ Start \/ RemoveRecord \/ Reconciled \/ WriteRecord \/ SkipRecord \/ AbandonChild
           \/ Stop \/ Killed \/ UNCHANGED vars
           \/ \E q \in Pids : RefuseReused(q) \/ LookUp(q) \/ LookUpFails(q)
  BY <1>4 DEF Start, RemoveRecord, Reconciled, WriteRecord, SkipRecord, AbandonChild, Stop, Killed,
              vars, RefuseReused, LookUp, LookUpFails
<1>5. ASSUME NEW q \in Pids,
             LeaderExits(q) \/ LastDescendantExits(q) \/ KilledDies(q) \/ PidReused(q)
      PROVE  FALSE
  BY <1>5 DEF LeaderExits, LastDescendantExits, KilledDies, PidReused
<1> QED BY <1>1, <1>2, <1>3, <1>4, <1>5 DEF Next, EngineStep

\* A process that merely has the pid of an old child is signalled only when ps did not tell the
\* start time the record is compared with, or when the number changed hands after the look; by the
\* cleanup of a later command and at the end of a turn alike (agent.py:403-427, 511-551).
THEOREM StrangersAreSpared == Spec => ForeignSpared
<1>1. Inv /\ [Next]_vars =>
        [\A p \in Pids : proc[p] = "foreign" /\ proc'[p] # "foreign" =>
             current = p /\ sight \in {"unread", "taken"}]_vars
  BY StepSparesForeign
<1> QED BY <1>1, Reachable, PTL DEF Spec, ForeignSpared
=============================================================================
