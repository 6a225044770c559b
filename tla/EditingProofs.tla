--------------------------- MODULE EditingProofs ----------------------------
(***************************************************************************)
(* Safety of the editors of the client: the auto-save scheduler (AutoSave),*)
(* the assistant's edits (AssistantEdits) and the notebook's runs          *)
(* (NotebookRuns), for every number of edits, requests, cells and writes by*)
(* other programs.                                                         *)
(*                                                                         *)
(* SavedMeansSaved is not inductive: when the holder of the slot answers,  *)
(* what the file and the grid contain follows from what has happened since *)
(* the save was sent.  HolderCarriesTheGrid and HolderWroteTheFile keep    *)
(* that knowledge while the save runs.  UnsentIsScheduled is the safe half *)
(* of EveryEditIsSent: whatever hangs, an unsent edit has its timer, or    *)
(* waits for a change job.  It rests on NothingIsLost and RowsWereCarried. *)
(*                                                                         *)
(* None of the three properties of the assistant is inductive.  A promised *)
(* cancel is safe because the flag it has set is looked at wherever the    *)
(* apply may be entered; an edit is of its request because the copy was,   *)
(* ever since it was staged, and a turn that goes astray after that is the *)
(* request's own; and a revert is exact because each step of the apply     *)
(* hands on what the backup stands for.                                    *)
(*                                                                         *)
(* The notebook never gives an id out twice (CellsAreFresh), so that a cell*)
(* is at one place of the notebook and at most one of the queue, and every *)
(* path on which a run ends drains the queue (DrainServes).                *)
(***************************************************************************)
EXTENDS AutoSave, AssistantEdits, NotebookRuns, SequenceTheorems, TLAPS

-----------------------------------------------------------------------------
(* Auto-save *)

\* With no edit waiting and the table not read again, the running save carries
\* the grid.
HolderCarriesTheGrid ==
    \A s \in saves : s.holds /\ ~s.crossed /\ ~debounce /\ ~pending => s.rows = grid

\* A written save that still holds the slot was the last but for late ones.
HolderWroteTheFile ==
    \A s \in saves : s.holds /\ s.landed => disk.rows = s.rows \/ disk.late

SlotInv == AutoSaveTypeOK /\ SlotHasOneHolder
SavedInv == HolderCarriesTheGrid /\ HolderWroteTheFile /\ SavedMeansSaved

\* What a step may do to a save, and that it stays one.
LEMMA SaveMoves ==
    ASSUME NEW s \in Save
    PROVE  /\ [s EXCEPT !.landed = TRUE] \in Save
           /\ [s EXCEPT !.landed = TRUE].holds = s.holds
           /\ [s EXCEPT !.landed = TRUE].crossed = s.crossed
           /\ [s EXCEPT !.landed = TRUE].landed
           /\ [s EXCEPT !.landed = TRUE].rows = s.rows
           /\ [s EXCEPT !.holds = FALSE] \in Save
           /\ ~[s EXCEPT !.holds = FALSE].holds
           /\ [s EXCEPT !.holds = FALSE].rows = s.rows
           /\ [s EXCEPT !.crossed = TRUE] \in Save
           /\ [s EXCEPT !.crossed = TRUE].crossed
           /\ [s EXCEPT !.crossed = TRUE].holds = s.holds
           /\ [s EXCEPT !.crossed = TRUE].landed = s.landed
           /\ [s EXCEPT !.crossed = TRUE].rows = s.rows
  BY DEF Save

\* A table that is read again crosses every save and leaves the rest of it.
LEMMA SavesAreCrossed ==
    ASSUME \A s \in saves : s \in Save, TableReread
    PROVE  \A t \in saves' : \E s \in saves :
               /\ t = [s EXCEPT !.crossed = TRUE] /\ t \in Save
               /\ t.crossed /\ t.holds = s.holds /\ t.landed = s.landed /\ t.rows = s.rows
<1> SUFFICES ASSUME NEW t \in saves'
             PROVE  \E s \in saves :
                        /\ t = [s EXCEPT !.crossed = TRUE] /\ t \in Save
                        /\ t.crossed /\ t.holds = s.holds /\ t.landed = s.landed
                        /\ t.rows = s.rows
  OBVIOUS
<1>1. PICK s \in saves : t = [s EXCEPT !.crossed = TRUE]
  BY DEF TableReread
<1>2. s \in Save
  OBVIOUS
<1>3. QED
  BY <1>1, <1>2, SaveMoves

\* The sets of rows in flight stay sets of edits when the file is written.
LEMMA FileTypes ==
    ASSUME NEW rows \in SUBSET Edits, NEW late \in BOOLEAN, WritesFile(rows, late),
           reread \subseteq SUBSET Edits
    PROVE  /\ disk' \in [rows: SUBSET Edits, late: BOOLEAN]
           /\ disk'.rows = rows /\ disk'.late = late
           /\ reread' \subseteq SUBSET Edits
           /\ reread' \subseteq reread \cup {rows}
           /\ reread # {} => reread' # {}
  BY DEF WritesFile

\* Every step of the scheduler, of its saves and of their jobs preserves types.
LEMMA AutoSaveTypeStep == AutoSaveTypeOK /\ [AutoSaveNext]_autoSaveVars => AutoSaveTypeOK'
<1> SUFFICES ASSUME AutoSaveTypeOK, [AutoSaveNext]_autoSaveVars PROVE AutoSaveTypeOK'
  OBVIOUS
<1> USE DEF schedulerVars, jobVars
<1>1. CASE EditsTable
  BY <1>1, AutoSaveAssumption DEF EditsTable, AutoSaveTypeOK, Edits
<1>2. CASE Trigger
  <2> DEFINE new == [id |-> sent + 1, rows |-> grid, landed |-> FALSE, holds |-> TRUE,
                     crossed |-> FALSE]
  <2>1. new \in Save
    BY DEF Save, AutoSaveTypeOK
  <2>2. /\ debounce' = FALSE /\ slot' \in {slot, TRUE} /\ pending' \in {pending, TRUE}
        /\ sent' \in {sent, sent + 1} /\ carried' \in {carried, carried \cup grid}
        /\ saves' \in {saves, saves \cup {new}}
        /\ skipped' \in {skipped, skipped \cup (grid \ carried)}
        /\ UNCHANGED <<made, grid, disk, status, changeJobs, changeRuns, submission, reread,
                       strayWrites, givenUp>>
    <3>1. pending' \in {pending, TRUE}
      BY <1>2 DEF Trigger
    <3>2. QED
      BY <1>2, <3>1 DEF Trigger
  <2> HIDE DEF new
  <2>3. saves' \subseteq Save /\ sent' \in Nat /\ carried' \subseteq Edits /\ skipped' \subseteq Edits
    BY <2>1, <2>2 DEF AutoSaveTypeOK
  <2>4. debounce' \in BOOLEAN /\ slot' \in BOOLEAN /\ pending' \in BOOLEAN
    BY <2>2 DEF AutoSaveTypeOK
  <2>5. QED
    BY <2>2, <2>3, <2>4 DEF AutoSaveTypeOK
<1>3. ASSUME NEW s \in saves PROVE /\ s \in Save /\ s.rows \in SUBSET Edits /\ s.id \in Nat
                                   /\ s.holds \in BOOLEAN
  BY DEF AutoSaveTypeOK, Save
<1>4. ASSUME NEW s \in saves, SaveWritten(s) PROVE AutoSaveTypeOK'
  <2>1. WritesFile(s.rows, ~s.holds) /\ (~s.holds) \in BOOLEAN
    BY <1>4 DEF SaveWritten
  <2>2. disk' \in [rows: SUBSET Edits, late: BOOLEAN] /\ reread' \subseteq SUBSET Edits
    BY <1>3, <2>1, FileTypes DEF AutoSaveTypeOK
  <2>3. saves' \subseteq Save
    <3> DEFINE u == [s EXCEPT !.landed = TRUE]
    <3>1. u \in Save
      BY <1>3, SaveMoves
    <3>2. saves' = (saves \ {s}) \cup {u}
      BY <1>4 DEF SaveWritten
    <3> HIDE DEF u
    <3>3. QED
      BY <3>1, <3>2 DEF AutoSaveTypeOK
  <2>4. QED
    BY <1>4, <2>2, <2>3 DEF SaveWritten, AutoSaveTypeOK
<1>5. ASSUME NEW s \in saves, Release(s)
      PROVE  slot' \in BOOLEAN /\ pending' \in BOOLEAN /\ debounce' \in BOOLEAN
  BY <1>5 DEF Release, AutoSaveTypeOK
<1>6. ASSUME NEW s \in saves, SaveReturned(s) PROVE AutoSaveTypeOK'
  <2>1. Release(s)
    BY <1>6 DEF SaveReturned
  <2>2. grid' \subseteq Edits /\ givenUp' \subseteq Edits
    BY <1>3, <1>6 DEF SaveReturned, AutoSaveTypeOK
  <2>3. QED
    BY <1>5, <1>6, <2>1, <2>2 DEF SaveReturned, AutoSaveTypeOK
<1>7. ASSUME NEW s \in saves, NEW answered \in BOOLEAN, SaveRejected(s, answered)
      PROVE  AutoSaveTypeOK'
  <2>1. Release(s)
    BY <1>7 DEF SaveRejected
  <2>2. submission' \subseteq SUBSET Edits /\ strayWrites' \subseteq SUBSET Edits
    BY <1>3, <1>7 DEF SaveRejected, AutoSaveTypeOK
  <2>3. QED
    BY <1>5, <1>7, <2>1, <2>2 DEF SaveRejected, AutoSaveTypeOK
<1>8. ASSUME NEW s \in saves, SaveStalled(s) PROVE AutoSaveTypeOK'
  <2>1. Release(s)
    BY <1>8 DEF SaveStalled
  <2>2. saves' \subseteq Save
    <3> DEFINE u == [s EXCEPT !.holds = FALSE]
    <3>1. u \in Save
      BY <1>3, SaveMoves
    <3>2. saves' = (saves \ {s}) \cup {u}
      BY <1>8 DEF SaveStalled
    <3> HIDE DEF u
    <3>3. QED
      BY <3>1, <3>2 DEF AutoSaveTypeOK
  <2>3. QED
    BY <1>5, <1>8, <2>1, <2>2 DEF SaveStalled, AutoSaveTypeOK
<1>9. ASSUME NEW s \in saves, SaveBecomesJob(s) PROVE AutoSaveTypeOK'
  <2>1. Release(s)
    BY <1>9 DEF SaveBecomesJob
  <2>2. [id |-> s.id, rows |-> s.rows, written |-> FALSE] \in ChangeJob
    BY <1>3 DEF ChangeJob
  <2>3. changeJobs' \subseteq ChangeJob /\ submission' \subseteq SUBSET Edits
    <3>1. submission' = {s.rows} /\ changeJobs' = changeJobs \cup
                            {[id |-> s.id, rows |-> s.rows, written |-> FALSE]}
      BY <1>9 DEF SaveBecomesJob
    <3>2. submission' \subseteq SUBSET Edits
      BY <1>3, <3>1
    <3>3. QED
      BY <2>2, <3>1, <3>2 DEF AutoSaveTypeOK
  <2>4. saves' \subseteq Save /\ changeRuns' \in BOOLEAN
    BY <1>9 DEF SaveBecomesJob, AutoSaveTypeOK
  <2>5. slot' \in BOOLEAN /\ pending' \in BOOLEAN /\ debounce' \in BOOLEAN
    BY <1>5, <2>1
  <2>6. UNCHANGED <<made, grid, disk, sent, carried, skipped, reread, strayWrites, givenUp>>
        /\ status' = "applied"
    BY <1>9 DEF SaveBecomesJob
  <2>7. QED
    BY <2>3, <2>4, <2>5, <2>6 DEF AutoSaveTypeOK
<1>10. ASSUME NEW j \in changeJobs
       PROVE  j.rows \in SUBSET Edits /\ [j EXCEPT !.written = TRUE] \in ChangeJob
  <2>1. j \in ChangeJob
    BY DEF AutoSaveTypeOK
  <2>2. QED
    BY <2>1 DEF ChangeJob
<1>11. ASSUME NEW j \in changeJobs, JobWritten(j) PROVE AutoSaveTypeOK'
  <2>1. disk' \in [rows: SUBSET Edits, late: BOOLEAN] /\ reread' \subseteq SUBSET Edits
    BY <1>10, <1>11, FileTypes DEF JobWritten, AutoSaveTypeOK
  <2>2. changeJobs' \subseteq ChangeJob
    BY <1>10, <1>11 DEF JobWritten, AutoSaveTypeOK
  <2>3. QED
    BY <1>11, <2>1, <2>2 DEF JobWritten, AutoSaveTypeOK
<1>12. ASSUME NEW j \in changeJobs, JobSucceeds(j) PROVE AutoSaveTypeOK'
  <2>1. debounce' \in BOOLEAN
    BY <1>12 DEF JobSucceeds, SchedulesLaterEdits, AutoSaveTypeOK
  <2>2. reread' \subseteq SUBSET Edits /\ skipped' \subseteq Edits
    BY <1>12 DEF JobSucceeds, AutoSaveTypeOK
  <2>3. QED
    BY <1>12, <2>1, <2>2 DEF JobSucceeds, AutoSaveTypeOK
<1>13. ASSUME NEW j \in changeJobs, NEW decided \in BOOLEAN, JobFails(j, decided)
       PROVE  AutoSaveTypeOK'
  <2>1. submission' \in {{}, submission} /\ strayWrites' \in {strayWrites, strayWrites \cup {j.rows}}
    BY <1>13 DEF JobFails
  <2>2. submission' \subseteq SUBSET Edits /\ strayWrites' \subseteq SUBSET Edits
    <3>1. submission \subseteq SUBSET Edits /\ strayWrites \subseteq SUBSET Edits
      BY DEF AutoSaveTypeOK
    <3>2. submission' \subseteq SUBSET Edits
      BY <2>1, <3>1
    <3>3. ASSUME NEW t \in strayWrites' PROVE t \in SUBSET Edits
      <4>1. t \in strayWrites \/ t = j.rows
        BY <2>1
      <4>2. j.rows \in SUBSET Edits
        BY <1>10
      <4>3. QED
        BY <3>1, <4>1, <4>2
    <3>4. QED
      BY <3>2, <3>3
  <2>3. /\ changeJobs' \subseteq ChangeJob /\ changeRuns' \in BOOLEAN
        /\ skipped' \subseteq Edits /\ givenUp' \subseteq Edits
    BY <1>13 DEF JobFails, AutoSaveTypeOK
  <2>4. status' = "error" /\ UNCHANGED <<grid, disk, schedulerVars, saves, reread>>
    BY <1>13 DEF JobFails
  <2>5. QED
    BY <2>2, <2>3, <2>4 DEF schedulerVars, AutoSaveTypeOK
<1>14. CASE TableReread
  <2>1. grid' \subseteq Edits /\ givenUp' \subseteq Edits
    BY <1>14 DEF TableReread, AutoSaveTypeOK
  <2>2. saves' \subseteq Save
    BY <1>3, <1>14, SavesAreCrossed
  <2>3. QED
    BY <1>14, <2>1, <2>2 DEF TableReread, AutoSaveTypeOK
<1>15. ASSUME NEW rows \in strayWrites, StrayWritten(rows) PROVE AutoSaveTypeOK'
  <2>1. rows \in SUBSET Edits
    BY DEF AutoSaveTypeOK
  <2>2. disk' \in [rows: SUBSET Edits, late: BOOLEAN] /\ reread' \subseteq SUBSET Edits
    BY <1>15, <2>1, FileTypes DEF StrayWritten, AutoSaveTypeOK
  <2>3. QED
    BY <1>15, <2>2 DEF StrayWritten, AutoSaveTypeOK
<1>16. CASE UNCHANGED autoSaveVars
  BY <1>16 DEF autoSaveVars, AutoSaveTypeOK
<1>17. QED
  BY <1>1, <1>2, <1>4, <1>6, <1>7, <1>8, <1>9, <1>11, <1>12, <1>13, <1>14, <1>15, <1>16
     DEF AutoSaveNext

\* The slot keeps one holder: only the holder's end or its watchdog frees it.
LEMMA SlotStep == SlotInv /\ [AutoSaveNext]_autoSaveVars => SlotHasOneHolder'
<1> SUFFICES ASSUME SlotInv, [AutoSaveNext]_autoSaveVars PROVE SlotHasOneHolder'
  OBVIOUS
<1>1. \A s \in saves : s \in Save
  BY DEF SlotInv, AutoSaveTypeOK
<1>2. /\ slot <=> \E s \in saves : s.holds
      /\ \A s, t \in saves : s.holds /\ t.holds => s = t
  BY DEF SlotInv, SlotHasOneHolder
<1>3. ASSUME UNCHANGED <<slot, saves>> PROVE SlotHasOneHolder'
  BY <1>2, <1>3 DEF SlotHasOneHolder
<1>4. ASSUME NEW s \in saves, Release(s), saves' = saves \ {s} PROVE SlotHasOneHolder'
  BY <1>2, <1>4 DEF Release, SlotHasOneHolder
<1>5. CASE EditsTable \/ UNCHANGED autoSaveVars
  BY <1>3, <1>5 DEF EditsTable, autoSaveVars
<1>6. CASE Trigger
  <2> DEFINE new == [id |-> sent + 1, rows |-> grid, landed |-> FALSE, holds |-> TRUE,
                     crossed |-> FALSE]
  <2>1. new.holds
    OBVIOUS
  <2>2. UNCHANGED <<slot, saves>> \/ (~slot /\ slot' /\ saves' = saves \cup {new})
    BY <1>6 DEF Trigger
  <2> HIDE DEF new
  <2>3. QED
    BY <1>2, <2>1, <2>2 DEF SlotHasOneHolder
<1>7. ASSUME NEW s \in saves, SaveWritten(s) PROVE SlotHasOneHolder'
  <2> DEFINE u == [s EXCEPT !.landed = TRUE]
  <2>1. u.holds = s.holds
    BY <1>1, SaveMoves
  <2>2. saves' = (saves \ {s}) \cup {u} /\ slot' = slot
    BY <1>7 DEF SaveWritten, schedulerVars
  <2> HIDE DEF u
  <2>3. QED
    BY <1>2, <2>1, <2>2 DEF SlotHasOneHolder
<1>8. ASSUME NEW s \in saves,
             \/ SaveReturned(s) \/ SaveBecomesJob(s)
             \/ \E answered \in BOOLEAN : SaveRejected(s, answered)
      PROVE  SlotHasOneHolder'
  BY <1>4, <1>8 DEF SaveReturned, SaveRejected, SaveBecomesJob
<1>9. ASSUME NEW s \in saves, SaveStalled(s) PROVE SlotHasOneHolder'
  <2> DEFINE u == [s EXCEPT !.holds = FALSE]
  <2>1. ~u.holds
    BY <1>1, SaveMoves
  <2>2. saves' = (saves \ {s}) \cup {u} /\ ~slot' /\ s.holds
    BY <1>9 DEF SaveStalled, Release
  <2> HIDE DEF u
  <2>3. QED
    BY <1>2, <2>1, <2>2 DEF SlotHasOneHolder
<1>10. CASE TableReread
  <2>1. slot' = slot /\ \A t \in saves' : \E s \in saves :
            t = [s EXCEPT !.crossed = TRUE] /\ t.holds = s.holds
    BY <1>1, <1>10, SavesAreCrossed DEF TableReread, schedulerVars
  <2>2. \A s \in saves : [s EXCEPT !.crossed = TRUE] \in saves'
                         /\ [s EXCEPT !.crossed = TRUE].holds = s.holds
    BY <1>1, <1>10, SaveMoves DEF TableReread
  <2>3. slot' <=> \E t \in saves' : t.holds
    BY <1>2, <2>1, <2>2
  <2>4. ASSUME NEW s \in saves', NEW t \in saves', s.holds, t.holds PROVE s = t
    <3>1. PICK p \in saves : s = [p EXCEPT !.crossed = TRUE] /\ s.holds = p.holds
      BY <2>1
    <3>2. PICK q \in saves : t = [q EXCEPT !.crossed = TRUE] /\ t.holds = q.holds
      BY <2>1
    <3>3. p = q
      BY <1>2, <2>4, <3>1, <3>2
    <3>4. QED
      BY <3>1, <3>2, <3>3
  <2>5. QED
    BY <2>3, <2>4 DEF SlotHasOneHolder
<1>11. ASSUME NEW j \in changeJobs,
              \/ JobWritten(j) \/ JobSucceeds(j)
              \/ \E decided \in BOOLEAN : JobFails(j, decided)
       PROVE  SlotHasOneHolder'
  BY <1>3, <1>11 DEF JobWritten, JobSucceeds, JobFails, schedulerVars
<1>12. ASSUME NEW rows \in strayWrites, StrayWritten(rows) PROVE SlotHasOneHolder'
  BY <1>3, <1>12 DEF StrayWritten, schedulerVars
<1>13. QED
  BY <1>5, <1>6, <1>7, <1>8, <1>9, <1>10, <1>11, <1>12 DEF AutoSaveNext

\* Where the answer leaves the grid alone, every step preserves what the
\* running save and the status line say about the file.
LEMMA SavedStep ==
    ~AnswerIsGrid /\ SlotInv /\ SavedInv /\ [AutoSaveNext]_autoSaveVars => SavedInv'
<1> SUFFICES ASSUME ~AnswerIsGrid, SlotInv, SavedInv, [AutoSaveNext]_autoSaveVars
             PROVE  SavedInv'
  OBVIOUS
<1>1. \A s \in saves : s \in Save
  BY DEF SlotInv, AutoSaveTypeOK
<1>2. slot <=> \E s \in saves : s.holds
  BY DEF SlotInv, SlotHasOneHolder
<1>3. \A s, t \in saves : s.holds /\ t.holds => s = t
  BY DEF SlotInv, SlotHasOneHolder
<1> USE DEF SavedInv, HolderCarriesTheGrid, HolderWroteTheFile, SavedMeansSaved, Idle,
            schedulerVars, jobVars
<1>4. CASE EditsTable \/ UNCHANGED autoSaveVars
  BY <1>4 DEF EditsTable, autoSaveVars
<1>5. CASE Trigger
  <2> DEFINE new == [id |-> sent + 1, rows |-> grid, landed |-> FALSE, holds |-> TRUE,
                     crossed |-> FALSE]
  <2>1. new.rows = grid /\ ~new.landed
    OBVIOUS
  <2>2. /\ UNCHANGED <<grid, disk, status, changeRuns>>
        /\ \/ slot /\ pending' /\ UNCHANGED <<slot, saves>>
           \/ ~slot /\ changeRuns /\ UNCHANGED saves
           \/ ~slot /\ slot' /\ saves' = saves \cup {new}
    BY <1>5 DEF Trigger
  <2> HIDE DEF new
  <2>3. QED
    BY <1>2, <2>1, <2>2
<1>6. ASSUME NEW s \in saves, SaveWritten(s) PROVE SavedInv'
  <2> DEFINE u == [s EXCEPT !.landed = TRUE]
  <2>1. u.holds = s.holds /\ u.crossed = s.crossed /\ u.rows = s.rows /\ u.landed
    BY <1>1, SaveMoves
  <2>2. /\ saves' = (saves \ {s}) \cup {u}
        /\ disk'.rows = s.rows /\ disk'.late = ~s.holds
        /\ UNCHANGED <<grid, debounce, slot, pending, status, changeRuns>>
    BY <1>6 DEF SaveWritten, WritesFile
  <2> HIDE DEF u
  <2>3. HolderCarriesTheGrid'
    BY <2>1, <2>2
  <2>4. HolderWroteTheFile'
    BY <1>3, <2>1, <2>2
  <2>5. SavedMeansSaved'
    BY <1>2, <2>1, <2>2
  <2>6. QED
    BY <2>3, <2>4, <2>5
<1>7. ASSUME NEW s \in saves, SaveReturned(s) PROVE SavedInv'
  <2>1. s.landed /\ saves' = saves \ {s} /\ UNCHANGED <<grid, disk, changeRuns>>
    BY <1>7 DEF SaveReturned
  <2>2. CASE s.holds
    <3>1. ~slot' /\ ~pending' /\ debounce' = (debounce \/ pending)
      BY <1>7, <2>2 DEF SaveReturned, Release
    <3>2. \A t \in saves' : ~t.holds
      BY <1>3, <2>1, <2>2
    <3>3. status' = "saved" => ~s.crossed
      BY <1>7 DEF SaveReturned
    <3>4. QED
      BY <2>1, <2>2, <3>1, <3>2, <3>3
  <2>3. CASE ~s.holds
    <3>1. UNCHANGED <<slot, pending, debounce>> /\ status' = "late"
      BY <1>7, <2>3 DEF SaveReturned, Release
    <3>2. QED
      BY <2>1, <3>1
  <2>4. QED
    BY <2>2, <2>3
<1>8. ASSUME NEW s \in saves,
             SaveBecomesJob(s) \/ \E answered \in BOOLEAN : SaveRejected(s, answered)
      PROVE  SavedInv'
  <2>1. /\ saves' = saves \ {s} /\ Release(s) /\ UNCHANGED <<grid, disk>>
        /\ status' # "saved"
    BY <1>8 DEF SaveRejected, SaveBecomesJob
  <2>2. s.holds => \A t \in saves' : ~t.holds
    BY <1>3, <2>1
  <2>3. QED
    BY <2>1, <2>2 DEF Release
<1>9. ASSUME NEW s \in saves, SaveStalled(s) PROVE SavedInv'
  <2>1. s \in Save /\ s.holds
    BY <1>1, <1>9 DEF SaveStalled
  <2>2. \A t \in saves' : ~t.holds
    <3> DEFINE u == [s EXCEPT !.holds = FALSE]
    <3>1. ~u.holds
      BY <2>1, SaveMoves
    <3>2. saves' = (saves \ {s}) \cup {u}
      BY <1>9 DEF SaveStalled
    <3> HIDE DEF u
    <3>3. QED
      BY <1>3, <2>1, <3>1, <3>2
  <2>3. QED
    BY <1>9, <2>2 DEF SaveStalled
\* A job, or what nobody waits for, is written late.
<1>10. ASSUME disk'.late, UNCHANGED <<grid, debounce, slot, pending, saves, status, changeRuns>>
       PROVE  SavedInv'
  BY <1>10
<1>11. ASSUME NEW j \in changeJobs, JobWritten(j) PROVE SavedInv'
  BY <1>10, <1>11 DEF JobWritten, WritesFile
<1>12. ASSUME NEW rows \in strayWrites, StrayWritten(rows) PROVE SavedInv'
  BY <1>10, <1>12 DEF StrayWritten, WritesFile
<1>13. ASSUME NEW j \in changeJobs,
              JobSucceeds(j) \/ \E decided \in BOOLEAN : JobFails(j, decided)
       PROVE  SavedInv'
  <2>1. /\ UNCHANGED <<grid, disk, slot, pending, saves>> /\ status' # "saved"
        /\ debounce => debounce'
    BY <1>13 DEF JobSucceeds, JobFails, SchedulesLaterEdits
  <2>2. QED
    BY <2>1
<1>14. CASE TableReread
  <2>1. status' # "saved" /\ UNCHANGED disk
    BY <1>14 DEF TableReread
  <2>2. \A t \in saves' : \E s \in saves :
            t.crossed /\ t.holds = s.holds /\ t.landed = s.landed /\ t.rows = s.rows
    BY <1>1, <1>14, SavesAreCrossed
  <2>3. QED
    BY <2>1, <2>2
<1>15. QED
  BY <1>4, <1>5, <1>6, <1>7, <1>8, <1>9, <1>11, <1>12, <1>13, <1>14 DEF AutoSaveNext

\* project_settings_auto_save.js: the slot has at most one holder, and has one
\* whenever it is taken.
THEOREM SlotSafety == AutoSaveSpec => [](AutoSaveTypeOK /\ SlotHasOneHolder)
<1>1. AutoSaveInit => SlotInv
  <2> SUFFICES ASSUME AutoSaveInit PROVE SlotInv
    OBVIOUS
  <2>1. AutoSaveTypeOK
    <3>1. [rows |-> {}, late |-> FALSE] \in [rows: SUBSET Edits, late: BOOLEAN]
      OBVIOUS
    <3>2. 0 \in 0..MaxEdits
      BY AutoSaveAssumption
    <3>3. QED
      BY <3>1, <3>2 DEF AutoSaveInit, AutoSaveTypeOK
  <2>2. SlotHasOneHolder
    BY DEF AutoSaveInit, SlotHasOneHolder
  <2>3. QED
    BY <2>1, <2>2 DEF SlotInv
<1>2. SlotInv /\ [AutoSaveNext]_autoSaveVars => SlotInv'
  BY AutoSaveTypeStep, SlotStep DEF SlotInv
<1>3. QED
  BY <1>1, <1>2, PTL DEF AutoSaveSpec, SlotInv

\* The dataset types table: "saved" with nothing pending and no job followed
\* means that the file has the grid, unless a given-up save or a job wrote it
\* last.
THEOREM SavedIsInTheFile == ~AnswerIsGrid /\ AutoSaveSpec => []SavedMeansSaved
<1>1. AutoSaveInit => SavedInv
  BY DEF AutoSaveInit, SavedInv, HolderCarriesTheGrid, HolderWroteTheFile, SavedMeansSaved
<1>2. ~AnswerIsGrid /\ SlotInv /\ SavedInv /\ [AutoSaveNext]_autoSaveVars => SavedInv'
  BY SavedStep
<1>3. AutoSaveSpec => []SlotInv
  BY SlotSafety, PTL DEF SlotInv
<1>4. SavedInv => SavedMeansSaved
  BY DEF SavedInv
<1>5. CASE ~AnswerIsGrid
  BY <1>1, <1>2, <1>3, <1>4, <1>5, PTL DEF AutoSaveSpec
<1>6. QED
  BY <1>5

\* An edit that no save has carried, and that was not given up, has the timer,
\* waits for the slot, or waits for a job or for the table that is read after it.
UnsentIsScheduled ==
    \A e \in 1..made : \/ e \in carried \cup givenUp
                       \/ debounce
                       \/ pending /\ slot
                       \/ e \in skipped /\ (changeRuns \/ reread # {})

\* What has left the grid was carried or given up, and nothing waits for a free
\* slot or for a job that has ended.
NothingIsLost ==
    /\ 1..made \subseteq grid \cup carried \cup givenUp
    /\ pending => slot
    /\ skipped # {} => changeRuns \/ reread # {}

\* What may be written, and so what may be read again, a save has carried.
RowsWereCarried ==
    /\ disk.rows \subseteq carried
    /\ \A s \in saves : s.rows \subseteq carried
    /\ \A j \in changeJobs : j.rows \subseteq carried
    /\ \A rows \in strayWrites \cup reread : rows \subseteq carried

ScheduleInv == NothingIsLost /\ RowsWereCarried /\ UnsentIsScheduled

\* Only rows of the grid are sent, and only what was sent is written.
LEMMA CarriedStep ==
    SlotInv /\ RowsWereCarried /\ [AutoSaveNext]_autoSaveVars => RowsWereCarried'
<1> SUFFICES ASSUME SlotInv, RowsWereCarried, [AutoSaveNext]_autoSaveVars
             PROVE  RowsWereCarried'
  OBVIOUS
<1>1. /\ \A s \in saves : s \in Save
      /\ changeJobs \subseteq ChangeJob
  BY DEF SlotInv, AutoSaveTypeOK
<1> USE DEF RowsWereCarried, schedulerVars, jobVars
<1>2. ASSUME NEW rows, NEW late, WritesFile(rows, late)
      PROVE  disk'.rows = rows /\ \A r \in reread' : r \in reread \/ r = rows
  BY <1>2 DEF WritesFile
<1>3. CASE EditsTable \/ UNCHANGED autoSaveVars
  BY <1>3 DEF EditsTable, autoSaveVars
<1>4. CASE Trigger
  <2> DEFINE new == [id |-> sent + 1, rows |-> grid, landed |-> FALSE, holds |-> TRUE,
                     crossed |-> FALSE]
  <2>1. new.rows = grid
    OBVIOUS
  <2>2. /\ UNCHANGED <<disk, changeJobs, reread, strayWrites>>
        /\ UNCHANGED <<saves, carried>> \/ (saves' = saves \cup {new} /\ carried' = carried \cup grid)
    BY <1>4 DEF Trigger
  <2> HIDE DEF new
  <2>3. QED
    BY <2>1, <2>2
<1>5. ASSUME NEW s \in saves, SaveWritten(s) PROVE RowsWereCarried'
  <2> DEFINE u == [s EXCEPT !.landed = TRUE]
  <2>1. u.rows = s.rows
    BY <1>1, SaveMoves
  <2>2. /\ saves' = (saves \ {s}) \cup {u} /\ UNCHANGED <<carried, changeJobs, strayWrites>>
        /\ disk'.rows = s.rows /\ \A r \in reread' : r \in reread \/ r = s.rows
    BY <1>2, <1>5 DEF SaveWritten
  <2> HIDE DEF u
  <2>3. QED
    BY <2>1, <2>2
<1>6. ASSUME NEW s \in saves,
             SaveReturned(s) \/ \E answered \in BOOLEAN : SaveRejected(s, answered)
      PROVE  RowsWereCarried'
  BY <1>6 DEF SaveReturned, SaveRejected
<1>7. ASSUME NEW s \in saves, SaveStalled(s) PROVE RowsWereCarried'
  <2> DEFINE u == [s EXCEPT !.holds = FALSE]
  <2>1. u.rows = s.rows
    BY <1>1, SaveMoves
  <2>2. /\ saves' = (saves \ {s}) \cup {u}
        /\ UNCHANGED <<disk, carried, changeJobs, reread, strayWrites>>
    BY <1>7 DEF SaveStalled
  <2> HIDE DEF u
  <2>3. QED
    BY <2>1, <2>2
<1>8. ASSUME NEW s \in saves, SaveBecomesJob(s) PROVE RowsWereCarried'
  BY <1>8 DEF SaveBecomesJob
<1>9. ASSUME NEW j \in changeJobs, JobWritten(j) PROVE RowsWereCarried'
  <2> DEFINE u == [j EXCEPT !.written = TRUE]
  <2>1. u.rows = j.rows
    BY <1>1 DEF ChangeJob
  <2>2. /\ changeJobs' = (changeJobs \ {j}) \cup {u} /\ UNCHANGED <<carried, saves, strayWrites>>
        /\ disk'.rows = j.rows /\ \A r \in reread' : r \in reread \/ r = j.rows
    BY <1>2, <1>9 DEF JobWritten
  <2> HIDE DEF u
  <2>3. QED
    BY <2>1, <2>2
<1>10. ASSUME NEW j \in changeJobs,
              JobSucceeds(j) \/ \E decided \in BOOLEAN : JobFails(j, decided)
       PROVE  RowsWereCarried'
  BY <1>10 DEF JobSucceeds, JobFails
<1>11. CASE TableReread
  <2>1. reread' = {} /\ UNCHANGED <<disk, carried, changeJobs, strayWrites>>
    BY <1>11 DEF TableReread
  <2>2. \A t \in saves' : \E s \in saves : t.rows = s.rows
    BY <1>1, <1>11, SavesAreCrossed
  <2>3. QED
    BY <2>1, <2>2
<1>12. ASSUME NEW rows \in strayWrites, StrayWritten(rows) PROVE RowsWereCarried'
  <2>1. /\ UNCHANGED <<carried, saves, changeJobs>> /\ strayWrites' \subseteq strayWrites
        /\ disk'.rows = rows /\ \A r \in reread' : r \in reread \/ r = rows
    BY <1>2, <1>12 DEF StrayWritten
  <2>2. QED
    BY <2>1
<1>13. QED
  BY <1>3, <1>4, <1>5, <1>6, <1>7, <1>8, <1>9, <1>10, <1>11, <1>12 DEF AutoSaveNext

\* Whatever ends without sending an edit leaves it scheduled or gives it up.
LEMMA ScheduleStep ==
    SlotInv /\ ScheduleInv /\ [AutoSaveNext]_autoSaveVars
        => NothingIsLost' /\ UnsentIsScheduled'
<1> SUFFICES ASSUME SlotInv, ScheduleInv, [AutoSaveNext]_autoSaveVars
             PROVE  NothingIsLost' /\ UnsentIsScheduled'
  OBVIOUS
<1>1. made \in Nat
  BY AutoSaveAssumption DEF SlotInv, AutoSaveTypeOK
<1> USE DEF ScheduleInv, NothingIsLost, UnsentIsScheduled, schedulerVars, jobVars
<1>2. CASE EditsTable
  <2>1. 1..(made + 1) = (1..made) \cup {made + 1}
    BY <1>1
  <2>2. QED
    BY <1>2, <2>1 DEF EditsTable
<1>3. CASE Trigger
  <2>1. UNCHANGED <<made, grid, changeRuns, reread, givenUp>> /\ debounce
    BY <1>3 DEF Trigger
  <2>2. CASE slot /\ pending' /\ UNCHANGED <<slot, carried, skipped>>
    BY <2>1, <2>2
  <2>3. CASE changeRuns /\ skipped' = skipped \cup (grid \ carried) /\ UNCHANGED <<pending, slot, carried>>
    BY <2>1, <2>3
  <2>4. CASE slot' /\ carried' = carried \cup grid /\ UNCHANGED <<pending, skipped>>
    BY <2>1, <2>4
  <2>5. QED
    BY <1>3, <2>2, <2>3, <2>4 DEF Trigger
\* A file that is written leaves the schedule alone.
<1>4. ASSUME NEW rows, NEW late, WritesFile(rows, late),
             UNCHANGED <<made, grid, debounce, slot, pending, carried, changeRuns, skipped, givenUp>>
      PROVE  NothingIsLost' /\ UnsentIsScheduled'
  <2>1. reread # {} => reread' # {}
    BY <1>4 DEF WritesFile
  <2>2. QED
    BY <1>4, <2>1
<1>5. ASSUME NEW s \in saves, SaveWritten(s) PROVE NothingIsLost' /\ UnsentIsScheduled'
  BY <1>4, <1>5 DEF SaveWritten
<1>6. ASSUME NEW s \in saves, Release(s), UNCHANGED <<made, carried, skipped, reread>>,
             changeRuns => changeRuns', givenUp \subseteq givenUp', grid \subseteq grid' \cup givenUp'
      PROVE  NothingIsLost' /\ UnsentIsScheduled'
  <2>1. debounce \/ (pending /\ slot) => debounce' \/ (pending' /\ slot')
    BY <1>6 DEF Release
  <2>2. (pending => slot) => (pending' => slot')
    BY <1>6 DEF Release
  <2>3. QED
    BY <1>6, <2>1, <2>2
<1>7. ASSUME NEW s \in saves,
             \/ SaveReturned(s) \/ SaveStalled(s) \/ SaveBecomesJob(s)
             \/ \E answered \in BOOLEAN : SaveRejected(s, answered)
      PROVE  NothingIsLost' /\ UnsentIsScheduled'
  BY <1>6, <1>7 DEF SaveReturned, SaveStalled, SaveBecomesJob, SaveRejected
<1>8. ASSUME NEW j \in changeJobs, JobWritten(j) PROVE NothingIsLost' /\ UnsentIsScheduled'
  BY <1>4, <1>8 DEF JobWritten
<1>9. ASSUME NEW j \in changeJobs, JobSucceeds(j) PROVE NothingIsLost' /\ UnsentIsScheduled'
  <2>1. UNCHANGED <<made, grid, slot, pending, carried, givenUp>>
    BY <1>9 DEF JobSucceeds
  <2>2. CASE debounce' = TRUE /\ skipped' = {}
    BY <2>1, <2>2
  <2>3. CASE reread' # {} /\ UNCHANGED <<debounce, skipped>>
    BY <2>1, <2>3
  <2>4. QED
    BY <1>9, <2>2, <2>3 DEF JobSucceeds, SchedulesLaterEdits
<1>10. ASSUME NEW j \in changeJobs, NEW decided \in BOOLEAN, JobFails(j, decided)
       PROVE  NothingIsLost' /\ UnsentIsScheduled'
  BY <1>10 DEF JobFails
\* What was skipped and is in the table that was read, a save has carried.
<1>11. CASE TableReread
  <2>1. PICK rows \in reread \cup {{}} :
            grid' = rows /\ givenUp' = givenUp \cup ((grid \cup skipped) \ rows)
    BY <1>11 DEF TableReread
  <2>2. rows \subseteq carried
    BY DEF RowsWereCarried
  <2>3. skipped' = {} /\ UNCHANGED <<made, debounce, slot, pending, carried, changeRuns>>
    BY <1>11 DEF TableReread
  <2>4. QED
    BY <2>1, <2>2, <2>3
<1>12. ASSUME NEW rows \in strayWrites, StrayWritten(rows)
       PROVE  NothingIsLost' /\ UnsentIsScheduled'
  BY <1>4, <1>12 DEF StrayWritten
<1>13. CASE UNCHANGED autoSaveVars
  BY <1>13 DEF autoSaveVars
<1>14. QED
  BY <1>2, <1>3, <1>5, <1>7, <1>8, <1>9, <1>10, <1>11, <1>12, <1>13 DEF AutoSaveNext

\* Either table: whatever save is running, given up or late, and whatever job is
\* followed, an edit that was not sent yet and was not given up has a timer, or
\* the end of a running save or job to schedule it or give it up.  What is left
\* to fairness is that timers fire and jobs end.
THEOREM UnsentEditsAreScheduled == AutoSaveSpec => []UnsentIsScheduled
<1>1. AutoSaveInit => ScheduleInv
  BY DEF AutoSaveInit, ScheduleInv, NothingIsLost, RowsWereCarried, UnsentIsScheduled
<1>2. SlotInv /\ ScheduleInv /\ [AutoSaveNext]_autoSaveVars => ScheduleInv'
  BY ScheduleStep, CarriedStep DEF ScheduleInv
<1>3. AutoSaveSpec => []SlotInv
  BY SlotSafety, PTL DEF SlotInv
<1>4. ScheduleInv => UnsentIsScheduled
  BY DEF ScheduleInv
<1>5. QED
  BY <1>1, <1>2, <1>3, <1>4, PTL DEF AutoSaveSpec

-----------------------------------------------------------------------------
(* The assistant's edits *)

\* Nothing has happened before the first request.
NothingBeforeTheFirst ==
    asked = 0 => stage = "idle" /\ turn = "none" /\ ~latest.recorded

CancelIsKept == promised => canceled /\ stage \notin Applying

\* From its staging on, the copy of a request and the turns nobody waits for
\* are its own or those of the strays of that time.
StagedSince == stage \notin {"idle", "preparing", "reverting"}
CopyIsOfItsRequest ==
    /\ StagedSince => copy \cup strays \subseteq {asked} \cup session.strays
    /\ AppliedEditIsOfItsRequest

\* A backup is what its apply replaces, or will replace, unless a gap is noted.
BackupIsOfTheReplaced ==
    /\ stage = "backed" => backup = target \/ gap
    /\ stage = "replaced" => backup = replaced \/ gap
    /\ latest.recorded => latest.backup = latest.replaced \/ latest.gap
    /\ stage = "reverting" => latest.recorded

AssistantInv ==
    /\ AssistantTypeOK
    /\ NothingBeforeTheFirst
    /\ CancelIsKept
    /\ CopyIsOfItsRequest
    /\ BackupIsOfTheReplaced

\* The idle host of the beginning satisfies the invariant.
LEMMA InitAssistantInv == AssistantInit => AssistantInv
<1> SUFFICES ASSUME AssistantInit PROVE AssistantInv
  OBVIOUS
<1>1. 0 \in Contents /\ 0 \in 0..MaxRequests /\ 0 \in 0..MaxTargetWrites
  BY AssistantBounds DEF Contents
<1>2. AssistantTypeOK
  BY <1>1 DEF AssistantInit, AssistantTypeOK, NoEdit
<1>3. NothingBeforeTheFirst /\ CancelIsKept /\ CopyIsOfItsRequest /\ BackupIsOfTheReplaced
  BY DEF AssistantInit, NothingBeforeTheFirst, CancelIsKept, CopyIsOfItsRequest, StagedSince,
     AppliedEditIsOfItsRequest, BackupIsOfTheReplaced, Applying, NoEdit
<1>4. QED
  BY <1>2, <1>3 DEF AssistantInv

\* A request is in progress, or an edit recorded, only after the first began.
LEMMA NothingBeforeTheFirstStep ==
    AssistantTypeOK /\ NothingBeforeTheFirst /\ [AssistantNext]_assistantVars
        => NothingBeforeTheFirst'
<1> SUFFICES ASSUME AssistantTypeOK, NothingBeforeTheFirst, [AssistantNext]_assistantVars
             PROVE  NothingBeforeTheFirst'
  OBVIOUS
<1> USE DEF NothingBeforeTheFirst, requestVars, turnVars, applyVars, targetVars
<1>1. CASE RequestBegins
  BY <1>1 DEF RequestBegins, AssistantTypeOK
<1>2. CASE \/ Prepared \/ ThreadStarted \/ ThreadFails \/ TurnAccepted \/ TurnThrows
           \/ TurnCompleted \/ FallbackEnds \/ TurnStops \/ ServerExits
  BY <1>2 DEF Prepared, ThreadStarted, ThreadFails, TurnAccepted, TurnThrows, TurnCompleted,
      FallbackEnds, TurnStops, ServerExits, WarmTurnThrows, Abandoned
<1>3. CASE \/ ApplyRefused \/ Backup \/ Replace \/ RecordLatest \/ ApplyThrows
           \/ RevertChecks \/ RevertCopies
  BY <1>3 DEF ApplyRefused, Backup, Replace, RecordLatest, ApplyThrows, RevertChecks,
      RevertCopies
<1>4. CASE \/ \E n \in RequestIds : CopyEditedBy(n)
           \/ \E n \in strays : StrayStops(n)
           \/ CancelRequested \/ OutsiderWritesTarget \/ UNCHANGED assistantVars
  BY <1>4 DEF CopyEditedBy, StrayStops, CancelRequested, OutsiderWritesTarget, assistantVars
<1>5. QED
  BY <1>1, <1>2, <1>3, <1>4 DEF AssistantNext

\* Every step preserves types: contents and request numbers keep their range.
LEMMA AssistantTypeStep ==
    AssistantTypeOK /\ NothingBeforeTheFirst /\ [AssistantNext]_assistantVars
        => AssistantTypeOK'
<1> SUFFICES ASSUME AssistantTypeOK, NothingBeforeTheFirst, [AssistantNext]_assistantVars
             PROVE  AssistantTypeOK'
  OBVIOUS
<1> USE AssistantBounds
    DEF AssistantTypeOK, requestVars, turnVars, applyVars, targetVars, InTurn, Applying
<1>1. CASE RequestBegins \/ CancelRequested
  <2>1. asked' \in 0..MaxRequests
    BY <1>1 DEF RequestBegins, CancelRequested
  <2>2. QED
    BY <1>1, <2>1 DEF RequestBegins, CancelRequested
<1>2. CASE Prepared
  BY <1>2 DEF Prepared, Stages
<1>3. CASE ThreadStarted \/ ThreadFails
  BY <1>3 DEF ThreadStarted, ThreadFails, WarmTurnThrows
<1>4. CASE TurnAccepted \/ TurnThrows
  <2>1. turn = "running" => asked \in RequestIds
    BY DEF NothingBeforeTheFirst, RequestIds
  <2>2. stage' \in {"idle", "waiting", "fallback"}
    BY <1>4 DEF TurnAccepted, TurnThrows, WarmTurnThrows
  <2>3. QED
    BY <1>4, <2>1, <2>2 DEF TurnAccepted, TurnThrows, Abandoned
<1>5. CASE TurnCompleted \/ FallbackEnds
  BY <1>5 DEF TurnCompleted, FallbackEnds, Responds, EndsUnanswered
<1>6. CASE \/ \E n \in RequestIds : CopyEditedBy(n)
           \/ \E n \in strays : StrayStops(n)
           \/ TurnStops
  BY <1>6 DEF CopyEditedBy, StrayStops, TurnStops
<1>7. CASE ServerExits
  BY <1>7 DEF ServerExits, WarmTurnThrows
<1>8. CASE ApplyRefused \/ ApplyThrows \/ RevertChecks
  BY <1>8 DEF ApplyRefused, ApplyThrows, RevertChecks
<1>9. CASE Backup
  BY <1>9 DEF Backup, BacksUp
<1>10. CASE Replace \/ RecordLatest
  <2>1. EditOf(asked) \in Contents
    BY DEF EditOf, Contents
  <2>2. CASE Replace
    BY <1>10, <2>1, <2>2 DEF Replace
  <2>3. CASE RecordLatest
    <3>1. latest' \in [recorded: BOOLEAN, after: Contents, backup: Contents,
                       replaced: Contents, gap: BOOLEAN]
      BY <2>1, <2>3 DEF RecordLatest
    <3>2. QED
      BY <2>3, <3>1 DEF RecordLatest
  <2>4. QED
    BY <1>10, <2>2, <2>3
<1>11. CASE OutsiderWritesTarget
  <2>1. written' \in 0..MaxTargetWrites /\ target' \in Contents
    BY <1>11 DEF OutsiderWritesTarget, Contents
  <2>2. QED
    BY <1>11, <2>1 DEF OutsiderWritesTarget
<1>12. CASE RevertCopies
  <2>1. 0 \in Contents
    BY DEF Contents
  <2>2. NoEdit \in [recorded: BOOLEAN, after: Contents, backup: Contents,
                    replaced: Contents, gap: BOOLEAN]
    BY <2>1 DEF NoEdit
  <2>3. target' \in Contents
    BY <1>12 DEF RevertCopies
  <2>4. QED
    BY <1>12, <2>2, <2>3 DEF RevertCopies
<1>13. CASE UNCHANGED assistantVars
  BY <1>13 DEF assistantVars
<1>14. QED
  BY <1>1, <1>2, <1>3, <1>4, <1>5, <1>6, <1>7, <1>8, <1>9, <1>10, <1>11, <1>12, <1>13
  DEF AssistantNext

\* The flag of a promised cancel keeps its request out of the apply.
LEMMA CancelIsKeptStep == CancelIsKept /\ [AssistantNext]_assistantVars => CancelIsKept'
<1> SUFFICES ASSUME CancelIsKept, [AssistantNext]_assistantVars PROVE CancelIsKept'
  OBVIOUS
<1> USE DEF CancelIsKept, Applying, requestVars
<1>1. CASE RequestBegins \/ CancelRequested
  BY <1>1 DEF RequestBegins, CancelRequested, InTurn
<1>2. CASE Prepared \/ ThreadStarted \/ ThreadFails \/ TurnAccepted \/ TurnThrows \/ ServerExits
  BY <1>2 DEF Prepared, ThreadStarted, ThreadFails, TurnAccepted, TurnThrows, ServerExits,
      WarmTurnThrows
<1>3. CASE TurnCompleted \/ FallbackEnds
  BY <1>3 DEF TurnCompleted, FallbackEnds, Responds, EndsUnanswered
<1>4. CASE \/ ApplyRefused \/ Backup \/ Replace \/ RecordLatest \/ ApplyThrows
           \/ RevertChecks \/ RevertCopies
  BY <1>4 DEF ApplyRefused, Backup, Replace, RecordLatest, ApplyThrows, RevertChecks,
      RevertCopies
<1>5. CASE \/ \E n \in RequestIds : CopyEditedBy(n)
           \/ \E n \in strays : StrayStops(n)
           \/ TurnStops \/ OutsiderWritesTarget \/ UNCHANGED assistantVars
  BY <1>5 DEF CopyEditedBy, StrayStops, TurnStops, OutsiderWritesTarget, assistantVars
<1>6. QED
  BY <1>1, <1>2, <1>3, <1>4, <1>5 DEF AssistantNext

\* The copy of a staged request is edited by it and by the strays only.
LEMMA CopyIsOfItsRequestStep ==
    CopyIsOfItsRequest /\ [AssistantNext]_assistantVars => CopyIsOfItsRequest'
<1> SUFFICES ASSUME CopyIsOfItsRequest, [AssistantNext]_assistantVars
             PROVE  CopyIsOfItsRequest'
  OBVIOUS
<1> USE DEF CopyIsOfItsRequest, AppliedEditIsOfItsRequest, StagedSince, Applying,
            requestVars, turnVars, applyVars
<1>1. CASE RequestBegins \/ CancelRequested
  BY <1>1 DEF RequestBegins, CancelRequested
<1>2. CASE Prepared
  BY <1>2 DEF Prepared, Stages
<1>3. CASE ThreadStarted \/ ThreadFails \/ TurnAccepted \/ TurnThrows \/ ServerExits
  BY <1>3 DEF ThreadStarted, ThreadFails, TurnAccepted, TurnThrows, ServerExits,
      WarmTurnThrows, Abandoned
<1>4. CASE TurnCompleted \/ FallbackEnds
  BY <1>4 DEF TurnCompleted, FallbackEnds, Responds, EndsUnanswered
<1>5. CASE \/ \E n \in RequestIds : CopyEditedBy(n)
           \/ \E n \in strays : StrayStops(n)
  BY <1>5 DEF CopyEditedBy, StrayStops
<1>6. CASE \/ ApplyRefused \/ Backup \/ Replace \/ RecordLatest \/ ApplyThrows
           \/ RevertChecks \/ RevertCopies
  BY <1>6 DEF ApplyRefused, Backup, Replace, RecordLatest, ApplyThrows, RevertChecks,
      RevertCopies
<1>7. CASE TurnStops \/ OutsiderWritesTarget \/ UNCHANGED assistantVars
  BY <1>7 DEF TurnStops, OutsiderWritesTarget, assistantVars
<1>8. QED
  BY <1>1, <1>2, <1>3, <1>4, <1>5, <1>6, <1>7 DEF AssistantNext

\* Each step of the apply hands on what the backup stands for.
LEMMA BackupIsOfTheReplacedStep ==
    BackupIsOfTheReplaced /\ [AssistantNext]_assistantVars => BackupIsOfTheReplaced'
<1> SUFFICES ASSUME BackupIsOfTheReplaced, [AssistantNext]_assistantVars
             PROVE  BackupIsOfTheReplaced'
  OBVIOUS
<1> USE DEF BackupIsOfTheReplaced, requestVars, turnVars, applyVars, targetVars
<1>1. CASE RequestBegins \/ CancelRequested
  BY <1>1 DEF RequestBegins, CancelRequested
<1>2. CASE \/ Prepared \/ ThreadStarted \/ ThreadFails \/ TurnAccepted \/ TurnThrows
           \/ TurnCompleted \/ FallbackEnds \/ ServerExits
  BY <1>2 DEF Prepared, ThreadStarted, ThreadFails, TurnAccepted, TurnThrows, TurnCompleted,
      FallbackEnds, ServerExits, WarmTurnThrows, Responds, EndsUnanswered
<1>3. CASE Backup
  BY <1>3 DEF Backup, BacksUp
<1>4. CASE Replace \/ RecordLatest \/ ApplyRefused \/ ApplyThrows
  BY <1>4 DEF Replace, RecordLatest, ApplyRefused, ApplyThrows
<1>5. CASE RevertChecks \/ RevertCopies
  BY <1>5 DEF RevertChecks, RevertCopies, NoEdit
<1>6. CASE OutsiderWritesTarget
  BY <1>6 DEF OutsiderWritesTarget
<1>7. CASE \/ \E n \in RequestIds : CopyEditedBy(n)
           \/ \E n \in strays : StrayStops(n)
           \/ TurnStops \/ UNCHANGED assistantVars
  BY <1>7 DEF CopyEditedBy, StrayStops, TurnStops, assistantVars
<1>8. QED
  BY <1>1, <1>2, <1>3, <1>4, <1>5, <1>6, <1>7 DEF AssistantNext

\* The invariant holds in every reachable state.
THEOREM AssistantInvariance == AssistantSpec => []AssistantInv
<1>1. AssistantInit => AssistantInv
  BY InitAssistantInv
<1>2. AssistantInv /\ [AssistantNext]_assistantVars => AssistantInv'
  BY NothingBeforeTheFirstStep, AssistantTypeStep, CancelIsKeptStep, CopyIsOfItsRequestStep,
     BackupIsOfTheReplacedStep DEF AssistantInv
<1>3. QED
  BY <1>1, <1>2, PTL DEF AssistantSpec

\* codex-assistant-cancel: a request whose cancel was answered with success
\* is never applied.
THEOREM CancelPreventsApply == AssistantSpec => []CanceledRequestIsNotApplied
<1>1. AssistantInv => CanceledRequestIsNotApplied
  BY DEF AssistantInv, CancelIsKept, CanceledRequestIsNotApplied
<1>2. QED
  BY <1>1, AssistantInvariance, PTL

\* createArcBotEditSession: no edit of an earlier request is applied, except
\* of a turn that ran on unattended when the copy was staged.
THEOREM EditsStayApart == AssistantSpec => []AppliedEditIsOfItsRequest
<1>1. AssistantInv => AppliedEditIsOfItsRequest
  BY DEF AssistantInv, CopyIsOfItsRequest
<1>2. QED
  BY <1>1, AssistantInvariance, PTL

\* revertLatestArcBotEdit: a revert restores what the latest edit replaced.
THEOREM RevertIsExact == AssistantSpec => RevertRestoresTheReplaced
<1>1. AssistantInv /\ [AssistantNext]_assistantVars
        => [stage = "reverting" /\ stage' = "idle"
               => target' = latest.replaced \/ latest.gap]_assistantVars
  <2> SUFFICES ASSUME AssistantInv, AssistantNext, stage = "reverting", stage' = "idle"
               PROVE  target' = latest.replaced \/ latest.gap
    OBVIOUS
  <2>1. RevertCopies
    BY DEF AssistantNext, RequestBegins, Prepared, ThreadStarted, ThreadFails, TurnAccepted,
       TurnThrows, TurnCompleted, FallbackEnds, CancelRequested, CopyEditedBy, TurnStops,
       StrayStops, ServerExits, ApplyRefused, Backup, Replace, RecordLatest, ApplyThrows,
       OutsiderWritesTarget, RevertChecks, requestVars
  <2>2. QED
    BY <2>1 DEF RevertCopies, AssistantInv, BackupIsOfTheReplaced
<1>2. QED
  BY <1>1, AssistantInvariance, PTL DEF AssistantSpec, RevertRestoresTheReplaced

-----------------------------------------------------------------------------
(* The notebook *)

\* A cell that was added is never added again, and there are at most as many
\* cells as ids given out.
CellsAreFresh ==
    /\ \A i \in DOMAIN cells : cells[i] < nextCellId
    /\ Len(cells) < nextCellId

NotebookInv == NotebookTypeOK /\ CellsAreFresh

-----------------------------------------------------------------------------
\* What splicing one element out of a list without repetitions leaves.
LEMMA RemovedOne ==
    ASSUME NEW S, NEW s \in Seq(S), IsInjective(s), NEW e
    PROVE  /\ RemoveFirst(s, e) \in Seq(S) /\ IsInjective(RemoveFirst(s, e))
           /\ \A i \in DOMAIN RemoveFirst(s, e) : \E j \in DOMAIN s : RemoveFirst(s, e)[i] = s[j]
           /\ Len(RemoveFirst(s, e)) \in {Len(s), Len(s) - 1}
<1>1. CASE ~\E i \in 1..Len(s) : s[i] = e
  <2>1. RemoveFirst(s, e) = s
    BY <1>1 DEF RemoveFirst
  <2>2. QED
    BY <2>1
<1>2. CASE \E i \in 1..Len(s) : s[i] = e
  <2>1. PICK k \in 1..Len(s) : s[k] = e
    BY <1>2
  <2>2. {i \in 1..Len(s) : s[i] = e} = {k}
    BY <2>1 DEF IsInjective
  <2>3. SelectInSeq(s, LAMBDA v : v = e) = k
    BY <2>2 DEF SelectInSeq, Min
  <2>4. RemoveFirst(s, e) = RemoveAt(s, k)
    BY <1>2, <2>3 DEF RemoveFirst
  <2>5. /\ RemoveAt(s, k) \in Seq(S) /\ Len(RemoveAt(s, k)) = Len(s) - 1
        /\ \A i \in 1..Len(s) - 1 : RemoveAt(s, k)[i] = IF i < k THEN s[i] ELSE s[i + 1]
    <3> DEFINE left == SubSeq(s, 1, k - 1)
               right == SubSeq(s, k + 1, Len(s))
    <3>1. /\ left \in Seq(S) /\ Len(left) = k - 1
          /\ \A i \in 1..k - 1 : left[i] = s[i]
      BY SubSeqProperties
    <3>2. /\ right \in Seq(S) /\ Len(right) = Len(s) - k
          /\ \A i \in 1..Len(s) - k : right[i] = s[k + i]
      <4>1. \A i \in k + 1 .. Len(s) : s[i] \in S
        OBVIOUS
      <4>2. QED
        BY <4>1, SubSeqProperties
    <3>3. RemoveAt(s, k) = left \o right
      BY DEF RemoveAt
    <3> HIDE DEF left, right
    <3>4. /\ left \o right \in Seq(S) /\ Len(left \o right) = Len(left) + Len(right)
          /\ \A i \in 1..Len(left) + Len(right) :
                 (left \o right)[i] = IF i <= Len(left) THEN left[i] ELSE right[i - Len(left)]
      BY <3>1, <3>2, ConcatProperties
    <3>5. Len(s) \in Nat /\ k \in 1..Len(s)
      OBVIOUS
    <3>6. ASSUME NEW i \in 1..Len(s) - 1
          PROVE  RemoveAt(s, k)[i] = IF i < k THEN s[i] ELSE s[i + 1]
      <4>1. CASE i < k
        BY <3>1, <3>2, <3>3, <3>4, <3>5, <4>1
      <4>2. CASE ~(i < k)
        <5>1. i - (k - 1) \in 1..Len(s) - k /\ k + (i - (k - 1)) = i + 1
          BY <3>5, <4>2
        <5>2. (left \o right)[i] = right[i - (k - 1)]
          BY <3>1, <3>2, <3>4, <3>5, <4>2
        <5>3. QED
          BY <3>2, <3>3, <4>2, <5>1, <5>2
      <4>3. QED
        BY <4>1, <4>2
    <3>7. QED
      BY <3>1, <3>2, <3>3, <3>4, <3>5, <3>6
  <2>6. IsInjective(RemoveAt(s, k))
    <3> DEFINE left == RemoveAt(s, k)
               From(i) == IF i < k THEN i ELSE i + 1
    <3>1. Len(s) \in Nat /\ DOMAIN s = 1..Len(s) /\ DOMAIN left = 1..Len(s) - 1
      BY <2>5
    <3>2. \A i \in DOMAIN left : From(i) \in DOMAIN s /\ left[i] = s[From(i)]
      BY <2>5, <3>1
    <3>3. \A i, j \in DOMAIN left : From(i) = From(j) => i = j
      BY <3>1
    <3> HIDE DEF left, From
    <3>4. \A i, j \in DOMAIN left : left[i] = left[j] => i = j
      BY <3>2, <3>3 DEF IsInjective
    <3>5. QED
      BY <3>4 DEF IsInjective, left
  <2>7. ASSUME NEW i \in DOMAIN RemoveAt(s, k)
        PROVE  \E j \in DOMAIN s : RemoveAt(s, k)[i] = s[j]
    <3>1. Len(s) \in Nat /\ DOMAIN s = 1..Len(s) /\ i \in 1..Len(s) - 1
      BY <2>5
    <3>2. i \in DOMAIN s /\ i + 1 \in DOMAIN s
      BY <3>1
    <3>3. RemoveAt(s, k)[i] = s[i] \/ RemoveAt(s, k)[i] = s[i + 1]
      BY <2>5, <3>1
    <3>4. QED
      BY <3>2, <3>3
  <2>8. QED
    BY <2>4, <2>5, <2>6, <2>7
<1>3. QED
  BY <1>1, <1>2

\* What is left of a list after a position.
LEMMA LeftAfter ==
    ASSUME NEW S, NEW s \in Seq(S), NEW at \in Nat
    PROVE  /\ After(s, at) \in Seq(S)
           /\ Len(After(s, at)) = IF at <= Len(s) THEN Len(s) - at ELSE 0
           /\ \A i \in DOMAIN After(s, at) : After(s, at)[i] = s[at + i]
           /\ IsInjective(s) => IsInjective(After(s, at))
<1>1. \A i \in at + 1 .. Len(s) : s[i] \in S
  OBVIOUS
<1>2. /\ After(s, at) \in Seq(S)
      /\ Len(After(s, at)) = IF at + 1 <= Len(s) THEN Len(s) - (at + 1) + 1 ELSE 0
      /\ \A i \in 1..Len(s) - (at + 1) + 1 : After(s, at)[i] = s[(at + 1) + i - 1]
  BY <1>1, SubSeqProperties DEF After
<1>3. /\ Len(After(s, at)) = IF at <= Len(s) THEN Len(s) - at ELSE 0
      /\ DOMAIN After(s, at) = 1..Len(After(s, at))
  BY <1>2
<1>4. \A i \in DOMAIN After(s, at) : After(s, at)[i] = s[at + i] /\ at + i \in DOMAIN s
  <2>1. SUFFICES ASSUME NEW i \in DOMAIN After(s, at)
                 PROVE  After(s, at)[i] = s[at + i] /\ at + i \in DOMAIN s
    OBVIOUS
  <2>2. i \in 1..(IF at <= Len(s) THEN Len(s) - at ELSE 0)
    BY <1>3
  <2>3. Len(s) \in Nat /\ DOMAIN s = 1..Len(s)
    OBVIOUS
  <2>4. i \in Nat /\ 1 <= i /\ at + i <= Len(s)
    BY <2>2, <2>3
  <2>5. i \in 1..Len(s) - (at + 1) + 1 /\ (at + 1) + i - 1 = at + i /\ at + i \in 1..Len(s)
    BY <2>3, <2>4
  <2>6. QED
    BY <1>2, <2>3, <2>5
<1>5. ASSUME IsInjective(s) PROVE IsInjective(After(s, at))
  <2>1. SUFFICES ASSUME NEW i \in DOMAIN After(s, at), NEW j \in DOMAIN After(s, at),
                        After(s, at)[i] = After(s, at)[j]
                 PROVE  i = j
    BY DEF IsInjective
  <2>2. at + i = at + j
    BY <1>4, <1>5, <2>1 DEF IsInjective
  <2>3. QED
    BY <1>3, <2>2
<1>6. QED
  BY <1>2, <1>3, <1>4, <1>5

\* A cell that leaves the queue to run is a cell.
LEMMA DequeuedType ==
    ASSUME NotebookTypeOK, NEW id
    PROVE  Dequeued(id) \in Seq(CellIds) /\ IsInjective(Dequeued(id))
  BY RemovedOne DEF NotebookTypeOK, Dequeued

\* The part of the types that runs and drains write.
RunTypes ==
    /\ queue \in Seq(CellIds) /\ IsInjective(queue)
    /\ running \in CellIds \cup {NoCell}
    /\ runner \in {"none", "click", "advance", "all", "selected", "drain"}
    /\ rest \in Seq(CellIds) /\ done \in 0..MaxCells

\* The page is idle after a drain only when the queue is empty.
LEMMA DrainServes ==
    ASSUME NotebookTypeOK, Drain(queue)
    PROVE  RunTypes' /\ (running' = NoCell => queue' = <<>>)
<1>1. /\ queue \in Seq(CellIds) /\ IsInjective(queue)
      /\ <<>> \in Seq(CellIds) /\ 0 \in 0..MaxCells /\ IsInjective(<<>>)
  BY NotebookAssumption DEF NotebookTypeOK, IsInjective
<1>2. CASE Executable(queue) = {} /\ Stops /\ queue' = <<>>
  BY <1>1, <1>2 DEF Stops, RunTypes
<1>3. ASSUME NEW i \in DOMAIN queue, Runs(queue[i], "drain", <<>>, 0), queue' = After(queue, i)
      PROVE  RunTypes' /\ running' # NoCell
  <2>1. queue[i] \in CellIds /\ queue[i] # NoCell
    BY <1>1, NotebookAssumption DEF CellIds
  <2>2. queue' \in Seq(CellIds) /\ IsInjective(queue')
    BY <1>1, <1>3, LeftAfter
  <2>3. QED
    BY <1>1, <1>3, <2>1, <2>2 DEF Runs, RunTypes
<1>4. QED
  BY <1>2, <1>3 DEF Drain

\* A loop over several cells runs one of them or drains.
LEMMA SelectedServes ==
    ASSUME NotebookTypeOK, NEW ids \in Seq(CellIds), SelectedGoesOn(ids)
    PROVE  RunTypes' /\ (running' = NoCell => queue' = <<>>)
<1>1. CASE Executable(ids) = {} /\ Drain(queue)
  BY <1>1, DrainServes
<1>2. ASSUME NEW i \in DOMAIN ids, Runs(ids[i], "selected", After(ids, i), 0),
             queue' = Dequeued(ids[i])
      PROVE  RunTypes' /\ running' # NoCell
  <2>1. ids[i] \in CellIds /\ ids[i] # NoCell /\ 0 \in 0..MaxCells
    BY NotebookAssumption DEF CellIds
  <2>2. After(ids, i) \in Seq(CellIds)
    BY LeftAfter
  <2>3. queue' \in Seq(CellIds) /\ IsInjective(queue')
    BY <1>2, DequeuedType
  <2>4. QED
    BY <1>2, <2>1, <2>2, <2>3 DEF Runs, RunTypes
<1>3. QED
  BY <1>1, <1>2 DEF SelectedGoesOn

LEMMA AllServes ==
    ASSUME NotebookInv, NEW from \in Nat, AllGoesOn(from)
    PROVE  RunTypes' /\ (running' = NoCell => queue' = <<>>)
<1> DEFINE left == After(cells, from)
<1>1. /\ cells \in Seq(CellIds) /\ Len(cells) \in 0..MaxCells /\ MaxCells \in Nat
  BY NotebookAssumption DEF NotebookInv, NotebookTypeOK, CellsAreFresh
<1>2. /\ left \in Seq(CellIds) /\ Len(left) = IF from <= Len(cells) THEN Len(cells) - from ELSE 0
  BY <1>1, LeftAfter
<1> HIDE DEF left
<1>3. CASE Executable(left) = {} /\ Drain(queue)
  BY <1>3, DrainServes DEF NotebookInv
<1>4. ASSUME NEW i \in DOMAIN left, Runs(left[i], "all", <<>>, from + i),
             queue' = Dequeued(left[i])
      PROVE  RunTypes' /\ running' # NoCell
  <2>1. left[i] \in CellIds /\ left[i] # NoCell
    BY <1>2, NotebookAssumption DEF CellIds
  <2>2. from + i \in 0..MaxCells /\ <<>> \in Seq(CellIds)
    BY <1>1, <1>2
  <2>3. queue' \in Seq(CellIds) /\ IsInjective(queue')
    BY <1>4, DequeuedType DEF NotebookInv
  <2>4. QED
    BY <1>4, <2>1, <2>2, <2>3 DEF Runs, RunTypes
<1>5. QED
  BY <1>3, <1>4 DEF AllGoesOn, left

\* Only the list of cells and the ids given out are left to look at.
LEMMA CellsKept ==
    ASSUME NotebookInv, RunTypes', UNCHANGED <<cells, nextCellId>>, filled' \subseteq CellIds
    PROVE  NotebookInv'
  BY DEF NotebookInv, NotebookTypeOK, CellsAreFresh, RunTypes

LEMMA RunTypesHold == NotebookTypeOK => RunTypes
  BY DEF NotebookTypeOK, RunTypes

\* Running and advancing may add a cell after the last.
LEMMA AdvancesServes ==
    ASSUME NotebookInv, NEW id, Advances(id), filled' = filled
    PROVE  NotebookInv' /\ (running' = NoCell => queue' = <<>>)
<1>1. RunTypes' /\ (running' = NoCell => queue' = <<>>)
  BY DrainServes DEF Advances, NotebookInv
<1>2. CASE UNCHANGED <<cells, nextCellId>>
  BY <1>1, <1>2, CellsKept DEF NotebookInv, NotebookTypeOK
<1>3. CASE nextCellId <= MaxCells /\ cells' = Append(cells, nextCellId)
           /\ nextCellId' = nextCellId + 1
  <2>1. /\ cells \in Seq(CellIds) /\ IsInjective(cells) /\ filled \subseteq CellIds
        /\ nextCellId \in CellIds /\ MaxCells \in Nat
        /\ \A i \in 1..Len(cells) : cells[i] < nextCellId
        /\ Len(cells) < nextCellId
    BY <1>3, NotebookAssumption DEF NotebookInv, NotebookTypeOK, CellsAreFresh, CellIds
  <2>2. /\ cells' \in Seq(CellIds) /\ Len(cells') = Len(cells) + 1
        /\ \A i \in 1..Len(cells) + 1 :
               cells'[i] = IF i = Len(cells) + 1 THEN nextCellId ELSE cells[i]
    BY <1>3, <2>1
  <2>3. DOMAIN cells' = 1..Len(cells) + 1 /\ nextCellId \in Nat
        /\ \A i \in 1..Len(cells) : cells[i] \in Nat
    BY <2>1, <2>2 DEF CellIds
  <2>4. \A i \in DOMAIN cells' : cells'[i] < nextCellId'
    BY <1>3, <2>1, <2>2, <2>3
  <2>5. IsInjective(cells')
    BY <2>1, <2>2, <2>3 DEF IsInjective
  <2>6. Len(cells') < nextCellId' /\ nextCellId' \in 1..MaxCells + 1 /\ cells' # <<>>
    BY <1>3, <2>1, <2>2 DEF CellIds
  <2>7. QED
    BY <1>1, <2>1, <2>2, <2>4, <2>5, <2>6
       DEF NotebookInv, NotebookTypeOK, CellsAreFresh, RunTypes
<1>4. QED
  BY <1>2, <1>3 DEF Advances

\* What every step does: the invariant stays, and a page that goes idle has
\* served its queue, but for the deleted cell of "run and advance".
LEMMA NotebookStep ==
    ASSUME NotebookInv, NotebookNext
    PROVE  /\ NotebookInv'
           /\ IsRunning /\ running' = NoCell =>
                  queue' = <<>> \/ (runner = "advance" /\ running \notin Live)
<1>1. /\ NotebookTypeOK /\ RunTypes /\ filled \subseteq CellIds
      /\ cells \in Seq(CellIds) /\ IsInjective(cells) /\ done \in Nat /\ rest \in Seq(CellIds)
  BY RunTypesHold DEF NotebookInv, NotebookTypeOK
<1>2. \A id \in Live : id \in CellIds /\ id # NoCell
  BY <1>1, NotebookAssumption DEF Live, ToSet, CellIds
<1>3. CASE CellEnds
  <2>1. Drain(queue) /\ UNCHANGED <<cells, filled, nextCellId>>
    BY <1>3 DEF CellEnds
  <2>2. QED
    BY <1>1, <2>1, DrainServes, CellsKept
<1>4. CASE SelectedCellEnds
  <2>1. SelectedGoesOn(rest) /\ UNCHANGED <<cells, filled, nextCellId>>
    BY <1>4 DEF SelectedCellEnds
  <2>2. QED
    BY <1>1, <2>1, SelectedServes, CellsKept
<1>5. CASE AllCellEnds
  <2>1. AllGoesOn(done) /\ UNCHANGED <<cells, filled, nextCellId>>
    BY <1>5 DEF AllCellEnds
  <2>2. QED
    BY <1>1, <2>1, AllServes, CellsKept
<1>6. CASE AdvancedCellEnds
  <2>1. CASE running \in Live /\ Advances(running)
    BY <1>6, <2>1, AdvancesServes DEF AdvancedCellEnds
  <2>2. CASE running \notin Live /\ Stops /\ UNCHANGED <<cells, nextCellId, queue>>
    <3>1. RunTypes'
      BY <1>1, <2>2, NotebookAssumption DEF RunTypes, Stops
    <3>2. UNCHANGED filled /\ runner = "advance"
      BY <1>6 DEF AdvancedCellEnds, RunEnded
    <3>3. QED
      BY <1>1, <2>2, <3>1, <3>2, CellsKept
  <2>3. QED
    BY <1>6, <2>1, <2>2 DEF AdvancedCellEnds
<1>7. ASSUME NEW id \in Live, QueueCellRun(id)
      PROVE  NotebookInv' /\ running' = running /\ IsRunning
  <2>1. queue' \in Seq(CellIds) /\ IsInjective(queue')
    <3>1. queue \in Seq(CellIds) /\ IsInjective(queue)
      BY <1>1 DEF RunTypes
    <3>2. CASE Contains(queue, id)
      BY <1>7, <3>1, <3>2 DEF QueueCellRun
    <3>3. CASE ~Contains(queue, id)
      <4>1. queue' = Append(queue, id)
        BY <1>7, <3>3 DEF QueueCellRun
      <4>2. /\ queue' \in Seq(CellIds) /\ DOMAIN queue' = 1..Len(queue) + 1
            /\ \A i \in 1..Len(queue) + 1 :
                   queue'[i] = IF i = Len(queue) + 1 THEN id ELSE queue[i]
        BY <1>2, <3>1, <4>1
      <4>3. \A i \in 1..Len(queue) : queue[i] # id
        BY <3>3 DEF Contains
      <4>4. IsInjective(queue')
        BY <3>1, <4>2, <4>3 DEF IsInjective
      <4>5. QED
        BY <4>2, <4>4
    <3>4. QED
      BY <3>2, <3>3
  <2>2. /\ UNCHANGED <<cells, filled, nextCellId, running, runner, rest, done>>
        /\ IsRunning
    BY <1>7 DEF QueueCellRun
  <2>3. RunTypes'
    BY <1>1, <2>1, <2>2 DEF RunTypes
  <2>4. QED
    BY <1>1, <2>2, <2>3, CellsKept
<1>8. ASSUME NEW id \in Live, NEW by \in {"click", "advance"}, RunCell(id, by)
      PROVE  NotebookInv' /\ ~IsRunning
  <2>1. /\ ~IsRunning /\ Runs(id, by, <<>>, 0) /\ queue' = Dequeued(id)
        /\ UNCHANGED <<cells, filled, nextCellId>>
    BY <1>8 DEF RunCell
  <2>2. queue' \in Seq(CellIds) /\ IsInjective(queue')
    BY <1>1, <2>1, DequeuedType
  <2>3. RunTypes'
    BY <1>2, <2>1, <2>2, NotebookAssumption DEF RunTypes, Runs
  <2>4. QED
    BY <1>1, <2>1, <2>3, CellsKept
<1>9. ASSUME NEW id \in Live, AdvanceOverEmpty(id) PROVE NotebookInv' /\ ~IsRunning
  BY <1>9, AdvancesServes DEF AdvanceOverEmpty
<1>10. ASSUME NEW id \in Live, DeleteCell(id)
       PROVE  NotebookInv' /\ running' = running
  <2>1. /\ Len(cells) > 1 /\ cells' = RemoveFirst(cells, id)
        /\ UNCHANGED <<filled, nextCellId, queue, running, runner, rest, done>>
    BY <1>10 DEF DeleteCell
  <2>2. /\ cells' \in Seq(CellIds) /\ IsInjective(cells')
        /\ \A i \in DOMAIN cells' : \E j \in DOMAIN cells : cells'[i] = cells[j]
        /\ Len(cells') \in {Len(cells), Len(cells) - 1}
    BY <1>1, <2>1, RemovedOne
  <2>3. cells' # <<>>
    BY <1>1, <2>1, <2>2
  <2>4. /\ nextCellId' \in 1..MaxCells + 1
        /\ Len(cells') < nextCellId' /\ \A i \in DOMAIN cells' : cells'[i] < nextCellId'
    BY <1>1, <2>1, <2>2, NotebookAssumption DEF NotebookInv, NotebookTypeOK, CellsAreFresh
  <2>5. RunTypes'
    BY <1>1, <2>1 DEF RunTypes
  <2>6. QED
    BY <1>1, <2>1, <2>2, <2>3, <2>4, <2>5 DEF NotebookInv, NotebookTypeOK, CellsAreFresh, RunTypes
<1>11. ASSUME NEW id \in Live, EditCell(id)
       PROVE  NotebookInv' /\ running' = running
  <2>1. /\ UNCHANGED <<cells, nextCellId, queue, running, runner, rest, done>>
        /\ filled' \subseteq CellIds
    BY <1>1, <1>2, <1>11 DEF EditCell
  <2>2. RunTypes'
    BY <1>1, <2>1 DEF RunTypes
  <2>3. QED
    BY <2>1, <2>2, CellsKept
<1>12. ASSUME NEW ids \in Selections, RunSelected(ids) PROVE NotebookInv' /\ ~IsRunning
  <2>1. ids \in Seq(CellIds)
    <3>1. PICK n \in DOMAIN cells : \E at \in [1..n -> DOMAIN cells] :
              ids = [i \in DOMAIN at |-> cells[at[i]]]
      BY DEF Selections
    <3>2. n \in Nat /\ ids \in [1..n -> CellIds]
      BY <1>1, <3>1
    <3>3. QED
      BY <3>2, SeqDef
  <2>2. /\ SelectedGoesOn(ids) /\ ~IsRunning
        /\ UNCHANGED <<cells, filled, nextCellId>>
    BY <1>12 DEF RunSelected
  <2>3. QED
    BY <1>1, <2>1, <2>2, SelectedServes, CellsKept
<1>13. CASE RunAllCells
  <2>1. AllGoesOn(0) /\ ~IsRunning /\ UNCHANGED <<cells, filled, nextCellId>>
    BY <1>13 DEF RunAllCells
  <2>2. QED
    BY <1>1, <2>1, AllServes, CellsKept
<1>14. QED
  BY <1>3, <1>4, <1>5, <1>6, <1>7, <1>8, <1>9, <1>10, <1>11, <1>12, <1>13
     DEF NotebookNext, NotebookRunEnds, IsRunning

LEMMA NotebookStarts == NotebookInit => NotebookInv
<1> SUFFICES ASSUME NotebookInit PROVE NotebookInv
  OBVIOUS
<1>1. /\ cells = [i \in 1..FirstCells |-> i] /\ nextCellId = FirstCells + 1
      /\ FirstCells \in Nat /\ FirstCells \in 1..MaxCells /\ MaxCells \in Nat
  BY NotebookAssumption DEF NotebookInit
<1>2. cells \in [1..FirstCells -> CellIds] /\ DOMAIN cells = 1..FirstCells
  BY <1>1 DEF CellIds
<1>3. cells \in Seq(CellIds) /\ Len(cells) = FirstCells
  BY <1>1, <1>2, SeqDef, LenProperties
<1>4. IsInjective(cells) /\ IsInjective(<<>>)
  BY <1>1 DEF IsInjective
<1>5. cells # <<>>
  BY <1>1, <1>3
<1>6. QED
  BY <1>1, <1>3, <1>4, <1>5 DEF NotebookInit, NotebookInv, NotebookTypeOK, CellsAreFresh, CellIds

LEMMA NotebookStutters == NotebookInv /\ UNCHANGED notebookVars => NotebookInv'
  BY DEF NotebookInv, NotebookTypeOK, CellsAreFresh, notebookVars

LEMMA NotebookSafe == NotebookSpec => []NotebookInv
  BY NotebookStarts, NotebookStep, NotebookStutters, PTL DEF NotebookSpec

\* The types of the notebook hold: ids are not given out twice, and neither
\* list repeats one (execution.js, cells.js).
THEOREM NotebookTypes == NotebookSpec => []NotebookTypeOK
  BY NotebookSafe, PTL DEF NotebookInv

\* The page goes idle with cells still queued only when the cell run by
\* "run and advance" was deleted while it executed (drainPendingCellRuns).
THEOREM IdlePagesHaveServed == NotebookSpec => IdlePageHasServedTheQueue
<1>1. NotebookInv /\ [NotebookNext]_notebookVars =>
        [IsRunning /\ running' = NoCell =>
           queue' = <<>> \/ (runner = "advance" /\ running \notin Live)]_notebookVars
  BY NotebookStep
<1>2. QED
  BY NotebookSafe, <1>1, PTL DEF NotebookSpec, IdlePageHasServedTheQueue
=============================================================================
