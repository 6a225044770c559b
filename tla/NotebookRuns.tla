---------------------------- MODULE NotebookRuns ----------------------------
(***************************************************************************)
(* Cell execution of the notebook editor (notebook-editor/execution.js).   *)
(* One cell executes at a time; a cell whose run button is clicked         *)
(* meanwhile is queued, and whoever ran the last cell drains the queue.    *)
(* Cells can be added, emptied and deleted while another one executes.     *)
(*                                                                         *)
(* Everything between two awaited requests happens in one step: the page   *)
(* is single-threaded, and a finished cell's caller continues before the   *)
(* next user event.                                                        *)
(***************************************************************************)
EXTENDS Integers, Sequences, SequencesExt

CONSTANTS
    FirstCells,  \* the number of cells the notebook opens with
    MaxCells,    \* bound: cells ever added, those included
    NoCell

ASSUME NotebookAssumption ==
    /\ MaxCells \in Nat /\ FirstCells \in 1..MaxCells
    /\ NoCell \notin 1..MaxCells

VARIABLES
    cells,      \* the ids of the notebook's cells, in order
    filled,     \* the cells with code to execute
    nextCellId,
    queue,      \* pendingCellRunQueue
    running,    \* the cell that executes; isRunning is running # NoCell
    runner,     \* who started it: click, advance, all, selected or drain
    rest,       \* the cells that a run of selected cells goes on with
    done        \* the position that runAllCells has reached

notebookVars == <<cells, filled, nextCellId, queue, running, runner, rest, done>>

CellIds == 1..MaxCells
Live == ToSet(cells)
IsRunning == running # NoCell

NotebookTypeOK ==
    /\ cells \in Seq(CellIds) /\ IsInjective(cells) /\ cells # <<>>
    /\ filled \subseteq CellIds
    /\ nextCellId \in 1..MaxCells + 1
    /\ queue \in Seq(CellIds) /\ IsInjective(queue)
    /\ running \in CellIds \cup {NoCell}
    /\ runner \in {"none", "click", "advance", "all", "selected", "drain"}
    /\ rest \in Seq(CellIds) /\ done \in 0..MaxCells

NotebookInit ==
    /\ cells = [i \in 1..FirstCells |-> i] /\ filled = 1..FirstCells
    /\ nextCellId = FirstCells + 1
    /\ queue = <<>> /\ running = NoCell /\ runner = "none"
    /\ rest = <<>> /\ done = 0

-----------------------------------------------------------------------------
\* runCell returns at once for a cell that is gone, empty or markdown; the
\* first that executes occupies the page.
Executable(ids) == {i \in DOMAIN ids : ids[i] \in Live \cap filled}
FirstExecutable(ids, i) == i \in Executable(ids) /\ \A j \in Executable(ids) : i <= j
After(ids, i) == SubSeq(ids, i + 1, Len(ids))

Runs(id, by, ids, at) ==
    /\ running' = id /\ runner' = by /\ rest' = ids /\ done' = at

Stops ==
    /\ running' = NoCell /\ runner' = "none" /\ rest' = <<>> /\ done' = 0

\* Broken: the next cell is looked at and stays in the queue.
DrainKeeping(ids) ==
    \/ Executable(ids) = {} /\ Stops /\ queue' = <<>>
    \/ \E i \in DOMAIN ids : /\ FirstExecutable(ids, i)
                             /\ Runs(ids[i], "drain", <<>>, 0)
                             /\ queue' = SubSeq(ids, i, Len(ids))

\* drainPendingCellRuns: cells that cannot run any more are passed over.
Drain(ids) ==
    \/ Executable(ids) = {} /\ Stops /\ queue' = <<>>
    \/ \E i \in DOMAIN ids : /\ FirstExecutable(ids, i)
                             /\ Runs(ids[i], "drain", <<>>, 0)
                             /\ queue' = After(ids, i)

\* runCell takes the cell it starts out of the queue.
Dequeued(id) == RemoveFirst(queue, id)

\* A loop over several cells goes on with the next executable one, and drains
\* the queue when there is none.
SelectedGoesOn(ids) ==
    \/ Executable(ids) = {} /\ Drain(queue)
    \/ \E i \in DOMAIN ids : /\ FirstExecutable(ids, i)
                             /\ Runs(ids[i], "selected", After(ids, i), 0)
                             /\ queue' = Dequeued(ids[i])

\* runAllCells walks the live array by position.
AllGoesOn(from) ==
    LET left == After(cells, from) IN
    \/ Executable(left) = {} /\ Drain(queue)
    \/ \E i \in DOMAIN left : /\ FirstExecutable(left, i)
                              /\ Runs(left[i], "all", <<>>, from + i)
                              /\ queue' = Dequeued(left[i])

\* runCellAndAdvance focuses the next cell, or adds one after the last.
Advances(id) ==
    /\ IF id = Last(cells) /\ nextCellId <= MaxCells
       THEN cells' = Append(cells, nextCellId) /\ nextCellId' = nextCellId + 1
       ELSE UNCHANGED <<cells, nextCellId>>
    /\ Drain(queue)

-----------------------------------------------------------------------------
(* User events *)

\* The run button while a cell executes: queueCellRun.
QueueCellRun(id) ==
    /\ IsRunning /\ id \in filled
    /\ queue' = IF Contains(queue, id) THEN queue ELSE Append(queue, id)
    /\ UNCHANGED <<cells, filled, nextCellId, running, runner, rest, done>>

\* The run button or the run shortcuts on an idle page.
RunCell(id, by) ==
    /\ ~IsRunning /\ id \in filled
    /\ Runs(id, by, <<>>, 0)
    /\ queue' = Dequeued(id)
    /\ UNCHANGED <<cells, filled, nextCellId>>

\* "Run and advance" on an empty cell only advances.
AdvanceOverEmpty(id) ==
    /\ ~IsRunning /\ id \notin filled
    /\ Advances(id)
    /\ UNCHANGED filled

\* getOrderedSelectedCellIds: the selected cells in notebook order, picked by
\* their positions.
Selections ==
    LET Rising(at) == \A i, j \in DOMAIN at : i < j => at[i] < at[j]
        Positions == UNION {[1..n -> DOMAIN cells] : n \in DOMAIN cells}
    IN {[i \in DOMAIN at |-> cells[at[i]]] : at \in {at \in Positions : Rising(at)}}

\* runSelectedCellsSequentially: the selection, from the clicked cell on.
RunSelected(ids) ==
    /\ ~IsRunning /\ Len(cells) > 1
    /\ SelectedGoesOn(ids)
    /\ UNCHANGED <<cells, filled, nextCellId>>

RunAllCells ==
    /\ ~IsRunning
    /\ AllGoesOn(0)
    /\ UNCHANGED <<cells, filled, nextCellId>>

DeleteCell(id) ==
    /\ Len(cells) > 1
    /\ cells' = RemoveFirst(cells, id)
    /\ UNCHANGED <<filled, nextCellId, queue, running, runner, rest, done>>

EditCell(id) ==
    /\ filled' = IF id \in filled THEN filled \ {id} ELSE filled \cup {id}
    /\ UNCHANGED <<cells, nextCellId, queue, running, runner, rest, done>>

-----------------------------------------------------------------------------
(* The request of the executing cell has ended, well or not: runCell's     *)
(* finally block and the caller that awaited it.                           *)

RunEnded(by) == IsRunning /\ runner = by

CellEnds ==
    /\ \/ RunEnded("click") \/ RunEnded("drain")
    /\ Drain(queue)
    /\ UNCHANGED <<cells, filled, nextCellId>>

SelectedCellEnds ==
    /\ RunEnded("selected")
    /\ SelectedGoesOn(rest)
    /\ UNCHANGED <<cells, filled, nextCellId>>

\* Broken: the last cell is not followed by a drain.
AllCellEndsUndrained ==
    /\ RunEnded("all")
    /\ IF Executable(After(cells, done)) = {}
       THEN Stops /\ UNCHANGED queue
       ELSE AllGoesOn(done)
    /\ UNCHANGED <<cells, filled, nextCellId>>

AllCellEnds ==
    /\ RunEnded("all")
    /\ AllGoesOn(done)
    /\ UNCHANGED <<cells, filled, nextCellId>>

\* A cell that was deleted meanwhile: runCellAndAdvance returns undrained.
AdvancedCellEnds ==
    /\ RunEnded("advance")
    /\ \/ /\ running \notin Live
          /\ Stops
          /\ UNCHANGED <<cells, nextCellId, queue>>
       \/ running \in Live /\ Advances(running)
    /\ UNCHANGED filled

NotebookRunEnds == CellEnds \/ SelectedCellEnds \/ AllCellEnds \/ AdvancedCellEnds

NotebookNext ==
    \/ NotebookRunEnds
    \/ \E id \in Live : \/ QueueCellRun(id)
                        \/ \E by \in {"click", "advance"} : RunCell(id, by)
                        \/ AdvanceOverEmpty(id)
                        \/ DeleteCell(id)
                        \/ EditCell(id)
    \/ \E ids \in Selections : RunSelected(ids)
    \/ RunAllCells

NotebookSpec == NotebookInit /\ [][NotebookNext]_notebookVars

-----------------------------------------------------------------------------
(* Properties *)

\* The page goes idle with cells still queued only when the cell run by
\* "run and advance" was deleted while it executed.
IdlePageHasServedTheQueue ==
    [][IsRunning /\ running' = NoCell =>
           queue' = <<>> \/ (runner = "advance" /\ running \notin Live)]_notebookVars

\* A queued cell leaves the queue, unless the page goes idle before.
QueuedCellIsTaken ==
    \A id \in CellIds : []<>(Contains(queue, id) => ~IsRunning)
=============================================================================
