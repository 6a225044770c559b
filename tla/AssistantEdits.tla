--------------------------- MODULE AssistantEdits ---------------------------
(***************************************************************************)
(* Edit requests of the ArcBot host (electron/arcbot_host.js): a request    *)
(* stages the active file as a copy in the shared workspace, lets a turn of *)
(* the warm Codex app-server edit the copy, falls back to a one-shot        *)
(* command, and applies the edited copy to the target after a backup.  The  *)
(* panel sends one request at a time and may cancel it; a turn that the     *)
(* host has stopped waiting for goes on editing the shared copy.            *)
(*                                                                         *)
(* The contents of the target are numbers: those that other programs write, *)
(* and one for the edit of each request.  The copy is the set of requests   *)
(* whose turns have edited it since it was staged.  Review requests and     *)
(* Claude models stage no copy and apply nothing; they are left out.        *)
(***************************************************************************)
EXTENDS Naturals

CONSTANTS
    MaxRequests,     \* bound: edit requests
    MaxTargetWrites  \* bound: writes of the target by other programs

ASSUME AssistantBounds == MaxRequests \in Nat /\ MaxTargetWrites \in Nat

VARIABLES
    asked,     \* the number of the request in progress, or of the last one
    stage,     \* where the handler of the request is
    canceled,  \* requestState.canceled
    promised,  \* the cancel of this request was answered with success
    turn,      \* the turn that the handler waits for: none, running, over
    strays,    \* requests whose turn runs on, though nobody waits for it
    copy,      \* who has edited the staged copy
    session,   \* what was staged, and the strays of that time
    edit,      \* the edited copy as read for the apply
    target,    \* the target's contents
    written,   \* writes by other programs
    backup,    \* the backup of the apply in progress
    replaced,  \* what the apply has replaced
    gap,       \* the backup may differ from it
    latest     \* the latest-edit manifest

requestVars == <<asked, stage, canceled, promised>>
turnVars == <<turn, strays, copy>>
applyVars == <<edit, backup, replaced, gap>>
targetVars == <<target, written>>
assistantVars == <<asked, stage, canceled, promised, turn, strays, copy, session,
                   edit, target, written, backup, replaced, gap, latest>>

RequestIds == 1..MaxRequests
EditOf(n) == MaxTargetWrites + n
Contents == 0..(MaxTargetWrites + MaxRequests)
NoEdit == [recorded |-> FALSE, after |-> 0, backup |-> 0, replaced |-> 0, gap |-> FALSE]

InTurn == {"preparing", "starting", "submitting", "waiting", "fallback"}
Applying == {"validating", "backed", "replaced"}

AssistantTypeOK ==
    /\ asked \in 0..MaxRequests
    /\ stage \in {"idle", "reverting"} \cup InTurn \cup Applying
    /\ canceled \in BOOLEAN /\ promised \in BOOLEAN /\ gap \in BOOLEAN
    /\ turn \in {"none", "running", "over"}
    /\ strays \subseteq RequestIds /\ copy \subseteq RequestIds /\ edit \subseteq RequestIds
    /\ session \in [staged: Contents, strays: SUBSET RequestIds]
    /\ target \in Contents /\ written \in 0..MaxTargetWrites /\ backup \in Contents
    /\ replaced \in Contents
    /\ latest \in [recorded: BOOLEAN, after: Contents, backup: Contents,
                   replaced: Contents, gap: BOOLEAN]

AssistantInit ==
    /\ asked = 0 /\ stage = "idle" /\ canceled = FALSE /\ promised = FALSE
    /\ turn = "none" /\ strays = {} /\ copy = {}
    /\ session = [staged |-> 0, strays |-> {}]
    /\ edit = {} /\ backup = 0 /\ replaced = 0 /\ gap = FALSE
    /\ target = 0 /\ written = 0
    /\ latest = NoEdit

-----------------------------------------------------------------------------
(* The handler up to the turn *)

RequestBegins ==
    /\ stage = "idle" /\ asked < MaxRequests
    /\ asked' = asked + 1 /\ stage' = "preparing"
    /\ canceled' = FALSE /\ promised' = FALSE
    /\ UNCHANGED <<turnVars, session, applyVars, targetVars, latest>>

\* Broken: a copy that is already there is used as it is.
StagesOver == UNCHANGED copy

\* createArcBotEditSession writes the copy afresh, at the same path every time.
Stages == copy' = {}

Prepared ==
    /\ stage = "preparing"
    /\ Stages
    /\ session' = [staged |-> target, strays |-> strays]
    /\ stage' = IF canceled THEN "idle" ELSE "starting"
    /\ UNCHANGED <<asked, canceled, promised, turn, strays, applyVars, targetVars, latest>>

\* The turn of this request is no longer waited for, but it may still run.
Abandoned ==
    /\ turn' = "none"
    /\ strays' = IF turn = "running" THEN strays \cup {asked} ELSE strays

\* The warm turn has thrown: the request is over when it was canceled, and
\* otherwise goes on with the one-shot command.
WarmTurnThrows == stage' = IF canceled THEN "idle" ELSE "fallback"

\* startCodexWarmThread looks for a cancel after each of its awaits.
ThreadStarted ==
    /\ stage = "starting"
    /\ IF canceled
       THEN stage' = "idle" /\ UNCHANGED turn
       ELSE stage' = "submitting" /\ turn' = "running"
    /\ UNCHANGED <<asked, canceled, promised, strays, copy, session, applyVars,
                   targetVars, latest>>

ThreadFails ==
    /\ stage = "starting"
    /\ WarmTurnThrows
    /\ UNCHANGED <<asked, canceled, promised, turnVars, session, applyVars, targetVars, latest>>

\* A cancel before the turn had an id could not interrupt it; it does now, and
\* the request does not wait for the turn to stop.
TurnAccepted ==
    /\ stage = "submitting"
    /\ IF canceled
       THEN stage' = "idle" /\ Abandoned
       ELSE stage' = "waiting" /\ UNCHANGED <<turn, strays>>
    /\ UNCHANGED <<asked, canceled, promised, copy, session, applyVars, targetVars, latest>>

\* The request for the turn or the wait for its end times out, or the turn
\* fails: nothing interrupts a turn that still runs.
TurnThrows ==
    /\ stage \in {"submitting", "waiting"}
    /\ WarmTurnThrows
    /\ Abandoned
    /\ UNCHANGED <<asked, canceled, promised, copy, session, applyVars, targetVars, latest>>

-----------------------------------------------------------------------------
(* The turn's outcome *)

\* What follows a successful response: a changed copy is applied, unless it
\* is not valid JSON or the edit is left to the user's approval.
Responds ==
    /\ edit' = copy
    /\ stage' \in IF copy = {} THEN {"idle"} ELSE {"idle", "validating"}

EndsUnanswered == stage' = "idle" /\ UNCHANGED edit

\* Broken: a turn that completes is taken for the answer, canceled or not.
TurnCompletedUnlooked ==
    /\ stage = "waiting" /\ turn = "over"
    /\ turn' = "none"
    /\ Responds
    /\ UNCHANGED <<asked, canceled, promised, strays, copy, session, backup, replaced, gap,
                   targetVars, latest>>

\* A cancel may come too late to interrupt the turn.
TurnCompleted ==
    /\ stage = "waiting" /\ turn = "over"
    /\ turn' = "none"
    /\ IF canceled THEN EndsUnanswered ELSE Responds
    /\ UNCHANGED <<asked, canceled, promised, strays, copy, session, backup, replaced, gap,
                   targetVars, latest>>

\* runHostCommand: killed when canceled, and not successful then.
FallbackEnds ==
    /\ stage = "fallback"
    /\ EndsUnanswered \/ (~canceled /\ Responds)
    /\ UNCHANGED <<asked, canceled, promised, turnVars, session, backup, replaced, gap,
                   targetVars, latest>>

\* codex-assistant-cancel finds the request until its turn has ended.
CancelRequested ==
    /\ stage \in InTurn /\ ~canceled
    /\ canceled' = TRUE /\ promised' = TRUE
    /\ UNCHANGED <<asked, stage, turnVars, session, applyVars, targetVars, latest>>

-----------------------------------------------------------------------------
(* The Codex processes *)

CopyEditedBy(n) ==
    /\ n \in strays \/ (n = asked /\ (turn = "running" \/ stage = "fallback"))
    /\ copy' = copy \cup {n}
    /\ UNCHANGED <<requestVars, turn, strays, session, applyVars, targetVars, latest>>

\* A turn completes, fails or is interrupted.
TurnStops ==
    /\ turn = "running"
    /\ turn' = "over"
    /\ UNCHANGED <<requestVars, strays, copy, session, applyVars, targetVars, latest>>

StrayStops(n) ==
    /\ strays' = strays \ {n}
    /\ UNCHANGED <<requestVars, turn, copy, session, applyVars, targetVars, latest>>

\* The app-server process exits: its turns end, and a wait for one throws.
ServerExits ==
    /\ turn # "none" \/ strays # {}
    /\ turn' = "none" /\ strays' = {}
    /\ IF stage \in {"submitting", "waiting"} THEN WarmTurnThrows ELSE UNCHANGED stage
    /\ UNCHANGED <<asked, canceled, promised, copy, session, applyVars, targetVars, latest>>

-----------------------------------------------------------------------------
(* applyArcBotJsonEdit.  It runs in one turn of the event loop, but other    *)
(* programs may write the target between its file operations.               *)

ApplyRefused ==
    /\ stage = "validating" /\ stage' = "idle"
    /\ UNCHANGED <<asked, canceled, promised, turnVars, session, applyVars, targetVars, latest>>

\* Broken: the staged contents are taken for those of the target.
BacksUpStaged(readable) == backup' = session.staged /\ gap' = ~readable

\* The backup is a copy of the target; only where it cannot be read, it is the
\* contents that the page had sent.
BacksUp(readable) ==
    /\ backup' = IF readable THEN target ELSE session.staged
    /\ gap' = ~readable

Backup ==
    /\ stage = "validating" /\ stage' = "backed"
    /\ \E readable \in BOOLEAN : BacksUp(readable)
    /\ UNCHANGED <<asked, canceled, promised, turnVars, session, edit, replaced, targetVars,
                   latest>>

Replace ==
    /\ stage = "backed" /\ stage' = "replaced"
    /\ replaced' = target /\ target' = EditOf(asked)
    /\ UNCHANGED <<asked, canceled, promised, turnVars, session, edit, backup, gap,
                   written, latest>>

RecordLatest ==
    /\ stage = "replaced" /\ stage' = "idle"
    /\ latest' = [recorded |-> TRUE, after |-> EditOf(asked), backup |-> backup,
                  replaced |-> replaced, gap |-> gap]
    /\ UNCHANGED <<asked, canceled, promised, turnVars, session, applyVars, targetVars>>

\* A file operation throws: the target may be replaced without a manifest.
ApplyThrows ==
    /\ stage \in {"backed", "replaced"} /\ stage' = "idle"
    /\ UNCHANGED <<asked, canceled, promised, turnVars, session, applyVars, targetVars, latest>>

OutsiderWritesTarget ==
    /\ written < MaxTargetWrites
    /\ written' = written + 1
    /\ target' = written + 1
    /\ gap' = (gap \/ stage = "backed")
    /\ UNCHANGED <<requestVars, turnVars, session, edit, backup, replaced, latest>>

-----------------------------------------------------------------------------
(* revertLatestArcBotEdit *)

\* The target must still be what the latest edit has left.
RevertChecks ==
    /\ stage = "idle"
    /\ latest.recorded /\ target = latest.after
    /\ stage' = "reverting"
    /\ UNCHANGED <<asked, canceled, promised, turnVars, session, applyVars, targetVars, latest>>

\* The manifest is then removed, where that is possible.
RevertCopies ==
    /\ stage = "reverting" /\ stage' = "idle"
    /\ target' = latest.backup
    /\ latest' \in {NoEdit, latest}
    /\ UNCHANGED <<asked, canceled, promised, turnVars, session, applyVars, written>>

-----------------------------------------------------------------------------
AssistantNext ==
    \/ RequestBegins
    \/ Prepared
    \/ ThreadStarted
    \/ ThreadFails
    \/ TurnAccepted
    \/ TurnThrows
    \/ TurnCompleted
    \/ FallbackEnds
    \/ CancelRequested
    \/ \E n \in RequestIds : CopyEditedBy(n)
    \/ TurnStops
    \/ \E n \in strays : StrayStops(n)
    \/ ServerExits
    \/ ApplyRefused
    \/ Backup
    \/ Replace
    \/ RecordLatest
    \/ ApplyThrows
    \/ OutsiderWritesTarget
    \/ RevertChecks
    \/ RevertCopies

AssistantSpec == AssistantInit /\ [][AssistantNext]_assistantVars

-----------------------------------------------------------------------------
(* Properties *)

\* A request whose cancel was answered with success never gets to its apply,
\* whether the cancel came before the turn, during it, too late to interrupt
\* it, or during the one-shot command.
CanceledRequestIsNotApplied == promised => stage \notin Applying

\* The copy that is applied was edited for its own request, or by turns that
\* already ran unattended when it was staged: edits of an earlier request
\* that was canceled or failed do not get into the target with a later one.
AppliedEditIsOfItsRequest ==
    stage \in Applying => edit \subseteq {asked} \cup session.strays

\* A revert puts back what the latest edit replaced, though other programs
\* have written the target between the staging and the apply; except where
\* the target could not be read or was written right before the replacement.
RevertRestoresTheReplaced ==
    [][stage = "reverting" /\ stage' = "idle"
           => target' = latest.replaced \/ latest.gap]_assistantVars
=============================================================================
