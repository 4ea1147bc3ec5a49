------------------------------- MODULE Tracking -------------------------------
(***************************************************************************)
(* The commands through which a user sees and picks workspaces: ws list,   *)
(* ws --select (one workspace, then an action), ws --select --multi (an    *)
(* action on several), ws create and ws import jira.  They share the work  *)
(* state of the workspaces (module WorkState), the selector (Selector) and *)
(* the import plan (JiraImport).                                           *)
(*                                                                         *)
(* Close, reopen, purge and create are taken from the outside here, as one *)
(* step that works or fails followed by their bookkeeping of the work      *)
(* state; module WorkspaceLifecycle has their steps.  While this command   *)
(* waits for an answer, one in another terminal may run to its end.  Two   *)
(* commands that both compute are left out: the cache of ws list has no    *)
(* lock, and the later save wins.                                          *)
(***************************************************************************)
EXTENDS JiraImport, Selector

CONSTANTS
    Names,      \* the names of workspaces, in the order of a directory
    Sprints,    \* the sprints of a Jira space, in the order shown
    MaxEvents   \* bound: changes made by the user, crashes and failures of file
                \* system or git, and commands of another terminal, together

ASSUME TrackingAssumption ==
    /\ Ws = {Names[n] : n \in DOMAIN Names}
    /\ Names \in Seq(Ws) /\ Len(Names) = Cardinality(Ws)
    /\ Sprints \in Seq({Sprints[n] : n \in DOMAIN Sprints})
    /\ MaxEvents \in Nat

VARIABLES
    cli,        \* the command and its variables
    events,     \* how many of those have happened
    started,    \* history: workspaces shown as in progress in this life
    touched,    \* history: workspaces changed by the user in this life
    troubled    \* history: workspaces of which a failure left a trace

history == <<started, touched, troubled>>
vars == <<stateVars, sel, imp, cli, events, history>>

(***************************************************************************)
(* view and rows belong to the listing; todo are the workspaces to do, the *)
(* first of them in work; attempted are the ones an action was run on.     *)
(***************************************************************************)
Idle == [pc |-> "idle", op |-> "none", act |-> "none", scope |-> "active",
         view |-> {}, dirty |-> FALSE, rows |-> <<>>, todo |-> <<>>,
         attempted |-> <<>>]

PC == {"idle", "inspect", "show", "select", "choose", "act", "baseline", "cache",
       "sprint", "search", "confirm", "import", "shown"}
Prompts == {"select", "choose", "sprint", "confirm"}

Init ==
    /\ place = [w \in Ws |-> "none"]
    /\ fs = [w \in Ws |-> NoFiles]
    /\ repos = [w \in Ws |-> NoFiles]
    /\ baseline = [w \in Ws |-> NoBaseline]
    /\ cache = {}
    /\ sel = Closed
    /\ imp = NoImport
    /\ cli = Idle
    /\ events = 0
    /\ started = {} /\ touched = {} /\ troubled = {}

At(pc) == cli.pc = pc
Goto(pc) == cli' = [cli EXCEPT !.pc = pc]
Return == cli' = Idle /\ sel' = Closed /\ imp' = NoImport
CurrentWs == Head(cli.todo)

Event ==
    /\ events < MaxEvents
    /\ events' = events + 1
-----------------------------------------------------------------------------
(***************************************************************************)
(* Listing.  Archived workspaces have no work state.                       *)
(***************************************************************************)
Scope(act) == IF act \in {"reopen", "purge", "unlock"} THEN "archived" ELSE "active"

listRows(op, act, scope) ==
    cli' = [Idle EXCEPT
             !.pc = "inspect", !.op = op, !.act = act, !.scope = scope,
             !.view = cache,
             !.todo = Remaining(Names, {n \in DOMAIN Names : place[Names[n]] = scope})]

StartList ==
    /\ At("idle")
    /\ \E scope \in {"active", "archived"} : listRows("list", "none", scope)
    /\ UNCHANGED <<stateVars, sel, imp, events, history>>

(***************************************************************************)
(* runWSSelectMulti: only these actions; the action decides the scope.     *)
(***************************************************************************)
StartMulti ==
    /\ At("idle")
    /\ \E act \in {"close", "reopen", "purge"} : listRows("multi", act, Scope(act))
    /\ UNCHANGED <<stateVars, sel, imp, events, history>>

(***************************************************************************)
(* runWSLauncherWithSelectModeAndAction --select: the action may be given, *)
(* or asked for after the workspace.  Only the actions that change the     *)
(* place of a workspace are given here; the others are reached by asking.  *)
(***************************************************************************)
ActionsIn(scope) ==
    IF scope = "active" THEN <<"open", "add-repo", "remove-repo", "close">>
    ELSE <<"reopen", "unlock", "purge">>

StartSelect ==
    /\ At("idle")
    /\ \/ \E act \in {"close", "reopen", "purge"} : listRows("select", act, Scope(act))
       \/ \E scope \in {"active", "archived"} : listRows("select", "none", scope)
    /\ UNCHANGED <<stateVars, sel, imp, events, history>>

Row(w, state) ==
    [cli EXCEPT !.todo = Tail(@),
                !.rows = Append(@, [id |-> w, state |-> state]),
                !.view = IF state = "in-progress" THEN @ \cup {w} ELSE @,
                !.dirty = @ \/ (state = "in-progress" /\ w \notin cli.view)]

(***************************************************************************)
(* resolveWorkspaceWorkState.  The user goes on working meanwhile.  What   *)
(* cannot be inspected counts as in progress.                              *)
(***************************************************************************)
Inspect ==
    /\ At("inspect") /\ cli.todo # <<>>
    /\ cli' = Row(CurrentWs,
                  CASE cli.scope = "archived" -> "todo"
                    [] cli.scope = "active" /\ CurrentWs \in cli.view -> "in-progress"
                    [] OTHER -> deriveWorkspaceWorkStateFromBaseline(CurrentWs))
    /\ UNCHANGED <<stateVars, sel, imp, events, history>>

InspectFails ==
    /\ At("inspect") /\ cli.todo # <<>>
    /\ cli.scope = "active" /\ CurrentWs \notin cli.view
    /\ Event
    /\ cli' = Row(CurrentWs, "in-progress")
    /\ troubled' = troubled \cup {CurrentWs}
    /\ UNCHANGED <<stateVars, sel, imp, started, touched>>

(***************************************************************************)
(* Workspaces in progress come first.  The order by time of update is left *)
(* out: rows of one state keep the order of the directory.                 *)
(***************************************************************************)
Sorted(rows) ==
    LET first == {n \in DOMAIN rows : rows[n].state = "in-progress"}
    IN Remaining(rows, first) \o Remaining(rows, DOMAIN rows \ first)

(***************************************************************************)
(* Faulty variant: the cache is saved only if it was empty before.         *)
(***************************************************************************)
SaveFirstOnly == cache' = IF cli.dirty /\ cache = {} THEN cli.view ELSE cache

(***************************************************************************)
(* The whole cache is written, not the new entries.                        *)
(***************************************************************************)
SaveDirty == cache' = IF cli.dirty THEN cli.view ELSE cache

SaveCache ==
    /\ At("inspect") /\ cli.todo = <<>>
    /\ SaveDirty
    /\ cli' = [cli EXCEPT !.pc = "show", !.rows = Sorted(@)]
    /\ UNCHANGED <<place, fs, repos, baseline, sel, imp, events, history>>

(***************************************************************************)
(* The metadata, a directory or the cache cannot be read or written: the   *)
(* command ends without rows.                                              *)
(***************************************************************************)
ListFails ==
    /\ At("inspect")
    /\ Event
    /\ Return
    /\ UNCHANGED <<stateVars, history>>

RowState(w) ==
    LET at == {n \in DOMAIN cli.rows : cli.rows[n].id = w}
    IN IF at = {} THEN "none" ELSE cli.rows[CHOOSE n \in at : TRUE].state

Reported == started' = started \cup {w \in Ws : RowState(w) = "in-progress"}

RowIds == [n \in DOMAIN cli.rows |-> cli.rows[n].id]

OpenSelector ==
    /\ sel' = newWorkspaceSelectorModel(RowIds, cli.op = "select")
    /\ Goto("select")
    /\ UNCHANGED imp

(***************************************************************************)
(* Faulty variant: without a row to select, the rows are read again.       *)
(***************************************************************************)
ShowRetries ==
    /\ At("show")
    /\ Reported
    /\ \/ cli.op = "list" /\ Return
       \/ cli.op # "list" /\ cli.rows # <<>> /\ OpenSelector
       \/ /\ cli.op # "list" /\ cli.rows = <<>>
          /\ listRows(cli.op, cli.act, cli.scope)
          /\ UNCHANGED <<sel, imp>>
    /\ UNCHANGED <<stateVars, events, touched, troubled>>

(***************************************************************************)
(* ws list ends here; the others open the selector, if there is a row.     *)
(***************************************************************************)
Show ==
    /\ At("show")
    /\ Reported
    /\ \/ (cli.op = "list" \/ cli.rows = <<>>) /\ Return
       \/ cli.op # "list" /\ cli.rows # <<>> /\ OpenSelector
    /\ UNCHANGED <<stateVars, events, touched, troubled>>
-----------------------------------------------------------------------------
(***************************************************************************)
(* The selector, for workspaces, for an action and for a sprint.           *)
(***************************************************************************)
Selecting == cli.pc \in {"select", "choose", "sprint"}

UserKey ==
    /\ Selecting
    /\ Key
    /\ UNCHANGED <<stateVars, imp, cli, events, history>>

SelectorConfirmed ==
    /\ Selecting
    /\ ConfirmDone
    /\ UNCHANGED <<stateVars, imp, cli, events, history>>

(***************************************************************************)
(* Canceled, or the root is no git worktree (preflightWSSelectMultiAction, *)
(* for reopen and purge).                                                  *)
(***************************************************************************)
SelectAborts ==
    /\ Selecting
    /\ \/ sel.phase = "canceled"
       \/ sel.phase = "done" /\ cli.op = "multi" /\ cli.act \in {"reopen", "purge"}
    /\ Return
    /\ UNCHANGED <<stateVars, events, history>>

Selected ==
    /\ At("select") /\ sel.phase = "done"
    /\ IF cli.act # "none"
       THEN /\ cli' = [cli EXCEPT !.pc = "act", !.todo = selectedIDs]
            /\ UNCHANGED sel
       ELSE /\ cli' = [cli EXCEPT !.pc = "choose", !.todo = selectedIDs]
            /\ sel' = newWorkspaceSelectorModel(ActionsIn(cli.scope), TRUE)
    /\ UNCHANGED <<stateVars, imp, events, history>>

(***************************************************************************)
(* The action is run on the workspace picked before; the selector that the *)
(* workspace was picked in is put back for the history.                    *)
(***************************************************************************)
ActionChosen ==
    /\ At("choose") /\ sel.phase = "done"
    /\ cli' = [cli EXCEPT !.pc = "act", !.act = Head(selectedIDs)]
    /\ sel' = [Closed EXCEPT !.marked = {CurrentWs}]
    /\ UNCHANGED <<stateVars, imp, events, history>>

SprintChosen ==
    /\ At("sprint") /\ sel.phase = "done"
    /\ Goto("search")
    /\ sel' = Closed
    /\ UNCHANGED <<stateVars, imp, events, history>>
-----------------------------------------------------------------------------
(***************************************************************************)
(* What close, reopen, purge and create do to a workspace.                 *)
(***************************************************************************)
Restored ==
    {r \in Worktree : ~r.missing /\ r.head # NoHead /\ ~r.snap.error /\ ~r.snap.dirty}

Moved(w, act) ==
    \/ act = "create" /\ Created(w)
    \/ /\ act = "close" /\ place[w] = "active"
       /\ place' = [place EXCEPT ![w] = "archived"]
       /\ repos' = [repos EXCEPT ![w] = [a \in DOMAIN @ |-> Gone]]
       /\ UNCHANGED fs
    \/ /\ act = "reopen" /\ place[w] = "archived"
       /\ place' = [place EXCEPT ![w] = "active"]
       /\ \E trees \in [DOMAIN repos[w] -> Restored] :
            repos' = [repos EXCEPT ![w] = trees]
       /\ UNCHANGED fs
    \/ /\ act = "purge" /\ place[w] = "archived"
       /\ place' = [place EXCEPT ![w] = "none"]
       /\ fs' = [fs EXCEPT ![w] = NoFiles]
       /\ repos' = [repos EXCEPT ![w] = NoFiles]

NewBaseline(act, files, trees) ==
    IF act \in {"create", "reopen"} THEN Captured(files, trees) ELSE NoBaseline

(***************************************************************************)
(* Faulty variant: only the baseline is taken care of.                     *)
(***************************************************************************)
KeepCacheEntry(w) == cache' = cache

clearWorkspaceWorkStateCacheEntry(w) == cache' = cache \ {w}

NewLife(w) ==
    /\ started' = started \ {w}
    /\ touched' = touched \ {w}

Attempted == [cli EXCEPT !.attempted = Append(@, CurrentWs)]

Act ==
    /\ At("act") /\ cli.todo # <<>>
    /\ Moved(CurrentWs, cli.act)
    /\ NewLife(CurrentWs)
    /\ cli' = [Attempted EXCEPT !.pc = "baseline"]
    /\ UNCHANGED <<baseline, cache, sel, imp, events, troubled>>

(***************************************************************************)
(* Faulty variant: the first workspace that fails ends the command.        *)
(***************************************************************************)
ActOrGiveUp ==
    /\ At("act") /\ cli.todo # <<>>
    /\ Return
    /\ UNCHANGED <<stateVars, events, history>>

(***************************************************************************)
(* The workspace is elsewhere by now, its guard is on, the user says no to *)
(* the risk, or git fails.  Open and unlock change nothing of this state,  *)
(* and what add-repo and remove-repo change is among the changes of        *)
(* UserEdit.  The next workspace is tried all the same.                    *)
(***************************************************************************)
ActWithoutEffect ==
    /\ At("act") /\ cli.todo # <<>>
    /\ cli' = [Attempted EXCEPT !.todo = Tail(@)]
    /\ UNCHANGED <<stateVars, sel, imp, events, history>>

(***************************************************************************)
(* Close fails after it has removed worktrees.                             *)
(***************************************************************************)
CloseFailsHalfway ==
    /\ At("act") /\ cli.todo # <<>> /\ cli.act = "close"
    /\ place[CurrentWs] = "active"
    /\ Event
    /\ repos' = [repos EXCEPT ![CurrentWs] = [a \in DOMAIN @ |-> Gone]]
    /\ troubled' = troubled \cup {CurrentWs}
    /\ cli' = [Attempted EXCEPT !.todo = Tail(@)]
    /\ UNCHANGED <<place, fs, baseline, cache, sel, imp, started, touched>>

ActsDone ==
    /\ At("act") /\ cli.todo = <<>>
    /\ Return
    /\ UNCHANGED <<stateVars, events, history>>

(***************************************************************************)
(* The bookkeeping: createOrRefreshWorkspaceBaseline or                    *)
(* removeWorkspaceBaselineAndWorkState.  When the first half fails the     *)
(* second is skipped, and only a debug line says so; ws create fails.      *)
(***************************************************************************)
NextWs == [cli EXCEPT !.pc = "act", !.todo = Tail(@)]

WriteBaseline ==
    /\ At("baseline")
    /\ baseline' = [baseline EXCEPT
           ![CurrentWs] = NewBaseline(cli.act, fs[CurrentWs], repos[CurrentWs])]
    /\ Goto("cache")
    /\ UNCHANGED <<place, fs, repos, cache, sel, imp, events, history>>

ClearCache ==
    /\ At("cache")
    /\ clearWorkspaceWorkStateCacheEntry(CurrentWs)
    /\ troubled' = troubled \ {CurrentWs}
    /\ cli' = NextWs
    /\ UNCHANGED <<place, fs, repos, baseline, sel, imp, events, started, touched>>

BookkeepingFails ==
    /\ cli.pc \in {"baseline", "cache"}
    /\ Event
    /\ troubled' = troubled \cup {CurrentWs}
    /\ cli' = NextWs
    /\ UNCHANGED <<stateVars, sel, imp, started, touched>>

(***************************************************************************)
(* runWSCreate after its questions.                                        *)
(***************************************************************************)
Create(w) ==
    /\ At("idle")
    /\ Moved(w, "create")
    /\ NewLife(w)
    /\ cli' = [Idle EXCEPT !.pc = "baseline", !.op = "create", !.act = "create",
                           !.todo = <<w>>]
    /\ UNCHANGED <<baseline, cache, sel, imp, events, troubled>>

(***************************************************************************)
(* Another terminal, while this one waits at a prompt.                     *)
(***************************************************************************)
Elsewhere(w, act) ==
    /\ cli.pc \in Prompts
    /\ Event
    /\ Moved(w, act)
    /\ NewLife(w)
    /\ baseline' = [baseline EXCEPT ![w] = NewBaseline(act, fs'[w], repos'[w])]
    /\ clearWorkspaceWorkStateCacheEntry(w)
    /\ troubled' = troubled \ {w}
    /\ UNCHANGED <<sel, imp, cli>>
-----------------------------------------------------------------------------
(***************************************************************************)
(* ws import jira.  A sprint that is not named is chosen among those Jira  *)
(* lists.                                                                  *)
(***************************************************************************)
StartImport ==
    /\ At("idle")
    /\ \/ cli' = [Idle EXCEPT !.pc = "search", !.op = "import"] /\ UNCHANGED sel
       \/ /\ cli' = [Idle EXCEPT !.pc = "sprint", !.op = "import"]
          /\ sel' = newWorkspaceSelectorModel(Sprints, TRUE)
    /\ UNCHANGED <<stateVars, imp, events, history>>

(***************************************************************************)
(* The plan is shown and asked about, or applied at once (--apply).        *)
(***************************************************************************)
Search ==
    /\ At("search")
    /\ \E inputs \in Inputs : imp' = buildWSImportJiraPlan(inputs)
    /\ \E pc \in {"confirm", "import"} : Goto(pc)
    /\ UNCHANGED <<stateVars, sel, events, history>>

(***************************************************************************)
(* The search fails, or only the plan was wanted.                          *)
(***************************************************************************)
SearchEnds ==
    /\ At("search")
    /\ Return
    /\ UNCHANGED <<stateVars, events, history>>

ConfirmImport ==
    /\ At("confirm")
    /\ Goto("import")
    /\ UNCHANGED <<stateVars, sel, imp, events, history>>

DeclineImport ==
    /\ At("confirm")
    /\ Return
    /\ UNCHANGED <<stateVars, events, history>>

ImportOne ==
    /\ At("import") /\ imp.todo # <<>>
    /\ ImportCreates(Head(imp.todo))
    /\ NewLife(Head(imp.todo))
    /\ UNCHANGED <<sel, cli, events, troubled>>

ImportOneFails ==
    /\ At("import") /\ imp.todo # <<>>
    /\ \/ place[Head(imp.todo)] # "none" /\ UNCHANGED events
       \/ Event
    /\ ImportCannotCreate(Head(imp.todo))
    /\ UNCHANGED <<sel, cli, history>>

ImportDone ==
    /\ At("import") /\ imp.todo = <<>>
    /\ ImportSummary
    /\ Goto("shown")
    /\ UNCHANGED <<stateVars, sel, events, history>>

ImportReturns ==
    /\ At("shown")
    /\ Return
    /\ UNCHANGED <<stateVars, events, history>>
-----------------------------------------------------------------------------
(***************************************************************************)
(* The user changes a file or a worktree, at any time.  The steps from one *)
(* of these places to the next neither read nor write what is changed, so  *)
(* a change between them comes to the same as one before or after.         *)
(***************************************************************************)
Reads == {"idle", "inspect", "act", "baseline"}

UserEdit(w) ==
    /\ cli.pc \in Reads
    /\ place[w] = "active"
    /\ Event
    /\ touched' = touched \cup {w}
    /\ \/ \E files \in Contents \ {fs[w]} : fs' = [fs EXCEPT ![w] = files] /\ UNCHANGED repos
       \/ \E trees \in Repos \ {repos[w]} :
            repos' = [repos EXCEPT ![w] = trees] /\ UNCHANGED fs
    /\ UNCHANGED <<place, baseline, cache, sel, imp, cli, started, troubled>>

Crash ==
    /\ ~At("idle")
    /\ Event
    /\ Return
    /\ troubled' = IF cli.pc \in {"baseline", "cache"} THEN troubled \cup {CurrentWs}
                   ELSE troubled
    /\ UNCHANGED <<stateVars, started, touched>>

(***************************************************************************)
(* What kra does without the user.                                         *)
(***************************************************************************)
Work ==
    \/ Inspect \/ InspectFails \/ SaveCache \/ ListFails \/ Show
    \/ SelectorConfirmed \/ SelectAborts \/ Selected \/ ActionChosen \/ SprintChosen
    \/ Act \/ ActWithoutEffect \/ CloseFailsHalfway \/ ActsDone
    \/ WriteBaseline \/ ClearCache \/ BookkeepingFails
    \/ Search \/ SearchEnds \/ ImportOne \/ ImportOneFails \/ ImportDone \/ ImportReturns

Command ==
    \/ StartList \/ StartMulti \/ StartSelect \/ StartImport
    \/ \E w \in Ws : Create(w)

User == UserKey \/ ConfirmImport \/ DeclineImport \/ \E w \in Ws : UserEdit(w)

OtherTerminal ==
    \E w \in Ws, act \in {"create", "close", "reopen", "purge"} : Elsewhere(w, act)

Next == Work \/ Command \/ User \/ OtherTerminal \/ Crash

Spec == Init /\ [][Next]_vars

(***************************************************************************)
(* A command that has something to do goes on; the user need not.          *)
(***************************************************************************)
FairSpec == Spec /\ WF_vars(Work)
-----------------------------------------------------------------------------
(***************************************************************************)
(* A workspace once shown as in progress is never shown as todo again      *)
(* until it is closed, although the difference to the baseline may go      *)
(* away, other workspaces come and go and commands fail and crash between  *)
(* (listRowsFromFilesystem, resolveWorkspaceWorkState).                    *)
(***************************************************************************)
InProgressKept ==
    At("show") /\ cli.scope = "active" => \A w \in started : RowState(w) # "todo"

(***************************************************************************)
(* A workspace is shown as in progress only if the user has changed it in  *)
(* this life or a failure has left a trace: nothing is inherited from the  *)
(* life before a close, a purge or a reopen, neither by the cache nor by   *)
(* the baseline (removeWorkspaceBaselineAndWorkState,                      *)
(* createOrRefreshWorkspaceBaseline).                                      *)
(***************************************************************************)
InProgressJustified == started \subseteq touched \cup troubled

(***************************************************************************)
(* A selection is acted on exactly: between two workspaces, what has been  *)
(* tried and what is left are the workspaces that were marked on the       *)
(* screen, each once; and unless the process dies the command ends only    *)
(* when all of them have been tried, although the filter hides rows, some  *)
(* of them fail and another terminal may have moved one                    *)
(* (toggleCurrentSelection, selectedIDs, the loop of runWSSelectMulti).    *)
(* The code has no other mode, although select-multi.md describes fail-fast *)
(* as the default.                                                         *)
(***************************************************************************)
Tried == {cli.attempted[n] : n \in DOMAIN cli.attempted}

MarkedInWork ==
    At("act") =>
        /\ Tried \cup {cli.todo[n] : n \in DOMAIN cli.todo} = sel.marked
        /\ Len(cli.attempted) + Len(cli.todo) = Cardinality(sel.marked)

MarkedAreActedOn ==
    [][/\ MarkedInWork'
       /\ cli.pc \in {"act", "baseline", "cache"} /\ At("idle")' /\ ~Crash
          => Tried = sel.marked]_vars

(***************************************************************************)
(* What ws import jira reports adds up (see ReportAddsUp).                 *)
(***************************************************************************)
ImportAccounted == At("shown") => ReportAddsUp

(***************************************************************************)
(* A command always ends or waits for an answer of the user: neither a     *)
(* failure nor a choice that is being confirmed leaves it hanging          *)
(* (selectorConfirmDoneMsg, runWSSelectMulti, runWSImportJira).            *)
(***************************************************************************)
Waiting == At("confirm") \/ (Selecting /\ sel.phase = "open")

CommandsReturn == []<>(At("idle") \/ Waiting)
===============================================================================
