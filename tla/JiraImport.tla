------------------------------ MODULE JiraImport ------------------------------
(***************************************************************************)
(* ws import jira: the issues of a search become a plan (create, skip or   *)
(* fail), and a plan that is applied creates one workspace after another   *)
(* and goes on when one of them cannot be created.  Jira is external: a    *)
(* search answers with any issues, in any order.                           *)
(***************************************************************************)
EXTENDS WorkState, Filtered

CONSTANTS
    Invalid,    \* an issue key that is no workspace id
    Template,   \* files of the default template
    MaxIssues   \* bound: issues of a search

ASSUME JiraImportAssumption ==
    Invalid \notin Ws /\ Template \in Files /\ MaxIssues \in Nat

VARIABLE imp    \* the plan in memory, and history: what the import made

Inputs == UNION {[1..n -> Ws \cup {Invalid}] : n \in 0..MaxIssues}

NoImport == [items |-> <<>>, toCreate |-> 0, skipped |-> 0, failed |-> 0,
             todo |-> <<>>, created |-> 0, made |-> {}]

PlannedAction(k) ==
    IF k = Invalid THEN "fail" ELSE IF place[k] # "none" THEN "skip" ELSE "create"

Planned(inputs, action) == {n \in DOMAIN inputs : PlannedAction(inputs[n]) = action}

buildWSImportJiraPlan(inputs) ==
    [NoImport EXCEPT
        !.items = [n \in DOMAIN inputs |->
                     [key |-> inputs[n], action |-> PlannedAction(inputs[n])]],
        !.toCreate = Cardinality(Planned(inputs, "create")),
        !.skipped = Cardinality(Planned(inputs, "skip")),
        !.failed = Cardinality(Planned(inputs, "fail")),
        !.todo = Remaining(inputs, Planned(inputs, "create"))]

(***************************************************************************)
(* Faulty variant: the plan keeps saying create.                           *)
(***************************************************************************)
MarkNothing(items, k) == items

(***************************************************************************)
(* The first item that still says create for the key; a new item if there  *)
(* is none.                                                                *)
(***************************************************************************)
markWSImportJiraCreateItemAsFailed(items, k) ==
    LET open == {n \in DOMAIN items : items[n] = [key |-> k, action |-> "create"]}
        first == CHOOSE n \in open : \A m \in open : n <= m
    IN IF open = {} THEN Append(items, [key |-> k, action |-> "fail"])
       ELSE [items EXCEPT ![first].action = "fail"]

(***************************************************************************)
(* createWorkspaceAtRoot: only where neither directory exists.  It takes   *)
(* no baseline.                                                            *)
(***************************************************************************)
Created(w) ==
    /\ place[w] = "none"
    /\ place' = [place EXCEPT ![w] = "active"]
    /\ fs' = [fs EXCEPT ![w] = Template]
    /\ repos' = [repos EXCEPT ![w] = NoFiles]

ImportCreates(w) ==
    /\ Created(w)
    /\ imp' = [imp EXCEPT !.todo = Tail(@), !.created = @ + 1, !.made = @ \cup {w}]
    /\ UNCHANGED <<baseline, cache>>

(***************************************************************************)
(* The workspace has appeared since the plan was made, or the template or  *)
(* the file system fails.                                                  *)
(***************************************************************************)
ImportCannotCreate(w) ==
    /\ imp' = [imp EXCEPT
                !.todo = Tail(@), !.failed = @ + 1,
                !.items = markWSImportJiraCreateItemAsFailed(@, w)]
    /\ UNCHANGED stateVars

ImportSummary == imp' = [imp EXCEPT !.toCreate = imp.created]
-----------------------------------------------------------------------------
ItemsThatSay(action) == {n \in DOMAIN imp.items : imp.items[n].action = action}

(***************************************************************************)
(* The report adds up, although the plan is older than the directories it  *)
(* is applied to, issues may come twice and any creation may fail: every   *)
(* issue is counted once, as what its item says, and the items that say    *)
(* create are those of the workspaces this import made (runWSImportJira).  *)
(***************************************************************************)
ReportAddsUp ==
    /\ imp.toCreate = Cardinality(ItemsThatSay("create"))
    /\ imp.skipped = Cardinality(ItemsThatSay("skip"))
    /\ imp.failed = Cardinality(ItemsThatSay("fail"))
    /\ imp.made = {imp.items[n].key : n \in ItemsThatSay("create")}
===============================================================================
