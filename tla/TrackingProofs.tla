---------------------------- MODULE TrackingProofs ----------------------------
(***************************************************************************)
(* What ws list says of a workspace is justified and stays, the cursor of  *)
(* a selector is usable, a selection is acted on exactly and the report of *)
(* an import adds up, for any number of workspaces, files, worktrees and   *)
(* issues, and any number of edits, failures, crashes and commands in      *)
(* another terminal.                                                       *)
(***************************************************************************)
EXTENDS Tracking, FilteredProofs

RowType == [id : Ws, state : {"todo", "in-progress"}]

(***************************************************************************)
(* What a selector can offer.                                              *)
(***************************************************************************)
Item ==
    Ws \cup {Sprints[n] : n \in DOMAIN Sprints}
       \cup {"none", "create", "open", "add-repo", "remove-repo", "close",
             "reopen", "unlock", "purge"}

CliType ==
    [pc : PC, op : {"none", "list", "multi", "select", "create", "import"},
     act : Item, scope : {"active", "archived"}, view : SUBSET Ws,
     dirty : BOOLEAN, rows : Seq(RowType), todo : Seq(Ws), attempted : Seq(Ws)]

Types ==
    /\ place \in [Ws -> {"none", "active", "archived"}]
    /\ fs \in [Ws -> Files]
    /\ repos \in [Ws -> Repos]
    /\ baseline \in [Ws -> Baseline]
    /\ cache \in SUBSET Ws
    /\ started \in SUBSET Ws /\ touched \in SUBSET Ws /\ troubled \in SUBSET Ws
    /\ cli \in CliType
    /\ cli.pc \in {"baseline", "cache"} => cli.todo # <<>>
-----------------------------------------------------------------------------
(***************************************************************************)
(* The work state                                                          *)
(***************************************************************************)
Excused == touched \cup troubled

(***************************************************************************)
(* The bookkeeping of a workspace that has a new life is not done.         *)
(***************************************************************************)
Pending(w) == cli.pc \in {"baseline", "cache"} /\ w = CurrentWs

(***************************************************************************)
(* A workspace the user has not changed in this life and whose baseline is *)
(* up to date: it is removed outside of the active directory, and nothing  *)
(* differs from it inside.                                                 *)
(***************************************************************************)
Settled(w) ==
    /\ w \notin touched
    /\ ~(cli.pc = "baseline" /\ w = CurrentWs)
    /\ w \in troubled => cli.pc = "cache" /\ w = CurrentWs

BaselineOf(w) ==
    IF place[w] = "active" THEN deriveWorkspaceWorkStateFromBaseline(w) = "todo"
    ELSE baseline[w] = NoBaseline

BaselineInv == \A w \in Ws : Settled(w) => BaselineOf(w)

(***************************************************************************)
(* A command about to take a baseline finds what it has just made, or what *)
(* the user has made of it since.                                          *)
(***************************************************************************)
NewLifeInv ==
    cli.pc = "baseline" =>
        /\ cli.act \in {"create", "reopen"} <=> place[CurrentWs] = "active"
        /\ CurrentWs \notin touched =>
             \A a \in DOMAIN repos[CurrentWs] :
                cli.act \in {"create", "reopen"} => repos[CurrentWs][a] \in Restored

TouchedInv == \A w \in touched : place[w] = "active"

StartedInv ==
    /\ started \subseteq Excused
    /\ started \subseteq cache
    /\ \A w \in started : ~Pending(w)

CacheInv == \A w \in cache : w \in Excused \/ Pending(w)

(***************************************************************************)
(* The listing: its view holds the cache and the rows in progress.         *)
(***************************************************************************)
ListInv ==
    /\ cli.pc = "inspect" =>
         /\ cache \subseteq cli.view
         /\ ~cli.dirty => cli.view = cache
         /\ \A n \in DOMAIN cli.todo : place[cli.todo[n]] = cli.scope
    /\ cli.pc = "show" => cli.view = cache
    /\ cli.pc \in {"inspect", "show"} => cli.view \subseteq Excused

RowsInv ==
    cli.pc \in {"inspect", "show"} => \A n \in DOMAIN cli.rows :
        IF cli.rows[n].state = "in-progress" THEN cli.rows[n].id \in cli.view
        ELSE cli.scope = "active" => cli.rows[n].id \notin cli.view

(***************************************************************************)
(* A workspace has one row.                                                *)
(***************************************************************************)
OneRowInv ==
    /\ cli.pc \in {"inspect", "show"} =>
         \A n, m \in DOMAIN cli.rows : cli.rows[n].id = cli.rows[m].id => n = m
    /\ cli.pc = "inspect" =>
         /\ \A n, m \in DOMAIN cli.todo : cli.todo[n] = cli.todo[m] => n = m
         /\ \A n \in DOMAIN cli.rows, m \in DOMAIN cli.todo :
              cli.rows[n].id # cli.todo[m]

WorkInv ==
    /\ Types /\ BaselineInv /\ NewLifeInv /\ TouchedInv /\ StartedInv
    /\ CacheInv /\ ListInv /\ RowsInv /\ OneRowInv
-----------------------------------------------------------------------------
(***************************************************************************)
(* The selector                                                            *)
(***************************************************************************)
SelType ==
    [cands : Seq(Item), single : BOOLEAN, shown : SUBSET Nat, cursor : Nat,
     selected : SUBSET Nat, marked : SUBSET Item,
     phase : {"closed", "open", "confirming", "done", "canceled"}]

CursorInv ==
    /\ sel \in SelType
    /\ sel.shown \subseteq DOMAIN sel.cands
    /\ sel.shown # {} => sel.cursor < VisibleCount

(***************************************************************************)
(* What is marked on the screen is what is selected; of rows that can be   *)
(* marked one by one no two are the same; a single choice is one.          *)
(***************************************************************************)
MarksInv ==
    Selecting =>
        /\ sel.selected \subseteq DOMAIN sel.cands
        /\ sel.marked = {sel.cands[j] : j \in sel.selected}
        /\ sel.single => /\ sel.phase = "open" => sel.selected = {}
                         /\ sel.phase \in {"confirming", "done"} =>
                              \E j \in DOMAIN sel.cands : sel.selected = {j}
        /\ ~sel.single => \A i, j \in DOMAIN sel.cands :
                             sel.cands[i] = sel.cands[j] => i = j

(***************************************************************************)
(* From the choice of workspaces to the last action.                       *)
(***************************************************************************)
InSeq(s) == {s[n] : n \in DOMAIN s}

ChoiceInv ==
    /\ cli.pc \in {"inspect", "show"} =>
         /\ cli.attempted = <<>>
         /\ cli.op \in {"list", "multi", "select"}
         /\ cli.op = "multi" => cli.act # "none"
    /\ At("select") => /\ sel.cands \in Seq(Ws) /\ cli.attempted = <<>>
    /\ At("choose") => cli.attempted = <<>> /\ Len(cli.todo) = 1
    /\ \/ At("select") /\ cli.act = "none"
       \/ cli.pc \in {"choose", "sprint"}
       => sel.single \/ sel.phase = "canceled"
    /\ At("act") => MarkedInWork
    /\ cli.pc \in {"baseline", "cache"} =>
         /\ InSeq(cli.attempted) \cup InSeq(Tail(cli.todo)) = sel.marked
         /\ Len(cli.attempted) + Len(cli.todo) = Cardinality(sel.marked) + 1
    /\ At("idle") => sel.marked = {}

ChosenInv == CursorInv /\ MarksInv /\ ChoiceInv
-----------------------------------------------------------------------------
(***************************************************************************)
(* The import                                                              *)
(***************************************************************************)
Says(k) == {n \in DOMAIN imp.items : imp.items[n] = [key |-> k, action |-> "create"]}
Left(k) == {n \in DOMAIN imp.todo : imp.todo[n] = k}

ImpType ==
    [items : Seq([key : Ws \cup {Invalid}, action : {"create", "skip", "fail"}]),
     toCreate : Nat, skipped : Nat, failed : Nat, todo : Seq(Ws), created : Nat,
     made : SUBSET Ws]

(***************************************************************************)
(* As many items of a key say create as there are creations of it to come, *)
(* and one more if it has been created; that happens once.                 *)
(***************************************************************************)
PlanInv ==
    /\ imp \in ImpType
    /\ \A n \in ItemsThatSay("create") : imp.items[n].key \in Ws
    /\ cli.pc \in {"confirm", "import"} =>
         /\ imp.skipped = Cardinality(ItemsThatSay("skip"))
         /\ imp.failed = Cardinality(ItemsThatSay("fail"))
         /\ imp.created + Len(imp.todo) = Cardinality(ItemsThatSay("create"))
         /\ \A k \in Ws : Cardinality(Says(k)) =
              Cardinality(Left(k)) + (IF k \in imp.made THEN 1 ELSE 0)
         /\ cli.pc = "confirm" => imp.made = {}
         /\ \A k \in imp.made : place[k] # "none"

ImportInv == PlanInv /\ ImportAccounted

TrackInv == WorkInv /\ ChosenInv /\ ImportInv
-----------------------------------------------------------------------------
(***************************************************************************)
(* Types                                                                   *)
(***************************************************************************)
LEMMA NoFilesType == NoFiles \in Files /\ NoFiles \in Repos /\ DOMAIN NoFiles = {}
<1>1. NoFiles \in [{} -> Hash] /\ NoFiles \in [{} -> Worktree] /\ DOMAIN NoFiles = {}
  BY DEF NoFiles
<1>2. {} \in SUBSET Path /\ {} \in SUBSET Alias
  OBVIOUS
<1> QED
  BY <1>1, <1>2 DEF Files, Repos

LEMMA NoBaselineType == NoBaseline \in Baseline
BY DEF Baseline

LEMMA CapturedType ==
    ASSUME NEW f \in Files, NEW r \in Repos
    PROVE  Captured(f, r) \in Baseline /\ Captured(f, r).present /\ Captured(f, r).fs = f
<1> DEFINE seen == {a \in DOMAIN r : ~r[a].missing /\ r[a].head # NoHead}
           heads == [a \in seen |-> r[a].head]
<1>1. PICK S \in SUBSET Alias : r \in [S -> Worktree]
  BY DEF Repos
<1>2. \A a \in S : r[a] \in Worktree
  BY <1>1
<1>3. \A t \in Worktree : ~t.missing => t \in Trees
  BY DEF Worktree, Gone
<1>4. \A t \in Trees : t.head \in Commit \cup {NoHead}
  BY WorkStateAssumption
<1>5. seen \in SUBSET Alias /\ heads \in [seen -> Commit]
  BY <1>1, <1>2, <1>3, <1>4
<1>6. heads \in UNION {[T -> Commit] : T \in SUBSET Alias}
  BY <1>5
<1>7. Captured(f, r) = [present |-> TRUE, repos |-> heads, fs |-> f]
  BY DEF Captured
<1> HIDE DEF heads
<1> QED
  BY <1>6, <1>7 DEF Baseline

LEMMA GoneType ==
    ASSUME NEW r \in Repos
    PROVE  [a \in DOMAIN r |-> Gone] \in Repos
<1>1. PICK S \in SUBSET Alias : r \in [S -> Worktree]
  BY DEF Repos
<1>2. [a \in DOMAIN r |-> Gone] \in [S -> Worktree]
  BY <1>1 DEF Worktree
<1> QED
  BY <1>2 DEF Repos

LEMMA RestoredType ==
    ASSUME NEW r \in Repos, NEW t \in [DOMAIN r -> Restored]
    PROVE  t \in Repos
<1>1. PICK S \in SUBSET Alias : r \in [S -> Worktree]
  BY DEF Repos
<1>2. t \in [S -> Worktree]
  BY <1>1 DEF Restored
<1> QED
  BY <1>2 DEF Repos

LEMMA MovedType ==
    ASSUME Types, NEW w \in Ws, NEW act, Moved(w, act)
    PROVE  /\ place' \in [Ws -> {"none", "active", "archived"}]
           /\ fs' \in [Ws -> Files]
           /\ repos' \in [Ws -> Repos]
<1>1. repos[w] \in Repos /\ Template \in Files
  BY JiraImportAssumption DEF Types
<1>2. CASE act = "create" /\ Created(w)
  BY <1>1, <1>2, NoFilesType DEF Created, Types
<1>3. CASE act = "close" /\ repos' = [repos EXCEPT ![w] = [a \in DOMAIN @ |-> Gone]]
           /\ place' = [place EXCEPT ![w] = "archived"] /\ UNCHANGED fs
  <2>1. repos' = [repos EXCEPT ![w] = [a \in DOMAIN repos[w] |-> Gone]]
    BY <1>3
  <2> QED
    BY <1>1, <1>3, <2>1, GoneType DEF Types
<1>4. CASE /\ place' = [place EXCEPT ![w] = "active"]
           /\ \E trees \in [DOMAIN repos[w] -> Restored] : repos' = [repos EXCEPT ![w] = trees]
           /\ UNCHANGED fs
  BY <1>1, <1>4, RestoredType DEF Types
<1>5. CASE /\ place' = [place EXCEPT ![w] = "none"]
           /\ fs' = [fs EXCEPT ![w] = NoFiles]
           /\ repos' = [repos EXCEPT ![w] = NoFiles]
  BY <1>1, <1>5, NoFilesType DEF Types
<1> QED
  BY <1>2, <1>3, <1>4, <1>5 DEF Moved

LEMMA IdleType == Idle \in CliType /\ Idle.todo = <<>> /\ Idle.pc = "idle"
BY DEF Idle, CliType, PC, Item

LEMMA NamesSeq == Names \in Seq(Ws) /\ \A n, m \in DOMAIN Names : Names[n] = Names[m] => n = m
<1>1. Names \in Seq(Ws) /\ DOMAIN Names = 1..Len(Names) /\ Len(Names) \in Nat
  BY TrackingAssumption
<1>2. 1 \in Int /\ Len(Names) \in Int
  BY <1>1
<1>3. IsFiniteSet(1..Len(Names)) /\ Cardinality(1..Len(Names)) = Len(Names)
  BY <1>1, <1>2, FS_Interval
<1>4. Names \in Surjection(1..Len(Names), Ws)
  <2>1. Names \in [1..Len(Names) -> Ws]
    BY <1>1
  <2>2. Ws = {Names[n] : n \in DOMAIN Names}
    BY TrackingAssumption
  <2>3. \A w \in Ws : \E n \in 1..Len(Names) : Names[n] = w
    BY <1>1, <2>2
  <2> QED
    BY <2>1, <2>3 DEF Surjection
<1>5. Cardinality(1..Len(Names)) = Cardinality(Ws)
  BY <1>3, TrackingAssumption
<1>6. Names \in Injection(1..Len(Names), Ws)
  BY <1>3, <1>4, <1>5, FS_SurjSameCardinalityImpliesInj
<1> QED
  BY <1>1, <1>6 DEF Injection, IsInjective

(***************************************************************************)
(* The workspaces to list.                                                 *)
(***************************************************************************)
LEMMA ListTodo ==
    ASSUME NEW scope
    PROVE  LET todo == Remaining(Names, {n \in DOMAIN Names : place[Names[n]] = scope})
           IN  /\ todo \in Seq(Ws)
               /\ \A n \in DOMAIN todo : place[todo[n]] = scope
               /\ \A n, m \in DOMAIN todo : todo[n] = todo[m] => n = m
<1> DEFINE left == {n \in DOMAIN Names : place[Names[n]] = scope}
           todo == Remaining(Names, left)
<1>1. Names \in Seq(Ws) /\ left \in SUBSET DOMAIN Names
  BY NamesSeq
<1>2. /\ todo \in Seq(Ws)
      /\ \A n \in DOMAIN todo : Nth(left, n - 1) \in left /\ todo[n] = Names[Nth(left, n - 1)]
      /\ \A n, m \in DOMAIN todo : Nth(left, n - 1) = Nth(left, m - 1) => n = m
  BY <1>1, RemainingProperties
<1>3. \A n \in DOMAIN todo : place[todo[n]] = scope
  BY <1>2
<1>4. \A n, m \in DOMAIN todo : todo[n] = todo[m] => n = m
  BY <1>1, <1>2, NamesSeq
<1> QED
  BY <1>2, <1>3, <1>4

LEMMA ListRows ==
    ASSUME NEW op \in {"list", "multi", "select"}, NEW act \in Item,
           NEW scope \in {"active", "archived"}, listRows(op, act, scope), cache \in SUBSET Ws
    PROVE  /\ cli' \in CliType
           /\ cli'.pc = "inspect" /\ cli'.scope = scope /\ cli'.view = cache
           /\ ~cli'.dirty /\ cli'.rows = <<>> /\ cli'.attempted = <<>>
           /\ cli'.act = act /\ cli'.op = op
           /\ \A n \in DOMAIN cli'.todo : place[cli'.todo[n]] = scope
           /\ \A n, m \in DOMAIN cli'.todo : cli'.todo[n] = cli'.todo[m] => n = m
<1> DEFINE todo == Remaining(Names, {n \in DOMAIN Names : place[Names[n]] = scope})
<1>1. cli' = [Idle EXCEPT !.pc = "inspect", !.op = op, !.act = act, !.scope = scope,
                          !.view = cache, !.todo = todo]
  BY DEF listRows
<1>2. /\ todo \in Seq(Ws)
      /\ \A n \in DOMAIN todo : place[todo[n]] = scope
      /\ \A n, m \in DOMAIN todo : todo[n] = todo[m] => n = m
  BY ListTodo
<1> HIDE DEF todo
<1>3. /\ cli'.pc = "inspect" /\ cli'.scope = scope /\ cli'.view = cache
      /\ cli'.rows = <<>> /\ cli'.attempted = <<>>
      /\ cli'.act = act /\ cli'.op = op /\ cli'.todo = todo
  BY <1>1 DEF Idle
<1>4. ~cli'.dirty
  BY <1>1 DEF Idle
<1>5. cli' \in CliType
  BY <1>1, <1>2, IdleType DEF CliType, PC
<1> QED
  BY <1>2, <1>3, <1>4, <1>5

LEMMA ListStarts ==
    ASSUME Types, StartList \/ StartMulti \/ StartSelect
    PROVE  \E op \in {"list", "multi", "select"}, act \in Item, scope \in {"active", "archived"} :
             /\ listRows(op, act, scope)
             /\ op = "multi" => act # "none"
<1>1. {"none", "close", "reopen", "purge"} \subseteq Item
  BY DEF Item
<1>2. \A act : Scope(act) \in {"active", "archived"}
  BY DEF Scope
<1> QED
  BY <1>1, <1>2 DEF StartList, StartMulti, StartSelect

(***************************************************************************)
(* The choice that is read from a selector.                                *)
(***************************************************************************)
LEMMA SelectedIDs ==
    ASSUME ChosenInv, Selecting
    PROVE  /\ IsFiniteSet(sel.selected)
           /\ selectedIDs \in Seq(Item) /\ Len(selectedIDs) = Cardinality(sel.selected)
           /\ InSeq(selectedIDs) = sel.marked
           /\ At("select") => selectedIDs \in Seq(Ws)
<1>1. /\ sel.cands \in Seq(Item) /\ sel.selected \in SUBSET DOMAIN sel.cands
      /\ sel.marked = {sel.cands[j] : j \in sel.selected}
  BY DEF ChosenInv, CursorInv, SelType, MarksInv
<1>2. /\ IsFiniteSet(sel.selected)
      /\ selectedIDs \in Seq(Item) /\ Len(selectedIDs) = Cardinality(sel.selected)
      /\ \A n \in DOMAIN selectedIDs : \E j \in sel.selected : selectedIDs[n] = sel.cands[j]
      /\ \A j \in sel.selected : \E n \in DOMAIN selectedIDs : selectedIDs[n] = sel.cands[j]
  BY <1>1, RemainingProperties DEF selectedIDs
<1>3. InSeq(selectedIDs) = sel.marked
  BY <1>1, <1>2 DEF InSeq
<1>4. ASSUME At("select") PROVE selectedIDs \in Seq(Ws)
  BY <1>1, <1>4, RemainingProperties DEF selectedIDs, ChosenInv, ChoiceInv
<1> QED
  BY <1>2, <1>3, <1>4

(***************************************************************************)
(* The variables of the command.                                           *)
(***************************************************************************)
CliOk == cli \in CliType /\ (cli.pc \in {"baseline", "cache"} => cli.todo # <<>>)

LEMMA GotoType ==
    ASSUME cli \in CliType, NEW l \in PC \ {"baseline", "cache"}, Goto(l)
    PROVE  CliOk'
BY DEF Goto, CliType, CliOk

LEMMA HeadTodo ==
    ASSUME cli \in CliType, cli.todo # <<>>
    PROVE  /\ CurrentWs \in Ws /\ Tail(cli.todo) \in Seq(Ws)
           /\ 1 \in DOMAIN cli.todo /\ CurrentWs = cli.todo[1]
           /\ DOMAIN Tail(cli.todo) = 1..(Len(cli.todo) - 1)
           /\ \A n \in DOMAIN Tail(cli.todo) :
                n + 1 \in DOMAIN cli.todo /\ Tail(cli.todo)[n] = cli.todo[n + 1]
           /\ Len(cli.todo) \in Nat \ {0} /\ Len(Tail(cli.todo)) = Len(cli.todo) - 1
BY DEF CliType, CurrentWs

LEMMA RowStep ==
    ASSUME cli \in CliType, cli.todo # <<>>, cli.pc = "inspect",
           NEW state \in {"todo", "in-progress"}, cli' = Row(CurrentWs, state)
    PROVE  /\ cli' \in CliType /\ cli'.pc = "inspect"
           /\ cli'.scope = cli.scope /\ cli'.attempted = cli.attempted
           /\ cli'.act = cli.act /\ cli'.op = cli.op
           /\ cli'.todo = Tail(cli.todo)
           /\ cli'.rows = Append(cli.rows, [id |-> CurrentWs, state |-> state])
           /\ cli'.view = IF state = "in-progress" THEN cli.view \cup {CurrentWs} ELSE cli.view
           /\ ~cli'.dirty => cli'.view = cli.view /\ ~cli.dirty
<1> DEFINE r == [id |-> CurrentWs, state |-> state]
           v == IF state = "in-progress" THEN cli.view \cup {CurrentWs} ELSE cli.view
           d == cli.dirty \/ (state = "in-progress" /\ CurrentWs \notin cli.view)
<1>1. CurrentWs \in Ws /\ Tail(cli.todo) \in Seq(Ws)
  BY HeadTodo
<1>2. r \in RowType
  BY <1>1 DEF RowType
<1>3. Append(cli.rows, r) \in Seq(RowType)
  BY <1>2 DEF CliType
<1>4. v \in SUBSET Ws
  BY <1>1 DEF CliType
<1>5. d \in BOOLEAN
  OBVIOUS
<1>6. cli' = [cli EXCEPT !.todo = Tail(cli.todo), !.rows = Append(cli.rows, r),
                         !.view = v, !.dirty = d]
  BY DEF Row, CliType
<1> HIDE DEF r, v, d
<1>7. cli' \in CliType
  BY <1>1, <1>3, <1>4, <1>5, <1>6 DEF CliType
<1>8. /\ cli'.scope = cli.scope /\ cli'.attempted = cli.attempted
      /\ cli'.act = cli.act /\ cli'.op = cli.op /\ cli'.pc = cli.pc
      /\ cli'.todo = Tail(cli.todo) /\ cli'.rows = Append(cli.rows, r)
      /\ cli'.view = v
  BY <1>6 DEF CliType
<1>9. cli'.dirty = d
  BY <1>6 DEF CliType
<1>10. ~d => v = cli.view /\ ~cli.dirty
  BY DEF d, v, CliType
<1> QED
  BY <1>7, <1>8, <1>9, <1>10 DEF r, v

(***************************************************************************)
(* The rows in order are the rows.                                         *)
(***************************************************************************)
LEMMA SortedRows ==
    ASSUME NEW rows \in Seq(RowType)
    PROVE  /\ Sorted(rows) \in Seq(RowType)
           /\ \E f \in Injection(DOMAIN Sorted(rows), DOMAIN rows) :
                \A n \in DOMAIN Sorted(rows) : Sorted(rows)[n] = rows[f[n]]
<1> DEFINE A == {n \in DOMAIN rows : rows[n].state = "in-progress"}
           B == DOMAIN rows \ A
           a == Remaining(rows, A)
           b == Remaining(rows, B)
           f == [n \in DOMAIN (a \o b) |->
                   IF n <= Len(a) THEN Nth(A, n - 1) ELSE Nth(B, (n - Len(a)) - 1)]
<1>1. A \in SUBSET DOMAIN rows /\ B \in SUBSET DOMAIN rows /\ A \cap B = {}
  OBVIOUS
<1> HIDE DEF A, B
<1>2. /\ a \in Seq(RowType) /\ DOMAIN a = 1..Len(a) /\ Len(a) \in Nat
      /\ \A n \in DOMAIN a : Nth(A, n - 1) \in A /\ a[n] = rows[Nth(A, n - 1)]
      /\ \A n, m \in DOMAIN a : Nth(A, n - 1) = Nth(A, m - 1) => n = m
  <2>1. /\ a \in Seq(RowType)
        /\ \A n \in DOMAIN a : Nth(A, n - 1) \in A /\ a[n] = rows[Nth(A, n - 1)]
        /\ \A n, m \in DOMAIN a : Nth(A, n - 1) = Nth(A, m - 1) => n = m
    BY <1>1, RemainingProperties
  <2> HIDE DEF a
  <2> QED
    BY <2>1
<1>3. /\ b \in Seq(RowType) /\ DOMAIN b = 1..Len(b) /\ Len(b) \in Nat
      /\ \A n \in DOMAIN b : Nth(B, n - 1) \in B /\ b[n] = rows[Nth(B, n - 1)]
      /\ \A n, m \in DOMAIN b : Nth(B, n - 1) = Nth(B, m - 1) => n = m
  <2>1. /\ b \in Seq(RowType)
        /\ \A n \in DOMAIN b : Nth(B, n - 1) \in B /\ b[n] = rows[Nth(B, n - 1)]
        /\ \A n, m \in DOMAIN b : Nth(B, n - 1) = Nth(B, m - 1) => n = m
    BY <1>1, RemainingProperties
  <2> HIDE DEF b
  <2> QED
    BY <2>1
<1>4. Sorted(rows) = a \o b
  BY DEF Sorted, A, B
<1> DEFINE c == a \o b
<1> HIDE DEF a, b
<1>5. /\ c \in Seq(RowType) /\ DOMAIN c = 1..(Len(a) + Len(b))
      /\ \A n \in DOMAIN c : c[n] = IF n <= Len(a) THEN a[n] ELSE b[n - Len(a)]
  BY <1>2, <1>3
<1>6. \A n \in DOMAIN c : n \in Nat /\ (n <= Len(a) => n \in DOMAIN a)
  BY <1>2, <1>3, <1>5
<1>7. \A n \in DOMAIN c : ~(n <= Len(a)) => n - Len(a) \in DOMAIN b
  BY <1>2, <1>3, <1>5
<1>8. \A n \in DOMAIN c : f[n] = IF n <= Len(a) THEN Nth(A, n - 1) ELSE Nth(B, (n - Len(a)) - 1)
  OBVIOUS
<1>9. DOMAIN f = DOMAIN c /\ f = [n \in DOMAIN c |-> f[n]]
  OBVIOUS
<1> HIDE DEF f, c
<1>10. \A n \in DOMAIN c : /\ n <= Len(a) => f[n] \in A /\ rows[f[n]] = c[n]
                           /\ ~(n <= Len(a)) => f[n] \in B /\ rows[f[n]] = c[n]
  BY <1>2, <1>3, <1>5, <1>6, <1>7, <1>8
<1>11. f \in [DOMAIN c -> DOMAIN rows]
  <2>1. \A n \in DOMAIN c : f[n] \in DOMAIN rows
    BY <1>1, <1>10
  <2> QED
    BY <1>9, <2>1
<1>12. ASSUME NEW n \in DOMAIN c, NEW m \in DOMAIN c, f[n] = f[m] PROVE n = m
  <2>1. CASE n <= Len(a) /\ m <= Len(a)
    BY <1>2, <1>6, <1>8, <1>12, <2>1
  <2>2. CASE ~(n <= Len(a)) /\ ~(m <= Len(a))
    <3>1. n - Len(a) = m - Len(a)
      BY <1>3, <1>7, <1>8, <1>12, <2>2
    <3>2. n \in Int /\ m \in Int /\ Len(a) \in Int
      BY <1>2, <1>6
    <3> QED
      BY <3>1, <3>2
  <2>3. CASE (n <= Len(a)) # (m <= Len(a))
    BY <1>1, <1>10, <1>12, <2>3
  <2> QED
    BY <2>1, <2>2, <2>3
<1>13. f \in Injection(DOMAIN c, DOMAIN rows)
  BY <1>11, <1>12 DEF Injection, IsInjective
<1>14. Sorted(rows) = c
  BY <1>4 DEF c
<1> QED
  BY <1>5, <1>10, <1>13, <1>14
-----------------------------------------------------------------------------
(***************************************************************************)
(* What is derived from a baseline                                         *)
(***************************************************************************)
LEMMA DeriveType ==
    ASSUME NEW w \in Ws
    PROVE  deriveWorkspaceWorkStateFromBaseline(w) \in {"todo", "in-progress"}
BY DEF deriveWorkspaceWorkStateFromBaseline

LEMMA DeriveSame ==
    ASSUME NEW w \in Ws, fs'[w] = fs[w], repos'[w] = repos[w], baseline'[w] = baseline[w]
    PROVE  deriveWorkspaceWorkStateFromBaseline(w)' = deriveWorkspaceWorkStateFromBaseline(w)
BY DEF deriveWorkspaceWorkStateFromBaseline, hasRepoSignalsChanged,
       hasWorkspaceFSChanged, inspectWorkspaceRepoRisk

(***************************************************************************)
(* Nothing differs from a baseline just taken of restored worktrees.       *)
(***************************************************************************)
LEMMA CapturedIsTodo ==
    ASSUME NEW w \in Ws, baseline'[w] = Captured(fs'[w], repos'[w]),
           \A a \in DOMAIN repos'[w] : repos'[w][a] \in Restored
    PROVE  deriveWorkspaceWorkStateFromBaseline(w)' = "todo"
<1> DEFINE r == repos'[w]
           b == baseline'[w]
<1>1. \A a \in DOMAIN r : /\ ~r[a].missing /\ r[a].head # NoHead
                          /\ ~r[a].snap.error /\ ~r[a].snap.dirty
  BY DEF Restored
<1>2. /\ b.present /\ b.fs = fs'[w]
      /\ b.repos = [a \in {c \in DOMAIN r : ~r[c].missing /\ r[c].head # NoHead} |-> r[a].head]
  BY DEF Captured
<1>3. DOMAIN b.repos = DOMAIN r /\ \A a \in DOMAIN r : b.repos[a] = r[a].head
  BY <1>1, <1>2
<1>4. ~hasRepoSignalsChanged(w)'
  BY <1>1, <1>3 DEF hasRepoSignalsChanged
<1>5. ~hasWorkspaceFSChanged(fs[w], baseline[w].fs)'
  BY <1>2 DEF hasWorkspaceFSChanged
<1> QED
  BY <1>2, <1>4, <1>5 DEF deriveWorkspaceWorkStateFromBaseline

(***************************************************************************)
(* Nor is there anything at risk in a workspace without worktrees.         *)
(***************************************************************************)
LEMMA EmptyIsTodo ==
    ASSUME NEW w \in Ws, baseline'[w] = NoBaseline, repos'[w] = NoFiles
    PROVE  deriveWorkspaceWorkStateFromBaseline(w)' = "todo"
<1>1. ~baseline'[w].present
  BY DEF NoBaseline
<1>2. DOMAIN repos'[w] = {}
  BY NoFilesType
<1>3. inspectWorkspaceRepoRisk(w)' = Aggregate({})
  BY <1>2 DEF inspectWorkspaceRepoRisk
<1>4. Aggregate({}) = "clean"
  BY DEF Aggregate
<1> QED
  BY <1>1, <1>3, <1>4 DEF deriveWorkspaceWorkStateFromBaseline
-----------------------------------------------------------------------------
(***************************************************************************)
(* Work: the steps that leave the work state alone                         *)
(***************************************************************************)
LEMMA BaselineFrame ==
    ASSUME Types, BaselineInv, NEW w \in Ws, Settled(w), place'[w] = place[w],
           fs'[w] = fs[w], repos'[w] = repos[w], baseline'[w] = baseline[w]
    PROVE  BaselineOf(w)'
BY DeriveSame DEF BaselineInv, BaselineOf

LEMMA NeutralWork ==
    ASSUME WorkInv, UNCHANGED <<stateVars, history>>, CliOk',
           cli'.pc \notin {"inspect", "show", "baseline", "cache"},
           cli.pc \notin {"baseline", "cache"}
    PROVE  WorkInv'
<1> USE DEF WorkInv, stateVars, history
<1>1. Types'
  BY DEF Types, CliOk
<1>2. BaselineInv'
  <2> SUFFICES ASSUME NEW w \in Ws, Settled(w)'
               PROVE  BaselineOf(w)'
    BY DEF BaselineInv
  <2>1. Settled(w)
    BY DEF Settled
  <2> QED
    BY <2>1, BaselineFrame
<1>3. NewLifeInv' /\ ListInv' /\ RowsInv' /\ OneRowInv'
  BY DEF NewLifeInv, ListInv, RowsInv, OneRowInv
<1>4. TouchedInv' /\ StartedInv' /\ CacheInv'
  BY DEF TouchedInv, StartedInv, CacheInv, Pending, Excused
<1> QED
  BY <1>1, <1>2, <1>3, <1>4

LEMMA ListWork ==
    ASSUME WorkInv, At("idle"), UNCHANGED <<stateVars, history>>,
           NEW op \in {"list", "multi", "select"}, NEW act \in Item,
           NEW scope \in {"active", "archived"}, listRows(op, act, scope)
    PROVE  WorkInv'
<1> USE DEF WorkInv, stateVars, history, At
<1>1. cache \in SUBSET Ws
  BY DEF Types
<1>2. /\ cli' \in CliType
      /\ cli'.pc = "inspect" /\ cli'.scope = scope /\ cli'.view = cache
      /\ cli'.rows = <<>>
      /\ \A n \in DOMAIN cli'.todo : place[cli'.todo[n]] = scope
      /\ \A n, m \in DOMAIN cli'.todo : cli'.todo[n] = cli'.todo[m] => n = m
  BY <1>1, ListRows
<1>3. Types'
  BY <1>2 DEF Types
<1>4. BaselineInv'
  <2> SUFFICES ASSUME NEW w \in Ws, Settled(w)'
               PROVE  BaselineOf(w)'
    BY DEF BaselineInv
  <2>1. Settled(w)
    BY <1>2 DEF Settled
  <2> QED
    BY <2>1, BaselineFrame
<1>5. NewLifeInv' /\ TouchedInv' /\ StartedInv' /\ CacheInv'
  BY <1>2 DEF NewLifeInv, TouchedInv, StartedInv, CacheInv, Pending, Excused
<1>6. ListInv'
  BY <1>2 DEF ListInv, CacheInv, Pending, Excused
<1>7. RowsInv' /\ OneRowInv'
  BY <1>2 DEF RowsInv, OneRowInv
<1> QED
  BY <1>3, <1>4, <1>5, <1>6, <1>7

(***************************************************************************)
(* A row is added.                                                         *)
(***************************************************************************)
LEMMA RowWork ==
    ASSUME WorkInv, At("inspect"), cli.todo # <<>>,
           UNCHANGED <<stateVars, started, touched>>,
           troubled \subseteq troubled', troubled' \subseteq troubled \cup {CurrentWs},
           NEW state \in {"todo", "in-progress"}, cli' = Row(CurrentWs, state),
           state = "in-progress" => CurrentWs \in Excused',
           state = "todo" /\ cli.scope = "active" => CurrentWs \notin cli.view
    PROVE  WorkInv'
<1> USE DEF WorkInv, stateVars, At
<1>1. cli \in CliType
  BY DEF Types
<1>2. /\ cli' \in CliType /\ cli'.pc = "inspect" /\ cli'.scope = cli.scope
      /\ cli'.todo = Tail(cli.todo)
      /\ cli'.rows = Append(cli.rows, [id |-> CurrentWs, state |-> state])
      /\ cli'.view = IF state = "in-progress" THEN cli.view \cup {CurrentWs} ELSE cli.view
      /\ ~cli'.dirty => cli'.view = cli.view /\ ~cli.dirty
  BY <1>1, RowStep
<1>3. /\ CurrentWs \in Ws /\ 1 \in DOMAIN cli.todo /\ CurrentWs = cli.todo[1]
      /\ DOMAIN Tail(cli.todo) = 1..(Len(cli.todo) - 1)
      /\ Len(cli.todo) \in Nat
      /\ \A n \in DOMAIN Tail(cli.todo) :
           n + 1 \in DOMAIN cli.todo /\ Tail(cli.todo)[n] = cli.todo[n + 1]
  BY <1>1, HeadTodo
<1>4. Types'
  <2>1. troubled' \in SUBSET Ws
    BY <1>3 DEF Types
  <2> QED
    BY <1>2, <2>1 DEF Types
<1>5. BaselineInv'
  <2> SUFFICES ASSUME NEW w \in Ws, Settled(w)'
               PROVE  BaselineOf(w)'
    BY DEF BaselineInv
  <2>1. Settled(w)
    BY <1>2 DEF Settled
  <2> QED
    BY <2>1, BaselineFrame
<1>6. NewLifeInv' /\ TouchedInv' /\ StartedInv' /\ CacheInv'
  BY <1>2 DEF NewLifeInv, TouchedInv, StartedInv, CacheInv, Pending, Excused
<1>7. ListInv'
  <2>1. cache' \subseteq cli'.view /\ cli'.view \subseteq Excused'
    BY <1>2 DEF ListInv, Excused
  <2>2. ~cli'.dirty => cli'.view = cache'
    BY <1>2 DEF ListInv
  <2>3. \A n \in DOMAIN cli'.todo : place'[cli'.todo[n]] = cli'.scope
    BY <1>2, <1>3 DEF ListInv
  <2> QED
    BY <1>2, <2>1, <2>2, <2>3 DEF ListInv
<1> DEFINE len == Len(cli.rows)
<1>8. /\ len \in Nat /\ DOMAIN cli'.rows = 1..(len + 1)
      /\ cli'.rows[len + 1].id = CurrentWs /\ cli'.rows[len + 1].state = state
      /\ \A n \in 1..len : n \in DOMAIN cli.rows /\ cli'.rows[n] = cli.rows[n]
  BY <1>1, <1>2 DEF CliType
<1>9. \A n \in 1..(len + 1) : n \in 1..len \/ n = len + 1
  BY <1>8
<1> HIDE DEF len
<1>10. \A n \in DOMAIN cli.rows : cli.rows[n].id # CurrentWs
  BY <1>3 DEF OneRowInv
<1>11. RowsInv'
  <2> SUFFICES ASSUME NEW n \in DOMAIN cli'.rows
               PROVE  IF cli'.rows[n].state = "in-progress" THEN cli'.rows[n].id \in cli'.view
                      ELSE cli'.scope = "active" => cli'.rows[n].id \notin cli'.view
    BY DEF RowsInv
  <2>1. CASE n = len + 1
    BY <1>2, <1>8, <2>1
  <2>2. CASE n \in 1..len
    <3>1. cli'.rows[n] = cli.rows[n] /\ n \in DOMAIN cli.rows /\ cli.rows[n].id # CurrentWs
      BY <1>8, <1>10, <2>2
    <3> QED
      BY <1>2, <3>1 DEF RowsInv
  <2> QED
    BY <1>8, <1>9, <2>1, <2>2
<1>12. OneRowInv'
  <2>1. \A n, m \in DOMAIN cli'.rows : cli'.rows[n].id = cli'.rows[m].id => n = m
    BY <1>8, <1>9, <1>10 DEF OneRowInv
  <2>2. \A n, m \in DOMAIN cli'.todo : cli'.todo[n] = cli'.todo[m] => n = m
    <3> SUFFICES ASSUME NEW n \in DOMAIN cli'.todo, NEW m \in DOMAIN cli'.todo,
                        cli'.todo[n] = cli'.todo[m]
                 PROVE  n = m
      OBVIOUS
    <3>1. n + 1 = m + 1
      BY <1>2, <1>3 DEF OneRowInv
    <3>2. n \in Int /\ m \in Int
      BY <1>2, <1>3
    <3> QED
      BY <3>1, <3>2
  <2>3. \A m \in DOMAIN cli'.todo : cli'.todo[m] # CurrentWs
    <3> SUFFICES ASSUME NEW m \in DOMAIN cli'.todo, cli'.todo[m] = cli.todo[1] PROVE FALSE
      BY <1>3
    <3>1. m + 1 = 1 /\ m \in 1..(Len(cli.todo) - 1)
      BY <1>2, <1>3 DEF OneRowInv
    <3> QED
      BY <1>3, <3>1
  <2>4. ASSUME NEW n \in DOMAIN cli'.rows, NEW m \in DOMAIN cli'.todo
        PROVE  cli'.rows[n].id # cli'.todo[m]
    <3>1. CASE n = len + 1
      BY <1>8, <2>3, <3>1
    <3>2. CASE n \in 1..len
      <4>1. cli'.rows[n] = cli.rows[n] /\ n \in DOMAIN cli.rows
        BY <1>8, <3>2
      <4>2. m + 1 \in DOMAIN cli.todo /\ cli'.todo[m] = cli.todo[m + 1]
        BY <1>2, <1>3
      <4> QED
        BY <4>1, <4>2 DEF OneRowInv
    <3> QED
      BY <1>8, <1>9, <3>1, <3>2
  <2> QED
    BY <1>2, <2>1, <2>2, <2>3, <2>4 DEF OneRowInv
<1> QED
  BY <1>4, <1>5, <1>6, <1>7, <1>11, <1>12

LEMMA SaveCacheWork ==
    ASSUME WorkInv, SaveCache
    PROVE  WorkInv'
<1> USE DEF WorkInv, At
<1>1. cli \in CliType /\ cli.pc = "inspect" /\ cli.todo = <<>>
  BY DEF Types, SaveCache
<1>2. cache' = cli.view
  BY <1>1 DEF SaveCache, SaveDirty, ListInv
<1>3. /\ UNCHANGED <<place, fs, repos, baseline, history>>
      /\ cli' = [cli EXCEPT !.pc = "show", !.rows = Sorted(cli.rows)]
  BY DEF SaveCache
<1>4. PICK f \in Injection(DOMAIN Sorted(cli.rows), DOMAIN cli.rows) :
        \A n \in DOMAIN Sorted(cli.rows) : Sorted(cli.rows)[n] = cli.rows[f[n]]
  BY <1>1, SortedRows DEF CliType
<1>5. Sorted(cli.rows) \in Seq(RowType)
  BY <1>1, SortedRows DEF CliType
<1>6. /\ cli' \in CliType /\ cli'.pc = "show" /\ cli'.view = cli.view
      /\ cli'.scope = cli.scope /\ cli'.rows = Sorted(cli.rows)
  BY <1>1, <1>3, <1>5 DEF CliType, PC
<1>7. Types'
  BY <1>1, <1>2, <1>3, <1>6 DEF Types, CliType, history
<1>8. BaselineInv'
  <2> SUFFICES ASSUME NEW w \in Ws, Settled(w)'
               PROVE  BaselineOf(w)'
    BY DEF BaselineInv
  <2>1. Settled(w)
    BY <1>1, <1>3, <1>6 DEF Settled, history
  <2> QED
    BY <1>3, <2>1, BaselineFrame
<1>9. NewLifeInv' /\ TouchedInv'
  BY <1>3, <1>6 DEF NewLifeInv, TouchedInv, history
<1>10. StartedInv' /\ CacheInv' /\ ListInv'
  BY <1>1, <1>2, <1>3, <1>6
     DEF StartedInv, CacheInv, ListInv, Pending, Excused, history
<1>11. /\ \A n \in DOMAIN cli'.rows : f[n] \in DOMAIN cli.rows /\ cli'.rows[n] = cli.rows[f[n]]
       /\ \A n, m \in DOMAIN cli'.rows : f[n] = f[m] => n = m
  BY <1>4, <1>6 DEF Injection, IsInjective
<1>12. RowsInv'
  BY <1>1, <1>6, <1>11 DEF RowsInv
<1>13. OneRowInv'
  BY <1>1, <1>6, <1>11 DEF OneRowInv
<1> QED
  BY <1>7, <1>8, <1>9, <1>10, <1>12, <1>13

LEMMA ShownInProgress ==
    ASSUME NEW w \in Ws, RowState(w) = "in-progress"
    PROVE  \E n \in DOMAIN cli.rows : cli.rows[n].id = w /\ cli.rows[n].state = "in-progress"
<1> DEFINE at == {n \in DOMAIN cli.rows : cli.rows[n].id = w}
<1>1. at # {} /\ cli.rows[CHOOSE n \in at : TRUE].state = "in-progress"
  BY DEF RowState
<1>2. (CHOOSE n \in at : TRUE) \in at
  BY <1>1
<1> QED
  BY <1>1, <1>2

LEMMA ShowWork ==
    ASSUME WorkInv, Show
    PROVE  WorkInv'
<1> USE DEF WorkInv, At
<1>1. cli \in CliType /\ cli.pc = "show" /\ UNCHANGED <<stateVars, touched, troubled>>
  BY DEF Types, Show
<1>2. cli' \in CliType /\ cli'.pc \in {"idle", "select"}
  BY <1>1, IdleType DEF Show, Return, OpenSelector, Goto, CliType, PC
<1>3. started' \in SUBSET Ws /\ started' \subseteq cache /\ started' \subseteq Excused
  <2>1. \A w \in Ws : RowState(w) = "in-progress" => w \in cli.view
    BY <1>1, ShownInProgress DEF RowsInv
  <2>2. started' = started \cup {w \in Ws : RowState(w) = "in-progress"}
    BY DEF Show, Reported
  <2>3. cli.view = cache /\ cli.view \subseteq Excused
    BY <1>1 DEF ListInv
  <2> QED
    BY <2>1, <2>2, <2>3 DEF StartedInv, Types
<1>4. Types'
  BY <1>1, <1>2, <1>3 DEF Types, stateVars
<1>5. BaselineInv'
  <2> SUFFICES ASSUME NEW w \in Ws, Settled(w)'
               PROVE  BaselineOf(w)'
    BY DEF BaselineInv
  <2>1. Settled(w)
    BY <1>1, <1>2 DEF Settled
  <2> QED
    BY <1>1, <2>1, BaselineFrame DEF stateVars
<1>6. NewLifeInv' /\ ListInv' /\ RowsInv' /\ OneRowInv'
  BY <1>2 DEF NewLifeInv, ListInv, RowsInv, OneRowInv
<1>7. TouchedInv' /\ StartedInv' /\ CacheInv'
  BY <1>1, <1>2, <1>3 DEF TouchedInv, StartedInv, CacheInv, Pending, Excused,
         stateVars
<1> QED
  BY <1>4, <1>5, <1>6, <1>7

LEMMA InspectWork ==
    ASSUME WorkInv, Inspect
    PROVE  WorkInv'
<1> DEFINE state == CASE cli.scope = "archived" -> "todo"
                      [] cli.scope = "active" /\ CurrentWs \in cli.view -> "in-progress"
                      [] OTHER -> deriveWorkspaceWorkStateFromBaseline(CurrentWs)
<1>1. /\ cli \in CliType /\ At("inspect") /\ cli.todo # <<>> /\ cli' = Row(CurrentWs, state)
      /\ UNCHANGED <<stateVars, history>>
  BY DEF WorkInv, Types, Inspect
<1>2. CurrentWs \in Ws /\ place[CurrentWs] = cli.scope /\ cli.scope \in {"active", "archived"}
  <2>1. CurrentWs \in Ws /\ 1 \in DOMAIN cli.todo /\ CurrentWs = cli.todo[1]
    BY <1>1, HeadTodo
  <2> QED
    BY <1>1, <2>1 DEF WorkInv, ListInv, At, CliType
<1>3. state \in {"todo", "in-progress"}
  BY <1>2, DeriveType
<1>4. ASSUME state = "in-progress" PROVE CurrentWs \in Excused
  <2>1. cli.scope = "active"
    BY <1>2, <1>4
  <2>2. CASE CurrentWs \in cli.view
    BY <1>1, <2>2 DEF WorkInv, ListInv, At
  <2>3. CASE CurrentWs \notin cli.view
    <3>1. deriveWorkspaceWorkStateFromBaseline(CurrentWs) = "in-progress"
      BY <1>4, <2>1, <2>3
    <3>2. ~Settled(CurrentWs)
      BY <1>2, <2>1, <3>1 DEF WorkInv, BaselineInv, BaselineOf
    <3> QED
      BY <1>1, <3>2 DEF Settled, Excused, At
  <2> QED
    BY <2>2, <2>3
<1>5. state = "todo" /\ cli.scope = "active" => CurrentWs \notin cli.view
  OBVIOUS
<1> HIDE DEF state
<1>6. Excused' = Excused /\ UNCHANGED <<stateVars, started, touched>> /\ troubled' = troubled
  BY <1>1 DEF Excused, history
<1> QED
  BY <1>1, <1>3, <1>4, <1>5, <1>6, RowWork

LEMMA InspectFailsWork ==
    ASSUME WorkInv, InspectFails
    PROVE  WorkInv'
<1>1. /\ At("inspect") /\ cli.todo # <<>> /\ cli' = Row(CurrentWs, "in-progress")
      /\ UNCHANGED <<stateVars, started, touched>> /\ troubled' = troubled \cup {CurrentWs}
  BY DEF InspectFails
<1>2. CurrentWs \in Excused'
  BY <1>1 DEF Excused
<1> QED
  BY <1>1, <1>2, RowWork
-----------------------------------------------------------------------------
(***************************************************************************)
(* Work: the steps that change a workspace                                 *)
(***************************************************************************)
LEMMA MovedEffect ==
    ASSUME Types, NEW w \in Ws, NEW act, Moved(w, act)
    PROVE  /\ act \in {"create", "close", "reopen", "purge"}
           /\ act \in {"create", "reopen"} <=> place'[w] = "active"
           /\ act \in {"create", "reopen"} =>
                \A a \in DOMAIN repos'[w] : repos'[w][a] \in Restored
           /\ \A v \in Ws \ {w} :
                place'[v] = place[v] /\ fs'[v] = fs[v] /\ repos'[v] = repos[v]
<1> USE DEF Types
<1>1. CASE act = "create" /\ Created(w)
  <2>1. repos'[w] = NoFiles /\ place'[w] = "active"
    BY <1>1 DEF Created
  <2>2. DOMAIN repos'[w] = {}
    BY <2>1, NoFilesType
  <2> QED
    BY <1>1, <2>1, <2>2 DEF Created
<1>2. CASE /\ act = "close" /\ place' = [place EXCEPT ![w] = "archived"]
           /\ repos' = [repos EXCEPT ![w] = [a \in DOMAIN @ |-> Gone]]
           /\ UNCHANGED fs
  <2>1. repos' = [repos EXCEPT ![w] = [a \in DOMAIN repos[w] |-> Gone]]
    BY <1>2
  <2> QED
    BY <1>2, <2>1
<1>3. CASE /\ act = "reopen" /\ place' = [place EXCEPT ![w] = "active"]
           /\ \E trees \in [DOMAIN repos[w] -> Restored] :
                repos' = [repos EXCEPT ![w] = trees]
           /\ UNCHANGED fs
  <2>1. PICK trees \in [DOMAIN repos[w] -> Restored] : repos' = [repos EXCEPT ![w] = trees]
    BY <1>3
  <2>2. repos'[w] = trees /\ \A a \in DOMAIN trees : trees[a] \in Restored
    BY <2>1
  <2>3. \A v \in Ws \ {w} : place'[v] = place[v] /\ fs'[v] = fs[v] /\ repos'[v] = repos[v]
    BY <1>3, <2>1
  <2>4. place'[w] = "active"
    BY <1>3
  <2> QED
    BY <1>3, <2>2, <2>3, <2>4
<1>4. CASE /\ act = "purge" /\ place' = [place EXCEPT ![w] = "none"]
           /\ fs' = [fs EXCEPT ![w] = NoFiles]
           /\ repos' = [repos EXCEPT ![w] = NoFiles]
  BY <1>4
<1> QED
  BY <1>1, <1>2, <1>3, <1>4 DEF Moved

LEMMA NewLifeWork ==
    ASSUME WorkInv, cli.pc \notin {"baseline", "cache"}, NEW w \in Ws, Moved(w, cli'.act),
           NewLife(w), UNCHANGED <<baseline, cache, troubled>>,
           cli' \in CliType, cli'.pc = "baseline", cli'.todo # <<>>, Head(cli'.todo) = w
    PROVE  WorkInv'
<1> USE DEF WorkInv
<1>1. /\ cli'.act \in {"create", "reopen"} <=> place'[w] = "active"
      /\ cli'.act \in {"create", "reopen"} =>
           \A a \in DOMAIN repos'[w] : repos'[w][a] \in Restored
      /\ \A v \in Ws \ {w} : place'[v] = place[v] /\ fs'[v] = fs[v] /\ repos'[v] = repos[v]
  BY MovedEffect
<1>2. started' = started \ {w} /\ touched' = touched \ {w} /\ CurrentWs' = w
  BY DEF NewLife, CurrentWs
<1>3. Types'
  <2>1. /\ place' \in [Ws -> {"none", "active", "archived"}]
        /\ fs' \in [Ws -> Files] /\ repos' \in [Ws -> Repos]
    BY MovedType
  <2> QED
    BY <1>2, <2>1 DEF Types
<1>4. BaselineInv'
  <2> SUFFICES ASSUME NEW v \in Ws, Settled(v)'
               PROVE  BaselineOf(v)'
    BY DEF BaselineInv
  <2>1. v # w /\ Settled(v)
    BY <1>2 DEF Settled
  <2> QED
    BY <1>1, <2>1, BaselineFrame
<1>5. NewLifeInv'
  BY <1>1, <1>2 DEF NewLifeInv
<1>6. TouchedInv'
  BY <1>1, <1>2 DEF TouchedInv, Types
<1>7. StartedInv' /\ CacheInv'
  BY <1>2 DEF StartedInv, CacheInv, Pending, Excused
<1>8. ListInv' /\ RowsInv' /\ OneRowInv'
  BY DEF ListInv, RowsInv, OneRowInv
<1> QED
  BY <1>3, <1>4, <1>5, <1>6, <1>7, <1>8

LEMMA WriteBaselineWork ==
    ASSUME WorkInv, WriteBaseline
    PROVE  WorkInv'
<1> USE DEF WorkInv, At
<1>1. /\ cli \in CliType /\ cli.pc = "baseline" /\ cli.todo # <<>>
      /\ UNCHANGED <<place, fs, repos, cache, history>>
      /\ baseline' = [baseline EXCEPT
           ![CurrentWs] = NewBaseline(cli.act, fs[CurrentWs], repos[CurrentWs])]
      /\ cli' = [cli EXCEPT !.pc = "cache"]
  BY DEF Types, WriteBaseline, Goto
<1>2. CurrentWs \in Ws
  BY <1>1, HeadTodo
<1>3. cli' \in CliType /\ cli'.pc = "cache" /\ cli'.todo = cli.todo /\ CurrentWs' = CurrentWs
  BY <1>1 DEF CliType, PC, CurrentWs
<1>4. Types'
  <2>1. NewBaseline(cli.act, fs[CurrentWs], repos[CurrentWs]) \in Baseline
    BY <1>2, CapturedType, NoBaselineType DEF NewBaseline, Types
  <2>2. baseline' \in [Ws -> Baseline]
    BY <1>1, <2>1 DEF Types
  <2> QED
    BY <1>1, <1>3, <2>2 DEF Types, history
<1>5. BaselineInv'
  <2> SUFFICES ASSUME NEW v \in Ws, Settled(v)'
               PROVE  BaselineOf(v)'
    BY DEF BaselineInv
  <2>1. CASE v = CurrentWs
    <3>1. baseline'[v] = NewBaseline(cli.act, fs[v], repos[v]) /\ v \notin touched
      BY <1>1, <2>1 DEF Types, Settled, history
    <3>2. cli.act \in {"create", "reopen"} <=> place[v] = "active"
      BY <1>1, <2>1 DEF NewLifeInv
    <3>3. CASE place[v] = "active"
      <4>1. baseline'[v] = Captured(fs'[v], repos'[v])
        BY <1>1, <3>1, <3>2, <3>3 DEF NewBaseline
      <4>2. \A a \in DOMAIN repos'[v] : repos'[v][a] \in Restored
        BY <1>1, <2>1, <3>1, <3>2, <3>3 DEF NewLifeInv
      <4> QED
        BY <1>1, <3>3, <4>1, <4>2, CapturedIsTodo DEF BaselineOf
    <3>4. CASE place[v] # "active"
      BY <1>1, <3>1, <3>2, <3>4 DEF NewBaseline, BaselineOf
    <3> QED
      BY <3>3, <3>4
  <2>2. CASE v # CurrentWs
    <3>1. Settled(v) /\ baseline'[v] = baseline[v]
      BY <1>1, <1>2, <1>3, <2>2 DEF Settled, Types, history
    <3> QED
      BY <1>1, <3>1, BaselineFrame
  <2> QED
    BY <2>1, <2>2
<1>6. NewLifeInv' /\ ListInv' /\ RowsInv' /\ OneRowInv'
  BY <1>3 DEF NewLifeInv, ListInv, RowsInv, OneRowInv
<1>7. TouchedInv' /\ StartedInv' /\ CacheInv'
  BY <1>1, <1>3 DEF TouchedInv, StartedInv, CacheInv, Pending, Excused, history
<1> QED
  BY <1>4, <1>5, <1>6, <1>7

LEMMA NextWsType ==
    ASSUME cli \in CliType, cli.todo # <<>>, cli' = NextWs
    PROVE  CliOk' /\ cli'.pc = "act" /\ cli'.todo = Tail(cli.todo)
           /\ cli'.attempted = cli.attempted
<1>1. Tail(cli.todo) \in Seq(Ws)
  BY HeadTodo
<1>2. cli' = [cli EXCEPT !.pc = "act", !.todo = Tail(cli.todo)]
  BY DEF NextWs, CliType
<1> QED
  BY <1>1, <1>2 DEF CliType, CliOk, PC

LEMMA ClearCacheWork ==
    ASSUME WorkInv, ClearCache
    PROVE  WorkInv'
<1> USE DEF WorkInv, At
<1>1. /\ cli \in CliType /\ cli.pc = "cache" /\ cli.todo # <<>>
      /\ UNCHANGED <<place, fs, repos, baseline, started, touched>>
      /\ cache' = cache \ {CurrentWs} /\ troubled' = troubled \ {CurrentWs}
      /\ cli' = NextWs
  BY DEF Types, ClearCache, clearWorkspaceWorkStateCacheEntry
<1>2. CliOk' /\ cli'.pc = "act"
  BY <1>1, NextWsType
<1>3. Types'
  BY <1>1, <1>2 DEF Types, CliOk
<1>4. BaselineInv'
  <2> SUFFICES ASSUME NEW v \in Ws, Settled(v)'
               PROVE  BaselineOf(v)'
    BY DEF BaselineInv
  <2>1. Settled(v)
    BY <1>1, <1>2 DEF Settled
  <2> QED
    BY <1>1, <2>1, BaselineFrame
<1>5. NewLifeInv' /\ ListInv' /\ RowsInv' /\ OneRowInv'
  BY <1>2 DEF NewLifeInv, ListInv, RowsInv, OneRowInv
<1>6. TouchedInv' /\ StartedInv' /\ CacheInv'
  BY <1>1, <1>2 DEF TouchedInv, StartedInv, CacheInv, Pending, Excused
<1> QED
  BY <1>3, <1>4, <1>5, <1>6

(***************************************************************************)
(* The bookkeeping fails, or the command crashes in it.                    *)
(***************************************************************************)
LEMMA TroubledWork ==
    ASSUME WorkInv, cli.pc \in {"baseline", "cache"}, UNCHANGED <<stateVars, started, touched>>,
           troubled' = troubled \cup {CurrentWs}, CliOk',
           cli'.pc \notin {"inspect", "show", "baseline", "cache"}
    PROVE  WorkInv'
<1> USE DEF WorkInv, stateVars
<1>1. CurrentWs \in Ws
  BY HeadTodo DEF Types
<1>2. Types'
  BY <1>1 DEF Types, CliOk
<1>3. BaselineInv'
  <2> SUFFICES ASSUME NEW v \in Ws, Settled(v)'
               PROVE  BaselineOf(v)'
    BY DEF BaselineInv
  <2>1. Settled(v)
    BY DEF Settled
  <2> QED
    BY <2>1, BaselineFrame
<1>4. NewLifeInv' /\ ListInv' /\ RowsInv' /\ OneRowInv'
  BY DEF NewLifeInv, ListInv, RowsInv, OneRowInv
<1>5. TouchedInv' /\ StartedInv' /\ CacheInv'
  BY DEF TouchedInv, StartedInv, CacheInv, Pending, Excused
<1> QED
  BY <1>2, <1>3, <1>4, <1>5

LEMMA BookkeepingFailsWork ==
    ASSUME WorkInv, BookkeepingFails
    PROVE  WorkInv'
<1>1. /\ cli \in CliType /\ cli.pc \in {"baseline", "cache"} /\ cli.todo # <<>>
      /\ UNCHANGED <<stateVars, started, touched>>
      /\ troubled' = troubled \cup {CurrentWs} /\ cli' = NextWs
  BY DEF WorkInv, Types, BookkeepingFails
<1>2. CliOk' /\ cli'.pc = "act"
  BY <1>1, NextWsType
<1> QED
  BY <1>1, <1>2, TroubledWork

LEMMA CrashWork ==
    ASSUME WorkInv, Crash
    PROVE  WorkInv'
<1>1. CliOk' /\ cli'.pc = "idle" /\ UNCHANGED <<stateVars, started, touched>>
  BY IdleType DEF Crash, Return, CliOk
<1>2. CASE cli.pc \in {"baseline", "cache"}
  <2>1. troubled' = troubled \cup {CurrentWs}
    BY <1>2 DEF Crash
  <2> QED
    BY <1>1, <1>2, <2>1, TroubledWork
<1>3. CASE cli.pc \notin {"baseline", "cache"}
  <2>1. troubled' = troubled
    BY <1>3 DEF Crash
  <2> QED
    BY <1>1, <1>3, <2>1, NeutralWork DEF history
<1> QED
  BY <1>2, <1>3

(***************************************************************************)
(* An action was run on the first of the workspaces.                       *)
(***************************************************************************)
LEMMA AttemptedType ==
    ASSUME cli \in CliType, cli.todo # <<>>
    PROVE  /\ cli' = [Attempted EXCEPT !.pc = "baseline"] =>
                /\ cli' \in CliType /\ cli'.pc = "baseline" /\ cli'.todo = cli.todo
                /\ cli'.act = cli.act /\ cli'.attempted = Append(cli.attempted, CurrentWs)
           /\ cli' = [Attempted EXCEPT !.todo = Tail(@)] =>
                /\ cli' \in CliType /\ cli'.pc = cli.pc /\ cli'.todo = Tail(cli.todo)
                /\ cli'.attempted = Append(cli.attempted, CurrentWs)
<1> DEFINE a == Append(cli.attempted, CurrentWs)
<1>1. CurrentWs \in Ws /\ Tail(cli.todo) \in Seq(Ws)
  BY HeadTodo
<1>2. a \in Seq(Ws)
  BY <1>1 DEF CliType
<1>3. Attempted = [cli EXCEPT !.attempted = a]
  BY DEF Attempted, CliType
<1> HIDE DEF a
<1>4. /\ [Attempted EXCEPT !.pc = "baseline"] = [cli EXCEPT !.attempted = a, !.pc = "baseline"]
      /\ [Attempted EXCEPT !.todo = Tail(@)] = [cli EXCEPT !.attempted = a, !.todo = Tail(cli.todo)]
  BY <1>3 DEF CliType
<1>5. ASSUME cli' = [cli EXCEPT !.attempted = a, !.pc = "baseline"]
      PROVE  /\ cli' \in CliType /\ cli'.pc = "baseline" /\ cli'.todo = cli.todo
             /\ cli'.act = cli.act /\ cli'.attempted = a
  BY <1>2, <1>5 DEF CliType, PC
<1>6. ASSUME cli' = [cli EXCEPT !.attempted = a, !.todo = Tail(cli.todo)]
      PROVE  /\ cli' \in CliType /\ cli'.pc = cli.pc /\ cli'.todo = Tail(cli.todo)
             /\ cli'.attempted = a
  BY <1>1, <1>2, <1>6 DEF CliType
<1> QED
  BY <1>4, <1>5, <1>6 DEF a

LEMMA ActWork ==
    ASSUME WorkInv, Act
    PROVE  WorkInv'
<1>1. /\ cli \in CliType /\ cli.pc = "act" /\ cli.todo # <<>>
      /\ Moved(CurrentWs, cli.act) /\ NewLife(CurrentWs)
      /\ UNCHANGED <<baseline, cache, troubled>>
      /\ cli' = [Attempted EXCEPT !.pc = "baseline"]
  BY DEF WorkInv, Types, Act, At
<1>2. /\ cli' \in CliType /\ cli'.pc = "baseline" /\ cli'.todo = cli.todo
      /\ cli'.act = cli.act
  BY <1>1, AttemptedType
<1>3. CurrentWs \in Ws
  BY <1>1, HeadTodo
<1>4. \E w \in Ws : Head(cli'.todo) = w /\ Moved(w, cli'.act) /\ NewLife(w)
  BY <1>1, <1>2, <1>3 DEF CurrentWs
<1> QED
  BY <1>1, <1>2, <1>4, NewLifeWork

LEMMA CreateWork ==
    ASSUME WorkInv, NEW w \in Ws, Create(w)
    PROVE  WorkInv'
<1>1. /\ cli.pc = "idle" /\ Moved(w, "create") /\ NewLife(w)
      /\ UNCHANGED <<baseline, cache, troubled>>
      /\ cli' = [Idle EXCEPT !.pc = "baseline", !.op = "create", !.act = "create",
                             !.todo = <<w>>]
  BY DEF Create, At
<1>2. /\ cli'.pc = "baseline" /\ cli'.act = "create" /\ cli'.todo = <<w>>
  BY <1>1 DEF Idle
<1>3. cli'.todo # <<>> /\ Head(cli'.todo) = w /\ <<w>> \in Seq(Ws)
  BY <1>2
<1>4. cli' \in CliType
  BY <1>1, <1>3, IdleType DEF CliType, PC, Item
<1> QED
  BY <1>1, <1>2, <1>3, <1>4, NewLifeWork

LEMMA CloseFailsHalfwayWork ==
    ASSUME WorkInv, CloseFailsHalfway
    PROVE  WorkInv'
<1> USE DEF WorkInv, At
<1>1. /\ cli \in CliType /\ cli.pc = "act" /\ cli.todo # <<>>
      /\ repos' = [repos EXCEPT ![CurrentWs] = [a \in DOMAIN @ |-> Gone]]
      /\ troubled' = troubled \cup {CurrentWs}
      /\ cli' = [Attempted EXCEPT !.todo = Tail(@)]
      /\ UNCHANGED <<place, fs, baseline, cache, started, touched>>
  BY DEF Types, CloseFailsHalfway
<1>2. CurrentWs \in Ws
  BY <1>1, HeadTodo
<1>3. cli' \in CliType /\ cli'.pc = "act"
  BY <1>1, AttemptedType
<1>4. repos' = [repos EXCEPT ![CurrentWs] = [a \in DOMAIN repos[CurrentWs] |-> Gone]]
  BY <1>1
<1>5. Types'
  <2>1. repos' \in [Ws -> Repos]
    BY <1>2, <1>4, GoneType DEF Types
  <2> QED
    BY <1>1, <1>2, <1>3, <2>1 DEF Types
<1>6. BaselineInv'
  <2> SUFFICES ASSUME NEW v \in Ws, Settled(v)'
               PROVE  BaselineOf(v)'
    BY DEF BaselineInv
  <2>1. Settled(v) /\ v # CurrentWs
    BY <1>1, <1>3 DEF Settled
  <2>2. repos'[v] = repos[v]
    BY <1>2, <1>4, <2>1 DEF Types
  <2> QED
    BY <1>1, <2>1, <2>2, BaselineFrame
<1>7. NewLifeInv' /\ ListInv' /\ RowsInv' /\ OneRowInv'
  BY <1>3 DEF NewLifeInv, ListInv, RowsInv, OneRowInv
<1>8. TouchedInv' /\ StartedInv' /\ CacheInv'
  BY <1>1, <1>3 DEF TouchedInv, StartedInv, CacheInv, Pending, Excused
<1> QED
  BY <1>5, <1>6, <1>7, <1>8

LEMMA ElsewhereWork ==
    ASSUME WorkInv, NEW w \in Ws, NEW act, Elsewhere(w, act)
    PROVE  WorkInv'
<1> USE DEF WorkInv
<1>1. /\ cli.pc \in Prompts /\ Moved(w, act) /\ NewLife(w) /\ UNCHANGED cli
      /\ baseline' = [baseline EXCEPT ![w] = NewBaseline(act, fs'[w], repos'[w])]
      /\ cache' = cache \ {w} /\ troubled' = troubled \ {w}
  BY DEF Elsewhere, clearWorkspaceWorkStateCacheEntry
<1>2. cli.pc \notin {"inspect", "show", "baseline", "cache"}
  BY <1>1 DEF Prompts
<1>3. started' = started \ {w} /\ touched' = touched \ {w}
  BY <1>1 DEF NewLife
<1>4. /\ place' \in [Ws -> {"none", "active", "archived"}]
      /\ fs' \in [Ws -> Files] /\ repos' \in [Ws -> Repos]
  BY <1>1, MovedType
<1>5. /\ act \in {"create", "reopen"} <=> place'[w] = "active"
      /\ act \in {"create", "reopen"} =>
           \A a \in DOMAIN repos'[w] : repos'[w][a] \in Restored
      /\ \A v \in Ws \ {w} : place'[v] = place[v] /\ fs'[v] = fs[v] /\ repos'[v] = repos[v]
  BY <1>1, MovedEffect
<1>6. Types'
  <2>1. NewBaseline(act, fs'[w], repos'[w]) \in Baseline
    BY <1>4, CapturedType, NoBaselineType DEF NewBaseline
  <2>2. baseline' \in [Ws -> Baseline]
    BY <1>1, <2>1 DEF Types
  <2> QED
    BY <1>1, <1>2, <1>3, <1>4, <2>2 DEF Types
<1>7. BaselineInv'
  <2> SUFFICES ASSUME NEW v \in Ws, Settled(v)'
               PROVE  BaselineOf(v)'
    BY DEF BaselineInv
  <2>1. CASE v = w
    <3>1. baseline'[w] = NewBaseline(act, fs'[w], repos'[w])
      BY <1>1 DEF Types
    <3>2. CASE place'[w] = "active"
      <4>1. baseline'[w] = Captured(fs'[w], repos'[w])
        BY <1>5, <3>1, <3>2 DEF NewBaseline
      <4> QED
        BY <1>5, <2>1, <3>2, <4>1, CapturedIsTodo DEF BaselineOf
    <3>3. CASE place'[w] # "active"
      BY <1>5, <2>1, <3>1, <3>3 DEF NewBaseline, BaselineOf
    <3> QED
      BY <3>2, <3>3
  <2>2. CASE v # w
    <3>1. Settled(v) /\ baseline'[v] = baseline[v]
      BY <1>1, <1>2, <1>3, <2>2 DEF Settled, Types
    <3> QED
      BY <1>5, <2>2, <3>1, BaselineFrame
  <2> QED
    BY <2>1, <2>2
<1>8. NewLifeInv' /\ ListInv' /\ RowsInv' /\ OneRowInv'
  BY <1>1, <1>2 DEF NewLifeInv, ListInv, RowsInv, OneRowInv
<1>9. TouchedInv'
  BY <1>3, <1>5 DEF TouchedInv, Types
<1>10. StartedInv' /\ CacheInv'
  BY <1>1, <1>2, <1>3 DEF StartedInv, CacheInv, Pending, Excused
<1> QED
  BY <1>6, <1>7, <1>8, <1>9, <1>10

(***************************************************************************)
(* An import creates a workspace and takes no baseline of it: there is     *)
(* none, unless a failure has left one.                                    *)
(***************************************************************************)
LEMMA ImportOneWork ==
    ASSUME WorkInv, PlanInv, ImportOne
    PROVE  WorkInv'
<1> DEFINE w == Head(imp.todo)
<1> USE DEF WorkInv, At
<1>1. /\ cli.pc = "import" /\ Created(w) /\ NewLife(w)
      /\ UNCHANGED <<baseline, cache, cli, troubled>>
  BY DEF ImportOne, ImportCreates
<1>2. w \in Ws
  BY DEF ImportOne, PlanInv, ImpType
<1> HIDE DEF w
<1>3. started' = started \ {w} /\ touched' = touched \ {w}
  BY <1>1 DEF NewLife
<1>4. Moved(w, "create")
  BY <1>1 DEF Moved
<1>5. /\ place' \in [Ws -> {"none", "active", "archived"}]
      /\ fs' \in [Ws -> Files] /\ repos' \in [Ws -> Repos]
  BY <1>2, <1>4, MovedType
<1>6. \A v \in Ws \ {w} : place'[v] = place[v] /\ fs'[v] = fs[v] /\ repos'[v] = repos[v]
  BY <1>2, <1>4, MovedEffect
<1>7. w \notin touched /\ place[w] = "none" /\ place'[w] = "active" /\ repos'[w] = NoFiles
  BY <1>1, <1>2 DEF TouchedInv, Types, Created
<1>8. Types'
  BY <1>1, <1>3, <1>5 DEF Types
<1>9. BaselineInv'
  <2> SUFFICES ASSUME NEW v \in Ws, Settled(v)'
               PROVE  BaselineOf(v)'
    BY DEF BaselineInv
  <2>1. Settled(v)
    BY <1>1, <1>3, <1>7 DEF Settled
  <2>2. CASE v = w
    <3>1. baseline'[w] = NoBaseline
      BY <1>1, <1>7, <2>1, <2>2 DEF BaselineInv, BaselineOf
    <3> QED
      BY <1>7, <2>2, <3>1, EmptyIsTodo DEF BaselineOf
  <2>3. CASE v # w
    BY <1>1, <1>6, <2>1, <2>3, BaselineFrame
  <2> QED
    BY <2>2, <2>3
<1>10. NewLifeInv' /\ ListInv' /\ RowsInv' /\ OneRowInv'
  BY <1>1 DEF NewLifeInv, ListInv, RowsInv, OneRowInv
<1>11. TouchedInv'
  BY <1>3, <1>6 DEF TouchedInv, Types
<1>12. StartedInv' /\ CacheInv'
  BY <1>1, <1>3, <1>7 DEF StartedInv, CacheInv, Pending, Excused
<1> QED
  BY <1>8, <1>9, <1>10, <1>11, <1>12

LEMMA UserEditWork ==
    ASSUME WorkInv, NEW w \in Ws, UserEdit(w)
    PROVE  WorkInv'
<1> USE DEF WorkInv
<1>1. /\ place[w] = "active" /\ touched' = touched \cup {w} /\ cli.pc \in Reads
      /\ UNCHANGED <<place, baseline, cache, cli, started, troubled>>
  BY DEF UserEdit
<1>2. fs' \in [Ws -> Files] /\ repos' \in [Ws -> Repos]
  BY WorkStateAssumption DEF UserEdit, Types
<1>3. \A v \in Ws \ {w} : fs'[v] = fs[v] /\ repos'[v] = repos[v]
  BY DEF UserEdit, Types
<1>4. Types'
  BY <1>1, <1>2 DEF Types
<1>5. CurrentWs' = CurrentWs
  BY <1>1 DEF CurrentWs
<1>6. BaselineInv'
  <2> SUFFICES ASSUME NEW v \in Ws, Settled(v)'
               PROVE  BaselineOf(v)'
    BY DEF BaselineInv
  <2>1. Settled(v) /\ v # w
    BY <1>1, <1>5 DEF Settled
  <2> QED
    BY <1>1, <1>3, <2>1, BaselineFrame
<1>7. NewLifeInv'
  <2> SUFFICES ASSUME cli.pc = "baseline" PROVE NewLifeInv'
    BY <1>1 DEF NewLifeInv
  <2>1. CurrentWs \in Ws
    BY HeadTodo DEF Types
  <2> QED
    BY <1>1, <1>3, <1>5, <2>1 DEF NewLifeInv
<1>8. TouchedInv' /\ StartedInv' /\ CacheInv'
  BY <1>1, <1>5 DEF TouchedInv, StartedInv, CacheInv, Pending, Excused
<1>9. ListInv' /\ RowsInv' /\ OneRowInv'
  BY <1>1 DEF ListInv, RowsInv, OneRowInv, Excused
<1> QED
  BY <1>4, <1>6, <1>7, <1>8, <1>9
-----------------------------------------------------------------------------
(***************************************************************************)
(* The selector                                                            *)
(***************************************************************************)
LEMMA ShownFacts ==
    ASSUME CursorInv
    PROVE  /\ sel.shown \in SUBSET Nat /\ IsFiniteSet(sel.shown) /\ VisibleCount \in Nat
           /\ sel.shown # {} => /\ Toggled \in sel.shown /\ Focused = Toggled
                                /\ Toggled \in DOMAIN sel.cands
           /\ \A ids : LET shown == filteredCandidateIndices(ids)
                       IN  shown \subseteq DOMAIN sel.cands /\ shown \in SUBSET Nat
                           /\ Cardinality(shown) \in Nat
                           /\ (shown # {} => Cardinality(shown) # 0)
<1>1. DOMAIN sel.cands = 1..Len(sel.cands) /\ Len(sel.cands) \in Nat
  BY DEF CursorInv, SelType
<1>2. IsFiniteSet(1..Len(sel.cands)) /\ 1..Len(sel.cands) \in SUBSET Nat
  <2>1. 1 \in Int /\ Len(sel.cands) \in Int
    BY <1>1
  <2> QED
    BY <1>1, <2>1, FS_Interval
<1>3. \A S \in SUBSET DOMAIN sel.cands :
        /\ IsFiniteSet(S) /\ S \in SUBSET Nat /\ Cardinality(S) \in Nat
        /\ S # {} => Cardinality(S) # 0
  BY <1>1, <1>2, FS_Subset, FS_CardinalityType, FS_EmptySet
<1>4. sel.shown \in SUBSET DOMAIN sel.cands /\ sel.cursor \in Nat
  BY DEF CursorInv, SelType
<1>5. ASSUME sel.shown # {} PROVE Toggled \in sel.shown /\ Focused = Toggled
  <2>1. Cardinality(sel.shown) \in Nat /\ sel.cursor < Cardinality(sel.shown)
    BY <1>3, <1>4, <1>5 DEF CursorInv, VisibleCount
  <2>2. sel.cursor \in 0..(Cardinality(sel.shown) - 1)
    BY <1>4, <2>1
  <2>3. Nth(sel.shown, sel.cursor) \in sel.shown
    BY <1>3, <1>4, <2>2, NthProperties
  <2> QED
    BY <2>3 DEF Toggled, Focused
<1>6. \A ids : filteredCandidateIndices(ids) \in SUBSET DOMAIN sel.cands
  BY DEF filteredCandidateIndices
<1> QED
  BY <1>3, <1>4, <1>5, <1>6 DEF VisibleCount

LEMMA ClosedCursor ==
    ASSUME sel' = Closed
    PROVE  CursorInv' /\ sel'.marked = {} /\ sel'.selected = {} /\ sel'.phase = "closed"
BY DEF Closed, CursorInv, SelType

LEMMA OpenedCursor ==
    ASSUME NEW cands \in Seq(Item), NEW single \in BOOLEAN,
           sel' = newWorkspaceSelectorModel(cands, single)
    PROVE  /\ CursorInv'
           /\ sel'.cands = cands /\ sel'.single = single /\ sel'.phase = "open"
           /\ sel'.selected = {} /\ sel'.marked = {}
<1>1. /\ sel'.cands = cands /\ sel'.phase = "open" /\ sel'.shown = DOMAIN cands
      /\ sel'.selected = {} /\ sel'.marked = {} /\ sel'.cursor = 0
  BY DEF newWorkspaceSelectorModel
<1>2. sel'.single = single
  BY DEF newWorkspaceSelectorModel
<1>3. DOMAIN cands \in SUBSET Nat
  OBVIOUS
<1>4. sel' \in SelType
  BY <1>3 DEF newWorkspaceSelectorModel, SelType
<1>5. DOMAIN cands # {} => 0 < Cardinality(DOMAIN cands)
  <2>1. 1 \in Int /\ Len(cands) \in Int /\ Len(cands) \in Nat /\ DOMAIN cands = 1..Len(cands)
    OBVIOUS
  <2>2. Cardinality(1..Len(cands)) = IF 1 > Len(cands) THEN 0 ELSE Len(cands) - 1 + 1
    BY <2>1, FS_Interval
  <2> QED
    BY <2>1, <2>2
<1> QED
  BY <1>1, <1>2, <1>4, <1>5 DEF CursorInv, VisibleCount

(***************************************************************************)
(* A key leaves the cursor usable and the candidates alone, and what it    *)
(* marks is what it selects.                                               *)
(***************************************************************************)
Kept == sel'.cands = sel.cands /\ sel'.single = sel.single

LEMMA MoveKey ==
    ASSUME CursorInv, Up \/ Down
    PROVE  CursorInv' /\ Kept /\ UNCHANGED <<sel.selected, sel.marked, sel.phase>>
<1>1. sel \in SelType /\ sel.cursor \in Nat /\ VisibleCount \in Nat
  BY ShownFacts DEF CursorInv, SelType
<1>2. ASSUME NEW c \in Nat, sel' = [sel EXCEPT !.cursor = c], c < VisibleCount
      PROVE  CursorInv' /\ Kept /\ UNCHANGED <<sel.selected, sel.marked, sel.phase>>
  <2>1. sel' \in SelType
    BY <1>1, <1>2 DEF SelType
  <2>2. Kept
    BY <1>1, <1>2 DEF SelType, Kept
  <2>3. sel'.cursor = c /\ UNCHANGED <<sel.shown, sel.selected, sel.marked, sel.phase, sel.cands>>
    BY <1>1, <1>2 DEF SelType
  <2> QED
    BY <1>1, <1>2, <2>1, <2>2, <2>3 DEF CursorInv, VisibleCount
<1>3. CASE Up
  <2>1. sel.cursor - 1 \in Nat /\ sel' = [sel EXCEPT !.cursor = sel.cursor - 1]
    BY <1>1, <1>3 DEF Up
  <2>2. sel.shown # {} => sel.cursor - 1 < VisibleCount
    BY <1>1, <2>1 DEF CursorInv
  <2>3. CASE sel.shown # {}
    BY <1>2, <2>1, <2>2, <2>3
  <2>4. CASE sel.shown = {}
    <3>1. sel' \in SelType
      BY <1>1, <2>1 DEF SelType
    <3>2. Kept
      BY <1>1, <2>1 DEF SelType, Kept
    <3>3. UNCHANGED <<sel.shown, sel.selected, sel.marked, sel.phase, sel.cands>>
      BY <1>1, <2>1 DEF SelType
    <3> QED
      BY <2>4, <3>1, <3>2, <3>3 DEF CursorInv
  <2> QED
    BY <2>3, <2>4
<1>4. CASE Down
  <2>1. sel.cursor + 1 \in Nat /\ sel' = [sel EXCEPT !.cursor = sel.cursor + 1]
        /\ sel.cursor + 1 < VisibleCount
    BY <1>1, <1>4 DEF Down
  <2> QED
    BY <1>2, <2>1
<1> QED
  BY <1>3, <1>4

LEMMA ToggleKey ==
    ASSUME CursorInv, Toggle
    PROVE  /\ CursorInv' /\ Kept /\ ~sel.single /\ sel'.phase = sel.phase
           /\ Toggled \in DOMAIN sel.cands
           /\ sel'.selected = Symmetric(sel.selected, Toggled)
           /\ sel'.marked = Symmetric(sel.marked, sel.cands[Toggled])
<1> DEFINE c == IF sel.cursor < VisibleCount - 1 THEN sel.cursor + 1 ELSE sel.cursor
           s == Symmetric(sel.selected, Toggled)
           m == Symmetric(sel.marked, sel.cands[Toggled])
<1>1. sel \in SelType /\ sel.cursor \in Nat /\ VisibleCount \in Nat
  BY ShownFacts DEF CursorInv, SelType
<1>2. sel.shown # {} /\ ~sel.single
  BY DEF Toggle
<1>3. /\ Toggled \in sel.shown /\ Focused = Toggled /\ Toggled \in DOMAIN sel.cands
      /\ Toggled \in Nat
  BY <1>2, ShownFacts
<1>4. sel' = [sel EXCEPT !.selected = s, !.marked = m, !.cursor = c]
  BY <1>1, <1>3 DEF Toggle, SelType
<1>5. c \in Nat /\ c < VisibleCount
  BY <1>1, <1>2 DEF CursorInv
<1>6. s \in SUBSET Nat
  BY <1>1, <1>3 DEF Symmetric, SelType
<1>7. m \in SUBSET Item
  BY <1>1, <1>3 DEF Symmetric, SelType
<1> HIDE DEF c, s, m
<1>8. sel' \in SelType
  BY <1>1, <1>4, <1>5, <1>6, <1>7 DEF SelType
<1>9. /\ sel'.cands = sel.cands /\ sel'.phase = sel.phase /\ sel'.shown = sel.shown
      /\ sel'.selected = s /\ sel'.marked = m /\ sel'.cursor = c
  BY <1>1, <1>4 DEF SelType
<1>10. sel'.single = sel.single
  BY <1>1, <1>4 DEF SelType
<1>11. CursorInv'
  BY <1>5, <1>8, <1>9 DEF CursorInv, VisibleCount
<1> QED
  BY <1>2, <1>3, <1>9, <1>10, <1>11 DEF s, m, Kept

LEMMA FilterKey ==
    ASSUME CursorInv, EditFilter
    PROVE  CursorInv' /\ Kept /\ UNCHANGED <<sel.selected, sel.marked, sel.phase>>
<1>1. sel \in SelType /\ sel.cursor \in Nat
  BY DEF CursorInv, SelType
<1>2. PICK ids \in Matches :
        sel' = [sel EXCEPT !.shown = filteredCandidateIndices(ids),
                           !.cursor = InRange(@, Cardinality(filteredCandidateIndices(ids)))]
  BY DEF EditFilter
<1> DEFINE shown == filteredCandidateIndices(ids)
           c == InRange(sel.cursor, Cardinality(shown))
<1>3. /\ shown \subseteq DOMAIN sel.cands /\ shown \in SUBSET Nat
      /\ Cardinality(shown) \in Nat /\ (shown # {} => Cardinality(shown) # 0)
  BY ShownFacts
<1>4. sel' = [sel EXCEPT !.shown = shown, !.cursor = c]
  BY <1>1, <1>2 DEF SelType
<1> HIDE DEF shown
<1>5. c \in Nat /\ (shown # {} => c < Cardinality(shown))
  BY <1>1, <1>3 DEF InRange
<1> HIDE DEF c
<1>6. sel' \in SelType
  BY <1>1, <1>3, <1>4, <1>5 DEF SelType
<1>7. /\ sel'.shown = shown /\ sel'.cursor = c
      /\ UNCHANGED <<sel.selected, sel.marked, sel.phase, sel.cands>>
  BY <1>1, <1>4 DEF SelType
<1>8. Kept
  BY <1>1, <1>4 DEF SelType, Kept
<1> QED
  BY <1>3, <1>5, <1>6, <1>7, <1>8 DEF CursorInv, VisibleCount

LEMMA EndedFacts ==
    ASSUME NEW m \in SelType, NEW p \in {"confirming", "done"}, sel' = Ended(m, p)
    PROVE  /\ CursorInv' /\ sel'.cands = m.cands /\ sel'.single = m.single
           /\ sel'.selected = m.selected /\ sel'.marked = m.marked /\ sel'.phase = p
<1>1. sel' = [m EXCEPT !.phase = p, !.shown = {}, !.cursor = 0]
  BY DEF Ended
<1>2. sel' \in SelType
  <2>1. {} \in SUBSET Nat /\ 0 \in Nat
    OBVIOUS
  <2> QED
    BY <1>1, <2>1 DEF SelType
<1>3. /\ sel'.cands = m.cands /\ sel'.selected = m.selected /\ sel'.marked = m.marked
      /\ sel'.phase = p /\ sel'.shown = {}
  BY <1>1 DEF SelType
<1>4. sel'.single = m.single
  BY <1>1 DEF SelType
<1> QED
  BY <1>2, <1>3, <1>4 DEF CursorInv

LEMMA EnterKey ==
    ASSUME CursorInv, EnterMulti
    PROVE  /\ CursorInv' /\ Kept /\ ~sel.single /\ UNCHANGED <<sel.selected, sel.marked>>
           /\ sel'.phase \in {"confirming", "done"}
<1>1. sel \in SelType /\ ~sel.single
  BY DEF CursorInv, EnterMulti
<1>2. PICK p \in {"confirming", "done"} : sel' = Ended(sel, p)
  BY DEF EnterMulti, Confirming
<1> QED
  BY <1>1, <1>2, EndedFacts DEF Kept

LEMMA SingleKey ==
    ASSUME CursorInv, confirmSingleSelection
    PROVE  /\ CursorInv' /\ Kept /\ sel.single /\ sel'.phase \in {"confirming", "done"}
           /\ Toggled \in DOMAIN sel.cands
           /\ sel'.selected = {Toggled} /\ sel'.marked = {sel.cands[Toggled]}
<1> DEFINE m == [sel EXCEPT !.selected = {Toggled}, !.marked = {sel.cands[Toggled]}]
<1>1. sel \in SelType /\ sel.single /\ sel.shown # {}
  BY DEF CursorInv, confirmSingleSelection
<1>2. /\ Toggled \in DOMAIN sel.cands /\ Focused = Toggled
      /\ Toggled \in Nat /\ sel.cands[Toggled] \in Item
  BY <1>1, ShownFacts DEF SelType
<1>3. /\ m \in SelType /\ m.cands = sel.cands
      /\ m.selected = {Toggled} /\ m.marked = {sel.cands[Toggled]}
  BY <1>1, <1>2 DEF SelType
<1>4. m.single = sel.single
  BY <1>1 DEF SelType
<1>5. \E p \in {"confirming", "done"} : sel' = Ended(m, p)
  BY <1>2 DEF confirmSingleSelection, Confirming
<1> HIDE DEF m
<1>6. PICK p \in {"confirming", "done"} : sel' = Ended(m, p)
  BY <1>5
<1>7. /\ CursorInv' /\ sel'.cands = m.cands /\ sel'.single = m.single
      /\ sel'.selected = m.selected /\ sel'.marked = m.marked /\ sel'.phase = p
  BY <1>3, <1>6, EndedFacts
<1> QED
  BY <1>1, <1>2, <1>3, <1>4, <1>7 DEF Kept

LEMMA CancelKey ==
    ASSUME Cancel
    PROVE  /\ CursorInv' /\ sel'.cands = <<>> /\ ~sel'.single /\ sel'.phase = "canceled"
           /\ sel'.selected = {} /\ sel'.marked = {}
<1>1. sel' = [cands |-> <<>>, single |-> FALSE, shown |-> {}, cursor |-> 0,
              selected |-> {}, marked |-> {}, phase |-> "canceled"]
  BY DEF Cancel, Closed
<1>2. /\ sel'.cands = <<>> /\ sel'.phase = "canceled" /\ sel'.shown = {}
      /\ sel'.selected = {} /\ sel'.marked = {} /\ ~sel'.single
  BY <1>1
<1>3. sel' \in SelType
  BY <1>1 DEF SelType
<1> QED
  BY <1>2, <1>3 DEF CursorInv

LEMMA DoneKey ==
    ASSUME CursorInv, ConfirmDone
    PROVE  /\ CursorInv' /\ Kept /\ UNCHANGED <<sel.selected, sel.marked>>
           /\ sel.phase = "confirming" /\ sel'.phase = "done"
<1>1. sel \in SelType /\ sel' = [sel EXCEPT !.phase = "done"] /\ sel.phase = "confirming"
  BY DEF CursorInv, ConfirmDone
<1>2. sel' \in SelType
  BY <1>1 DEF SelType
<1>3. /\ UNCHANGED <<sel.cands, sel.shown, sel.cursor, sel.selected, sel.marked>>
      /\ sel'.phase = "done"
  BY <1>1 DEF SelType
<1>4. sel'.single = sel.single
  BY <1>1 DEF SelType
<1> QED
  BY <1>1, <1>2, <1>3, <1>4 DEF CursorInv, VisibleCount, Kept
-----------------------------------------------------------------------------
(***************************************************************************)
(* From a key to a choice                                                  *)
(***************************************************************************)
LEMMA InAppend ==
    ASSUME NEW s \in Seq(Ws), NEW x \in Ws
    PROVE  InSeq(Append(s, x)) = InSeq(s) \cup {x} /\ Len(Append(s, x)) = Len(s) + 1
<1>1. /\ DOMAIN Append(s, x) = 1..(Len(s) + 1) /\ Len(s) \in Nat /\ DOMAIN s = 1..Len(s)
      /\ Append(s, x)[Len(s) + 1] = x
      /\ \A n \in 1..Len(s) : Append(s, x)[n] = s[n]
  OBVIOUS
<1>2. \A n \in 1..(Len(s) + 1) : n \in 1..Len(s) \/ n = Len(s) + 1
  BY <1>1
<1>3. 1..Len(s) \subseteq 1..(Len(s) + 1) /\ Len(s) + 1 \in 1..(Len(s) + 1)
  BY <1>1
<1>4. InSeq(Append(s, x)) = InSeq(s) \cup {x}
  BY <1>1, <1>2, <1>3 DEF InSeq
<1> QED
  BY <1>4

LEMMA InSeqFinite ==
    ASSUME NEW s \in Seq(Ws)
    PROVE  IsFiniteSet(InSeq(s))
<1>1. 1 \in Int /\ Len(s) \in Int /\ DOMAIN s = 1..Len(s)
  OBVIOUS
<1>2. IsFiniteSet(1..Len(s))
  BY <1>1, FS_Interval
<1>3. s \in Surjection(1..Len(s), InSeq(s))
  BY <1>1 DEF InSeq, Surjection
<1> QED
  BY <1>2, <1>3, FS_Surjection

LEMMA InTail ==
    ASSUME NEW s \in Seq(Ws), s # <<>>
    PROVE  InSeq(s) = {Head(s)} \cup InSeq(Tail(s))
<1>1. /\ DOMAIN s = 1..Len(s) /\ Len(s) \in Nat \ {0} /\ Head(s) = s[1]
      /\ DOMAIN Tail(s) = 1..(Len(s) - 1)
      /\ \A n \in 1..(Len(s) - 1) : Tail(s)[n] = s[n + 1]
  OBVIOUS
<1>2. /\ \A n \in 1..(Len(s) - 1) : n + 1 \in 1..Len(s)
      /\ \A n \in 1..Len(s) : n = 1 \/ n - 1 \in 1..(Len(s) - 1)
      /\ \A n \in 1..Len(s) : (n - 1) + 1 = n
      /\ 1 \in 1..Len(s)
  BY <1>1
<1>3. \A n \in 1..Len(s) : n = 1 \/ (n - 1 \in DOMAIN Tail(s) /\ Tail(s)[n - 1] = s[n])
  BY <1>1, <1>2
<1>4. \A x \in InSeq(s) : x = Head(s) \/ x \in InSeq(Tail(s))
  <2> SUFFICES ASSUME NEW n \in DOMAIN s PROVE s[n] = Head(s) \/ s[n] \in InSeq(Tail(s))
    BY DEF InSeq
  <2>1. CASE n = 1
    BY <1>1, <2>1
  <2>2. CASE n - 1 \in DOMAIN Tail(s) /\ Tail(s)[n - 1] = s[n]
    BY <2>2 DEF InSeq
  <2> QED
    BY <1>1, <1>3, <2>1, <2>2
<1>5. \A x \in InSeq(Tail(s)) : x \in InSeq(s)
  BY <1>1, <1>2 DEF InSeq
<1>6. Head(s) \in InSeq(s)
  BY <1>1, <1>2 DEF InSeq
<1> QED
  BY <1>4, <1>5, <1>6

LEMMA KeyChoice ==
    ASSUME ChosenInv, Selecting, UNCHANGED cli, sel.phase # "canceled",
           Kept \/ (sel'.cands = <<>> /\ sel'.phase = "canceled")
    PROVE  ChoiceInv'
<1>1. cli.pc \in {"select", "choose", "sprint"}
  BY DEF Selecting
<1>2. ASSUME At("select") PROVE sel'.cands \in Seq(Ws)
  <2>1. sel.cands \in Seq(Ws) /\ <<>> \in Seq(Ws)
    BY <1>2 DEF ChosenInv, ChoiceInv
  <2> QED
    BY <2>1 DEF Kept
<1>3. (At("select") /\ cli.act = "none") \/ cli.pc \in {"choose", "sprint"}
        => sel'.single \/ sel'.phase = "canceled"
  BY DEF ChosenInv, ChoiceInv, Kept
<1> QED
  BY <1>1, <1>2, <1>3 DEF ChosenInv, ChoiceInv, At

LEMMA UserKeyChosen ==
    ASSUME ChosenInv, UserKey \/ SelectorConfirmed
    PROVE  ChosenInv'
<1> USE DEF ChosenInv
<1>1. Selecting /\ UNCHANGED cli /\ Selecting'
  BY DEF UserKey, SelectorConfirmed, Selecting
<1>2. /\ sel.selected \subseteq DOMAIN sel.cands
      /\ sel.marked = {sel.cands[j] : j \in sel.selected}
      /\ sel.single => /\ sel.phase = "open" => sel.selected = {}
                       /\ sel.phase \in {"confirming", "done"} =>
                            \E j \in DOMAIN sel.cands : sel.selected = {j}
      /\ ~sel.single => \A i, j \in DOMAIN sel.cands : sel.cands[i] = sel.cands[j] => i = j
  BY <1>1 DEF MarksInv
<1>3. CASE Up \/ Down \/ EditFilter
  <2>1. CursorInv' /\ Kept /\ UNCHANGED <<sel.selected, sel.marked, sel.phase>>
    BY <1>3, MoveKey, FilterKey
  <2>2. MarksInv'
    BY <1>1, <1>2, <2>1 DEF MarksInv, Kept
  <2>3. sel.phase # "canceled"
    BY <1>3 DEF Up, Down, EditFilter, Open
  <2> QED
    BY <1>1, <2>1, <2>2, <2>3, KeyChoice
<1>4. CASE Toggle
  <2>1. /\ CursorInv' /\ Kept /\ ~sel.single /\ sel'.phase = sel.phase
        /\ Toggled \in DOMAIN sel.cands
        /\ sel'.selected = Symmetric(sel.selected, Toggled)
        /\ sel'.marked = Symmetric(sel.marked, sel.cands[Toggled])
    BY <1>4, ToggleKey
  <2>2. sel'.selected \subseteq DOMAIN sel'.cands
    BY <1>2, <2>1 DEF Symmetric, Kept
  <2>3. \A j \in DOMAIN sel.cands : sel.cands[j] = sel.cands[Toggled] => j = Toggled
    BY <1>2, <2>1
  <2>4. sel'.marked = {sel'.cands[j] : j \in sel'.selected}
    <3>1. Toggled \in sel.selected <=> sel.cands[Toggled] \in sel.marked
      BY <1>2, <2>1, <2>3
    <3>2. CASE Toggled \in sel.selected
      <4>1. /\ sel'.selected = sel.selected \ {Toggled}
            /\ sel'.marked = sel.marked \ {sel.cands[Toggled]}
        BY <2>1, <3>1, <3>2 DEF Symmetric
      <4>2. sel.marked \ {sel.cands[Toggled]} = {sel.cands[j] : j \in sel.selected \ {Toggled}}
        BY <1>2, <2>3
      <4> QED
        BY <2>1, <4>1, <4>2 DEF Kept
    <3>3. CASE Toggled \notin sel.selected
      <4>1. /\ sel'.selected = sel.selected \cup {Toggled}
            /\ sel'.marked = sel.marked \cup {sel.cands[Toggled]}
        BY <2>1, <3>1, <3>3 DEF Symmetric
      <4>2. sel.marked \cup {sel.cands[Toggled]} = {sel.cands[j] : j \in sel.selected \cup {Toggled}}
        BY <1>2
      <4> QED
        BY <2>1, <4>1, <4>2 DEF Kept
    <3> QED
      BY <3>2, <3>3
  <2>5. MarksInv'
    BY <1>2, <2>1, <2>2, <2>4 DEF MarksInv, Kept
  <2>6. sel.phase # "canceled"
    BY <1>4 DEF Toggle, Open
  <2> QED
    BY <1>1, <2>1, <2>5, <2>6, KeyChoice
<1>5. CASE EnterMulti
  <2>1. /\ CursorInv' /\ Kept /\ ~sel.single /\ UNCHANGED <<sel.selected, sel.marked>>
    BY <1>5, EnterKey
  <2>2. MarksInv'
    BY <1>1, <1>2, <2>1 DEF MarksInv, Kept
  <2>3. sel.phase # "canceled"
    BY <1>5 DEF EnterMulti, Open
  <2> QED
    BY <1>1, <2>1, <2>2, <2>3, KeyChoice
<1>6. CASE confirmSingleSelection
  <2>1. /\ CursorInv' /\ Kept /\ sel.single /\ sel'.phase \in {"confirming", "done"}
        /\ Toggled \in DOMAIN sel.cands
        /\ sel'.selected = {Toggled} /\ sel'.marked = {sel.cands[Toggled]}
    BY <1>6, SingleKey
  <2>2. sel'.cands = sel.cands /\ sel'.single
    BY <2>1 DEF Kept
  <2>3. {sel.cands[Toggled]} = {sel.cands[j] : j \in {Toggled}}
    OBVIOUS
  <2>4. MarksInv'
    BY <2>1, <2>2, <2>3 DEF MarksInv
  <2>5. sel.phase # "canceled"
    BY <1>6 DEF confirmSingleSelection, Open
  <2> QED
    BY <1>1, <2>1, <2>4, <2>5, KeyChoice
<1>7. CASE Cancel
  <2>1. /\ CursorInv' /\ sel'.cands = <<>> /\ ~sel'.single /\ sel'.phase = "canceled"
        /\ sel'.selected = {} /\ sel'.marked = {}
    BY <1>7, CancelKey
  <2>2. MarksInv'
    BY <2>1 DEF MarksInv
  <2>3. sel.phase # "canceled"
    BY <1>7 DEF Cancel, Open
  <2> QED
    BY <1>1, <2>1, <2>2, <2>3, KeyChoice
<1>8. CASE ConfirmDone
  <2>1. /\ CursorInv' /\ Kept /\ UNCHANGED <<sel.selected, sel.marked>>
        /\ sel.phase = "confirming" /\ sel'.phase = "done"
    BY <1>8, DoneKey
  <2>2. MarksInv'
    BY <1>1, <1>2, <2>1 DEF MarksInv, Kept
  <2> QED
    BY <1>1, <2>1, <2>2, KeyChoice
<1> QED
  BY <1>3, <1>4, <1>5, <1>6, <1>7, <1>8 DEF UserKey, SelectorConfirmed, Key

LEMMA ReturnChosen ==
    ASSUME Return
    PROVE  ChosenInv'
<1>1. cli' = Idle /\ cli'.pc = "idle"
  BY IdleType DEF Return
<1>2. CursorInv' /\ sel'.marked = {}
  BY ClosedCursor DEF Return
<1> QED
  BY <1>1, <1>2 DEF ChosenInv, MarksInv, ChoiceInv, Selecting, At

LEMMA AwayChosen ==
    ASSUME CursorInv', cli'.pc \in {"search", "confirm", "import", "shown"}
    PROVE  ChosenInv'
BY DEF ChosenInv, MarksInv, ChoiceInv, Selecting, At

LEMMA SameChosen ==
    ASSUME ChosenInv, UNCHANGED <<sel, cli>>
    PROVE  ChosenInv'
<1>1. CursorInv'
  BY DEF ChosenInv, CursorInv, VisibleCount
<1>2. MarksInv'
  BY DEF ChosenInv, MarksInv, Selecting
<1>3. ChoiceInv' = ChoiceInv
  BY DEF ChoiceInv, At, MarkedInWork, Tried, InSeq
<1> QED
  BY <1>1, <1>2, <1>3 DEF ChosenInv

LEMMA ListingChosen ==
    ASSUME ChosenInv, UNCHANGED sel, cli'.pc \in {"inspect", "show"},
           cli'.attempted = <<>>, cli'.op \in {"list", "multi", "select"},
           cli'.op = "multi" => cli'.act # "none"
    PROVE  ChosenInv'
<1>1. CursorInv'
  BY DEF ChosenInv, CursorInv, VisibleCount
<1> QED
  BY <1>1 DEF ChosenInv, MarksInv, ChoiceInv, Selecting, At

LEMMA RowIdsFacts ==
    ASSUME cli \in CliType
    PROVE  /\ RowIds \in Seq(Ws) /\ RowIds \in Seq(Item) /\ DOMAIN RowIds = DOMAIN cli.rows
           /\ \A n \in DOMAIN RowIds : RowIds[n] = cli.rows[n].id
<1>1. cli.rows \in Seq(RowType) /\ Len(cli.rows) \in Nat
  BY DEF CliType
<1>2. DOMAIN cli.rows = 1..Len(cli.rows) /\ \A n \in DOMAIN cli.rows : cli.rows[n] \in RowType
  BY <1>1
<1>3. \A n \in DOMAIN cli.rows : cli.rows[n].id \in Ws
  BY <1>2 DEF RowType
<1>4. RowIds \in [1..Len(cli.rows) -> Ws]
  BY <1>2, <1>3 DEF RowIds
<1>5. RowIds \in Seq(Ws)
  BY <1>1, <1>4
<1>6. RowIds \in [1..Len(cli.rows) -> Item]
  BY <1>4 DEF Item
<1>7. RowIds \in Seq(Item)
  BY <1>1, <1>6
<1> QED
  BY <1>5, <1>7 DEF RowIds

LEMMA ShowChosen ==
    ASSUME WorkInv, ChosenInv, Show
    PROVE  ChosenInv'
<1>1. CASE Return
  BY <1>1, ReturnChosen
<1>2. CASE cli.op # "list" /\ OpenSelector
  <2>1. cli \in CliType /\ cli.pc = "show" /\ cli.attempted = <<>>
    BY DEF WorkInv, Types, Show, At, ChosenInv, ChoiceInv
  <2>2. /\ cli'.pc = "select" /\ cli'.attempted = cli.attempted /\ cli'.act = cli.act
    BY <1>2, <2>1 DEF OpenSelector, Goto, CliType
  <2>3. RowIds \in Seq(Ws) /\ RowIds \in Seq(Item)
    BY <2>1, RowIdsFacts
  <2>4. \A i, j \in DOMAIN RowIds : RowIds[i] = RowIds[j] => i = j
    BY <2>1, RowIdsFacts DEF WorkInv, OneRowInv
  <2>5. /\ (cli.op = "select") \in BOOLEAN
        /\ sel' = newWorkspaceSelectorModel(RowIds, cli.op = "select")
    BY <1>2 DEF OpenSelector
  <2>6. /\ CursorInv' /\ sel'.cands = RowIds /\ sel'.single = (cli.op = "select")
        /\ sel'.phase = "open" /\ sel'.selected = {} /\ sel'.marked = {}
    BY <2>3, <2>5, OpenedCursor
  <2>7. MarksInv'
    BY <2>4, <2>6 DEF MarksInv
  <2>8. cli.act = "none" => sel'.single
    BY <1>2, <2>1, <2>6 DEF ChosenInv, ChoiceInv
  <2>9. ChoiceInv'
    BY <2>1, <2>2, <2>3, <2>6, <2>8 DEF ChoiceInv, At
  <2> QED
    BY <2>6, <2>7, <2>9 DEF ChosenInv
<1> QED
  BY <1>1, <1>2 DEF Show

(***************************************************************************)
(* As many workspaces are marked as rows are selected.                     *)
(***************************************************************************)
LEMMA MarkedCount ==
    ASSUME ChosenInv, Selecting, sel.phase = "done"
    PROVE  /\ Cardinality(sel.marked) = Len(selectedIDs)
           /\ sel.single => Len(selectedIDs) = 1
<1>1. /\ IsFiniteSet(sel.selected) /\ Len(selectedIDs) = Cardinality(sel.selected)
  BY SelectedIDs
<1>2. /\ sel.selected \subseteq DOMAIN sel.cands
      /\ sel.marked = {sel.cands[j] : j \in sel.selected}
      /\ sel.single => \E j \in DOMAIN sel.cands : sel.selected = {j}
      /\ ~sel.single => \A i, j \in DOMAIN sel.cands : sel.cands[i] = sel.cands[j] => i = j
  BY DEF ChosenInv, MarksInv
<1>3. \A i, j \in sel.selected : sel.cands[i] = sel.cands[j] => i = j
  BY <1>2
<1> DEFINE f == [j \in sel.selected |-> sel.cands[j]]
<1>4. f \in Bijection(sel.selected, sel.marked)
  <2>1. f \in [sel.selected -> sel.marked]
    BY <1>2
  <2>2. \A i, j \in sel.selected : f[i] = f[j] => i = j
    BY <1>3
  <2>3. \A x \in sel.marked : \E j \in sel.selected : f[j] = x
    BY <1>2
  <2> QED
    BY <2>1, <2>2, <2>3 DEF Bijection, Injection, Surjection, IsInjective
<1>5. Cardinality(sel.marked) = Cardinality(sel.selected)
  BY <1>1, <1>4, FS_Bijection DEF ExistsBijection
<1>6. sel.single => Cardinality(sel.selected) = 1
  BY <1>2, FS_Singleton
<1> QED
  BY <1>1, <1>5, <1>6

LEMMA SelectedChosen ==
    ASSUME WorkInv, ChosenInv, Selected
    PROVE  ChosenInv' /\ CliOk' /\ cli'.pc \in {"act", "choose"}
<1>1. cli \in CliType /\ cli.pc = "select" /\ At("select") /\ Selecting /\ sel.phase = "done"
  BY DEF WorkInv, Types, Selected, At, Selecting
<1>2. /\ selectedIDs \in Seq(Ws) /\ InSeq(selectedIDs) = sel.marked
      /\ Cardinality(sel.marked) = Len(selectedIDs) /\ Len(selectedIDs) \in Nat
      /\ sel.single => Len(selectedIDs) = 1
      /\ cli.attempted = <<>>
  BY <1>1, SelectedIDs, MarkedCount DEF ChosenInv, ChoiceInv
<1>3. CASE cli.act # "none"
  <2>1. cli' = [cli EXCEPT !.pc = "act", !.todo = selectedIDs] /\ UNCHANGED sel
    BY <1>3 DEF Selected
  <2>2. cli' \in CliType /\ cli'.pc = "act" /\ cli'.todo = selectedIDs /\ cli'.attempted = <<>>
    BY <1>1, <1>2, <2>1 DEF CliType, PC
  <2>3. InSeq(<<>>) = {} /\ Len(<<>>) = 0
    BY DEF InSeq
  <2>4. MarkedInWork'
    BY <1>2, <2>1, <2>2, <2>3 DEF MarkedInWork, Tried, InSeq
  <2>5. CursorInv'
    BY <2>1 DEF ChosenInv, CursorInv, VisibleCount
  <2>6. MarksInv' /\ ChoiceInv'
    BY <2>2, <2>4 DEF MarksInv, Selecting, ChoiceInv, At
  <2> QED
    BY <2>2, <2>5, <2>6 DEF ChosenInv, CliOk
<1>4. CASE cli.act = "none"
  <2>1. /\ cli' = [cli EXCEPT !.pc = "choose", !.todo = selectedIDs]
        /\ sel' = newWorkspaceSelectorModel(ActionsIn(cli.scope), TRUE)
    BY <1>4 DEF Selected
  <2>2. /\ cli' \in CliType /\ cli'.pc = "choose" /\ cli'.todo = selectedIDs
        /\ cli'.attempted = <<>>
    BY <1>1, <1>2, <2>1 DEF CliType, PC
  <2>3. ActionsIn(cli.scope) \in Seq(Item)
    <3>1. {"open", "add-repo", "remove-repo", "close", "reopen", "unlock", "purge"} \subseteq Item
      BY DEF Item
    <3> HIDE DEF Item
    <3> QED
      BY <3>1 DEF ActionsIn
  <2>4. /\ CursorInv' /\ sel'.single /\ sel'.phase = "open"
        /\ sel'.selected = {} /\ sel'.marked = {}
    BY <2>1, <2>3, OpenedCursor
  <2>5. MarksInv'
    BY <2>4 DEF MarksInv
  <2>6. Len(cli'.todo) = 1
    BY <1>1, <1>2, <1>4, <2>2 DEF ChosenInv, ChoiceInv
  <2>7. ChoiceInv'
    BY <2>2, <2>4, <2>6 DEF ChoiceInv, At
  <2> QED
    BY <2>2, <2>4, <2>5, <2>7 DEF ChosenInv, CliOk
<1> QED
  BY <1>3, <1>4

LEMMA ActionChosenChosen ==
    ASSUME WorkInv, ChosenInv, ActionChosen
    PROVE  ChosenInv' /\ CliOk' /\ cli'.pc = "act"
<1>1. cli \in CliType /\ cli.pc = "choose" /\ Selecting /\ sel.phase = "done"
  BY DEF WorkInv, Types, ActionChosen, At, Selecting
<1>2. sel.single /\ cli.attempted = <<>> /\ Len(cli.todo) = 1
  BY <1>1 DEF ChosenInv, ChoiceInv, At
<1>3. selectedIDs \in Seq(Item) /\ Len(selectedIDs) = 1
  BY <1>1, <1>2, SelectedIDs, MarkedCount
<1>4. Head(selectedIDs) \in Item
  BY <1>3
<1>5. /\ cli' = [cli EXCEPT !.pc = "act", !.act = Head(selectedIDs)]
      /\ sel' = [Closed EXCEPT !.marked = {CurrentWs}]
  BY DEF ActionChosen
<1>6. cli' \in CliType /\ cli'.pc = "act" /\ cli'.todo = cli.todo /\ cli'.attempted = <<>>
  BY <1>1, <1>2, <1>4, <1>5 DEF CliType, PC
<1>7. cli.todo \in Seq(Ws) /\ cli.todo # <<>> /\ CurrentWs = cli.todo[1] /\ CurrentWs \in Ws
  <2>1. cli.todo \in Seq(Ws)
    BY <1>1 DEF CliType
  <2>2. cli.todo # <<>>
    BY <1>2, <2>1
  <2> QED
    BY <1>1, <2>1, <2>2, HeadTodo
<1>8. DOMAIN cli.todo = {1}
  BY <1>2, <1>7
<1>9. InSeq(cli.todo) = {CurrentWs} /\ InSeq(<<>>) = {} /\ Len(<<>>) = 0
  BY <1>7, <1>8 DEF InSeq
<1>10. CurrentWs \in Item
  BY <1>7 DEF Item
<1>11. /\ sel' = [cands |-> <<>>, single |-> FALSE, shown |-> {}, cursor |-> 0,
                  selected |-> {}, marked |-> {CurrentWs}, phase |-> "closed"]
  BY <1>5 DEF Closed
<1>12. CursorInv' /\ sel'.marked = {CurrentWs}
  BY <1>10, <1>11 DEF CursorInv, SelType
<1>13. Cardinality(sel'.marked) = 1
  BY <1>12, FS_Singleton
<1>14. MarkedInWork'
  <2>1. InSeq(cli'.attempted) \cup InSeq(cli'.todo) = sel'.marked
    BY <1>6, <1>9, <1>12
  <2>2. Len(cli'.attempted) = 0 /\ Len(cli'.todo) = 1
    BY <1>2, <1>6, <1>9
  <2>3. Len(cli'.attempted) + Len(cli'.todo) = Cardinality(sel'.marked)
    BY <1>13, <2>2
  <2> QED
    BY <2>1, <2>3 DEF MarkedInWork, Tried, InSeq
<1>15. MarksInv' /\ ChoiceInv'
  BY <1>6, <1>14 DEF MarksInv, Selecting, ChoiceInv, At
<1> QED
  BY <1>6, <1>12, <1>15 DEF ChosenInv, CliOk

(***************************************************************************)
(* The actions, one workspace after another.                               *)
(***************************************************************************)
LEMMA TriedChosen ==
    ASSUME ChosenInv, At("act"), cli \in CliType, cli.todo # <<>>, UNCHANGED sel,
           cli'.attempted = Append(cli.attempted, CurrentWs),
           \/ cli'.pc = "baseline" /\ cli'.todo = cli.todo
           \/ cli'.pc = "act" /\ cli'.todo = Tail(cli.todo)
    PROVE  ChosenInv'
<1>1. /\ InSeq(cli.attempted) \cup InSeq(cli.todo) = sel.marked
      /\ Len(cli.attempted) + Len(cli.todo) = Cardinality(sel.marked)
  BY DEF ChosenInv, ChoiceInv, MarkedInWork, Tried, InSeq
<1>2. /\ cli.todo \in Seq(Ws) /\ cli.attempted \in Seq(Ws) /\ CurrentWs \in Ws
      /\ Len(Tail(cli.todo)) = Len(cli.todo) - 1
      /\ Len(cli.todo) \in Nat /\ Len(cli.attempted) \in Nat
  BY HeadTodo DEF CliType
<1>3. InSeq(cli.todo) = {CurrentWs} \cup InSeq(Tail(cli.todo))
  BY <1>2, InTail DEF CurrentWs
<1>4. /\ InSeq(cli'.attempted) = InSeq(cli.attempted) \cup {CurrentWs}
      /\ Len(cli'.attempted) = Len(cli.attempted) + 1
  BY <1>2, InAppend
<1>5. InSeq(cli'.attempted) \cup InSeq(Tail(cli.todo)) = sel'.marked
  BY <1>1, <1>3, <1>4
<1>6. Len(cli.attempted) + Len(cli.todo) = Cardinality(sel'.marked)
  BY <1>1
<1>7. /\ Len(cli'.attempted) + Len(cli.todo) = Cardinality(sel'.marked) + 1
      /\ Len(cli'.attempted) + Len(Tail(cli.todo)) = Cardinality(sel'.marked)
  <2> DEFINE a == Len(cli.attempted)
             t == Len(cli.todo)
             c == Cardinality(sel'.marked)
  <2>1. a \in Nat /\ t \in Nat /\ a + t = c
    BY <1>2, <1>6
  <2>2. Len(cli'.attempted) = a + 1 /\ Len(Tail(cli.todo)) = t - 1
    BY <1>2, <1>4
  <2> HIDE DEF a, t, c
  <2>3. (a + 1) + t = c + 1 /\ (a + 1) + (t - 1) = c
    BY <2>1
  <2> QED
    BY <2>2, <2>3 DEF t, c
<1>8. CursorInv'
  BY DEF ChosenInv, CursorInv, VisibleCount
<1>9. CASE cli'.pc = "baseline" /\ cli'.todo = cli.todo
  BY <1>5, <1>7, <1>8, <1>9 DEF ChosenInv, MarksInv, Selecting, ChoiceInv, At
<1>10. CASE cli'.pc = "act" /\ cli'.todo = Tail(cli.todo)
  <2>1. MarkedInWork'
    BY <1>5, <1>7, <1>10 DEF MarkedInWork, Tried, InSeq
  <2> QED
    BY <1>8, <1>10, <2>1 DEF ChosenInv, MarksInv, Selecting, ChoiceInv, At
<1> QED
  BY <1>9, <1>10

LEMMA BookkeepingChosen ==
    ASSUME ChosenInv, cli \in CliType, cli.pc \in {"baseline", "cache"}, cli.todo # <<>>,
           UNCHANGED sel, cli'.attempted = cli.attempted,
           \/ cli'.pc = "cache" /\ cli'.todo = cli.todo
           \/ cli'.pc = "act" /\ cli'.todo = Tail(cli.todo)
    PROVE  ChosenInv'
<1>1. /\ InSeq(cli.attempted) \cup InSeq(Tail(cli.todo)) = sel.marked
      /\ Len(cli.attempted) + Len(cli.todo) = Cardinality(sel.marked) + 1
  BY DEF ChosenInv, ChoiceInv
<1>2. CursorInv'
  BY DEF ChosenInv, CursorInv, VisibleCount
<1>3. CASE cli'.pc = "cache" /\ cli'.todo = cli.todo
  BY <1>1, <1>2, <1>3 DEF ChosenInv, MarksInv, Selecting, ChoiceInv, At
<1>4. CASE cli'.pc = "act" /\ cli'.todo = Tail(cli.todo)
  <2>1. /\ Len(Tail(cli.todo)) = Len(cli.todo) - 1
        /\ Len(cli.todo) \in Nat /\ Len(cli.attempted) \in Nat
    BY HeadTodo DEF CliType
  <2>2. IsFiniteSet(sel.marked)
    <3>1. cli.attempted \in Seq(Ws) /\ Tail(cli.todo) \in Seq(Ws)
      BY HeadTodo DEF CliType
    <3> QED
      BY <1>1, <3>1, InSeqFinite, FS_Union
  <2>3. Cardinality(sel.marked) \in Nat
    BY <2>2, FS_CardinalityType
  <2>4. Len(cli'.attempted) + Len(cli'.todo) = Cardinality(sel'.marked)
    <3> DEFINE a == Len(cli.attempted)
               t == Len(cli.todo)
               c == Cardinality(sel.marked)
    <3>1. a \in Nat /\ t \in Nat /\ c \in Nat /\ a + t = c + 1
      BY <1>1, <2>1, <2>3
    <3>2. Len(cli'.attempted) = a /\ Len(cli'.todo) = t - 1 /\ Cardinality(sel'.marked) = c
      BY <1>4, <2>1
    <3> HIDE DEF a, t, c
    <3>3. a + (t - 1) = c
      BY <3>1
    <3> QED
      BY <3>2, <3>3
  <2>5. MarkedInWork'
    BY <1>1, <1>4, <2>4 DEF MarkedInWork, Tried, InSeq
  <2> QED
    BY <1>2, <1>4, <2>5 DEF ChosenInv, MarksInv, Selecting, ChoiceInv, At
<1> QED
  BY <1>3, <1>4

LEMMA CreateChosen ==
    ASSUME ChosenInv, NEW w \in Ws, Create(w)
    PROVE  ChosenInv'
<1>1. /\ cli' = [Idle EXCEPT !.pc = "baseline", !.op = "create", !.act = "create",
                             !.todo = <<w>>]
      /\ UNCHANGED sel /\ sel.marked = {}
  BY DEF Create, ChosenInv, ChoiceInv
<1>2. cli'.pc = "baseline" /\ cli'.todo = <<w>> /\ cli'.attempted = <<>>
  BY <1>1 DEF Idle
<1>3. Tail(cli'.todo) = <<>> /\ Len(cli'.todo) = 1 /\ Len(<<>>) = 0
  BY <1>2
<1>4. InSeq(<<>>) = {} /\ Cardinality({}) = 0
  BY FS_EmptySet DEF InSeq
<1>5. CursorInv'
  BY <1>1 DEF ChosenInv, CursorInv, VisibleCount
<1> QED
  BY <1>1, <1>2, <1>3, <1>4, <1>5 DEF ChosenInv, MarksInv, Selecting,
         ChoiceInv, At
-----------------------------------------------------------------------------
(***************************************************************************)
(* The import                                                              *)
(***************************************************************************)
LEMMA ImportAway ==
    ASSUME PlanInv, imp' = imp \/ imp' = NoImport,
           cli'.pc \notin {"confirm", "import", "shown"}
    PROVE  ImportInv'
<1>1. NoImport \in ImpType /\ NoImport.items = <<>>
  BY DEF NoImport, ImpType
<1>2. imp' \in ImpType
  BY <1>1 DEF PlanInv
<1>3. CASE imp' = imp
  BY <1>2, <1>3 DEF ImportInv, PlanInv, ItemsThatSay, ImportAccounted, At
<1>4. CASE imp' = NoImport
  BY <1>1, <1>2, <1>4 DEF ImportInv, PlanInv, ItemsThatSay, ImportAccounted, At
<1> QED
  BY <1>3, <1>4

LEMMA ReturnImport ==
    ASSUME PlanInv, Return
    PROVE  ImportInv'
BY ImportAway, IdleType DEF Return

(***************************************************************************)
(* The positions of a key, without the first.                              *)
(***************************************************************************)
LEMMA IndicesFinite ==
    ASSUME NEW T, NEW s \in Seq(T), NEW I \in SUBSET DOMAIN s
    PROVE  IsFiniteSet(I) /\ Cardinality(I) \in Nat /\ I \in SUBSET Nat
<1>1. 1 \in Int /\ Len(s) \in Int /\ DOMAIN s = 1..Len(s)
  OBVIOUS
<1>2. IsFiniteSet(DOMAIN s)
  BY <1>1, FS_Interval
<1>3. IsFiniteSet(I) /\ Cardinality(I) \in Nat
  BY <1>2, FS_Subset, FS_CardinalityType
<1> QED
  BY <1>1, <1>3

LEMMA TailCount ==
    ASSUME NEW s \in Seq(Ws), s # <<>>, NEW k
    PROVE  LET in == {n \in DOMAIN s : s[n] = k}
               rest == {n \in DOMAIN Tail(s) : Tail(s)[n] = k}
           IN  Cardinality(in) = IF Head(s) = k THEN Cardinality(rest) + 1 ELSE Cardinality(rest)
<1> DEFINE in == {n \in DOMAIN s : s[n] = k}
           rest == {n \in DOMAIN Tail(s) : Tail(s)[n] = k}
           f == [n \in rest |-> n + 1]
<1>1. /\ DOMAIN s = 1..Len(s) /\ Len(s) \in Nat \ {0} /\ Head(s) = s[1]
      /\ Tail(s) \in Seq(Ws) /\ DOMAIN Tail(s) = 1..(Len(s) - 1)
      /\ \A n \in 1..(Len(s) - 1) : Tail(s)[n] = s[n + 1]
  OBVIOUS
<1>2. /\ IsFiniteSet(in) /\ Cardinality(in) \in Nat
      /\ IsFiniteSet(rest) /\ Cardinality(rest) \in Nat
  BY <1>1, IndicesFinite
<1>3. /\ \A n \in 1..(Len(s) - 1) : n + 1 \in 1..Len(s) /\ n + 1 # 1
      /\ \A n \in 1..Len(s) : n # 1 => n - 1 \in 1..(Len(s) - 1) /\ (n - 1) + 1 = n
      /\ 1 \in 1..Len(s)
      /\ \A n, m \in 1..(Len(s) - 1) : n + 1 = m + 1 => n = m
  BY <1>1
<1>4. \A n \in rest : n + 1 \in in \ {1}
  BY <1>1, <1>3
<1>5. \A n \in in \ {1} : n - 1 \in rest /\ (n - 1) + 1 = n
  <2> SUFFICES ASSUME NEW n \in in \ {1} PROVE n - 1 \in rest /\ (n - 1) + 1 = n
    OBVIOUS
  <2>1. n - 1 \in 1..(Len(s) - 1) /\ (n - 1) + 1 = n
    BY <1>1, <1>3
  <2>2. Tail(s)[n - 1] = s[n]
    BY <1>1, <2>1
  <2> QED
    BY <1>1, <2>1, <2>2
<1>6. \A n, m \in rest : n + 1 = m + 1 => n = m
  BY <1>1, <1>3
<1>7. 1 \in in <=> Head(s) = k
  BY <1>1, <1>3
<1> HIDE DEF in, rest
<1>8. f \in Bijection(rest, in \ {1})
  <2>1. f \in [rest -> in \ {1}]
    BY <1>4
  <2>2. \A n, m \in rest : f[n] = f[m] => n = m
    BY <1>6
  <2>3. \A x \in in \ {1} : \E n \in rest : f[n] = x
    BY <1>5
  <2> QED
    BY <2>1, <2>2, <2>3 DEF Bijection, Injection, Surjection, IsInjective
<1>9. Cardinality(in \ {1}) = Cardinality(rest)
  BY <1>2, <1>8, FS_Bijection DEF ExistsBijection
<1>10. Cardinality(in \ {1}) = IF 1 \in in THEN Cardinality(in) - 1 ELSE Cardinality(in)
  BY <1>2, FS_RemoveElement
<1> DEFINE a == Cardinality(in)
           b == Cardinality(rest)
<1>11. a \in Nat /\ b \in Nat /\ b = IF 1 \in in THEN a - 1 ELSE a
  BY <1>2, <1>9, <1>10
<1> HIDE DEF a, b
<1>12. a = IF 1 \in in THEN b + 1 ELSE b
  BY <1>11
<1> QED
  BY <1>7, <1>12 DEF a, b, in, rest

(***************************************************************************)
(* The plan.                                                               *)
(***************************************************************************)
LEMMA PlanFacts ==
    ASSUME NEW inputs \in Inputs, imp' = buildWSImportJiraPlan(inputs)
    PROVE  /\ imp' \in ImpType /\ imp'.created = 0 /\ imp'.made = {}
           /\ \A action : ItemsThatSay(action)' = Planned(inputs, action)
           /\ imp'.skipped = Cardinality(Planned(inputs, "skip"))
           /\ imp'.failed = Cardinality(Planned(inputs, "fail"))
           /\ Len(imp'.todo) = Cardinality(Planned(inputs, "create"))
           /\ \A n \in Planned(inputs, "create") : imp'.items[n].key \in Ws
           /\ \A k \in Ws : Cardinality(Says(k)') = Cardinality(Left(k)')
<1> DEFINE Act3 == {"create", "skip", "fail"}
           It == [key : Ws \cup {Invalid}, action : Act3]
           items == [n \in DOMAIN inputs |->
                       [key |-> inputs[n], action |-> PlannedAction(inputs[n])]]
           C == Planned(inputs, "create")
           todo == Remaining(inputs, C)
<1>1. inputs \in Seq(Ws \cup {Invalid})
  <2>1. PICK n \in 0..MaxIssues : inputs \in [1..n -> Ws \cup {Invalid}]
    BY DEF Inputs
  <2>2. n \in Nat
    BY JiraImportAssumption
  <2> QED
    BY <2>1, <2>2
<1>2. /\ DOMAIN inputs = 1..Len(inputs) /\ Len(inputs) \in Nat
      /\ \A n \in DOMAIN inputs : inputs[n] \in Ws \cup {Invalid}
  BY <1>1
<1>3. \A k : PlannedAction(k) \in Act3 /\ (PlannedAction(k) = "create" => k # Invalid)
  BY DEF PlannedAction
<1>4. items \in Seq(It)
  <2>1. items \in [1..Len(inputs) -> It]
    BY <1>2, <1>3
  <2> QED
    BY <1>2, <2>1
<1>5. \A a : Planned(inputs, a) \in SUBSET DOMAIN inputs
  BY DEF Planned
<1>6. \A a : Cardinality(Planned(inputs, a)) \in Nat
  BY <1>1, <1>5, IndicesFinite
<1>7. \A n \in C : inputs[n] \in Ws
  BY <1>2, <1>3 DEF Planned
<1> HIDE DEF C
<1>8. C \in SUBSET DOMAIN inputs /\ Cardinality(C) \in Nat
  BY <1>5, <1>6 DEF C
<1>9. /\ Len(todo) = Cardinality(C) /\ DOMAIN todo = 1..Cardinality(C)
      /\ \A n \in DOMAIN todo : Nth(C, n - 1) \in C /\ todo[n] = inputs[Nth(C, n - 1)]
      /\ \A n, m \in DOMAIN todo : Nth(C, n - 1) = Nth(C, m - 1) => n = m
      /\ \A j \in C : \E n \in DOMAIN todo : Nth(C, n - 1) = j /\ todo[n] = inputs[j]
  BY <1>1, <1>8, RemainingProperties
<1>10. todo \in Seq(Ws)
  <2>1. \A n \in 1..Cardinality(C) : todo[n] \in Ws
    BY <1>7, <1>9
  <2>2. todo \in [1..Cardinality(C) -> Ws]
    BY <2>1 DEF Remaining
  <2> QED
    BY <1>8, <2>2
<1>11. imp' = [items |-> items, toCreate |-> Cardinality(C),
              skipped |-> Cardinality(Planned(inputs, "skip")),
              failed |-> Cardinality(Planned(inputs, "fail")),
              todo |-> todo, created |-> 0, made |-> {}]
  BY DEF buildWSImportJiraPlan, NoImport, C
<1>12. \A n \in DOMAIN items : items[n] = [key |-> inputs[n], action |-> PlannedAction(inputs[n])]
  OBVIOUS
<1>13. DOMAIN items = DOMAIN inputs
  OBVIOUS
<1> HIDE DEF items, todo
<1>14. imp' \in ImpType
  BY <1>4, <1>6, <1>8, <1>10, <1>11 DEF ImpType
<1>15. /\ imp'.created = 0 /\ imp'.made = {} /\ imp'.items = items /\ imp'.todo = todo
       /\ imp'.skipped = Cardinality(Planned(inputs, "skip"))
       /\ imp'.failed = Cardinality(Planned(inputs, "fail"))
  BY <1>11
<1>16. \A action : ItemsThatSay(action)' = Planned(inputs, action)
  BY <1>12, <1>13, <1>15 DEF ItemsThatSay, Planned
<1>17. \A n \in C : imp'.items[n].key \in Ws
  BY <1>7, <1>8, <1>12, <1>13, <1>15
<1>18. ASSUME NEW k \in Ws PROVE Cardinality(Says(k)') = Cardinality(Left(k)')
  <2> DEFINE says == {n \in C : inputs[n] = k}
             left == {n \in DOMAIN todo : todo[n] = k}
             f == [n \in left |-> Nth(C, n - 1)]
  <2>1. Says(k)' = says
    <3>1. \A n \in DOMAIN items : items[n] = [key |-> k, action |-> "create"]
                                    <=> inputs[n] = k /\ PlannedAction(inputs[n]) = "create"
      BY <1>12
    <3> QED
      BY <1>13, <1>15, <3>1 DEF Says, C, Planned
  <2>2. Left(k)' = left
    BY <1>15 DEF Left
  <2>3. f \in Bijection(left, says)
    <3>1. f \in [left -> says]
      BY <1>9
    <3>2. \A n, m \in left : f[n] = f[m] => n = m
      BY <1>9
    <3>3. \A j \in says : \E n \in left : f[n] = j
      BY <1>9
    <3> QED
      BY <3>1, <3>2, <3>3 DEF Bijection, Injection, Surjection, IsInjective
  <2>4. IsFiniteSet(left)
    BY <1>10, IndicesFinite
  <2> HIDE DEF says, left, f
  <2> QED
    BY <2>1, <2>2, <2>3, <2>4, FS_Bijection DEF ExistsBijection
<1> QED
  BY <1>9, <1>14, <1>15, <1>16, <1>17, <1>18 DEF C

LEMMA SearchImport ==
    ASSUME cli \in CliType, Search
    PROVE  ImportInv' /\ CliOk' /\ cli'.pc \in {"confirm", "import"}
<1>1. PICK inputs \in Inputs : imp' = buildWSImportJiraPlan(inputs)
  BY DEF Search
<1>2. CliOk' /\ cli'.pc \in {"confirm", "import"}
  <2>1. PICK pc \in {"confirm", "import"} : Goto(pc)
    BY DEF Search
  <2>2. pc \in PC \ {"baseline", "cache"}
    BY DEF PC
  <2>3. cli'.pc = pc
    BY <2>1 DEF Goto, CliType
  <2> QED
    BY <2>1, <2>2, <2>3, GotoType
<1>3. /\ imp' \in ImpType /\ imp'.created = 0 /\ imp'.made = {}
      /\ \A action : ItemsThatSay(action)' = Planned(inputs, action)
      /\ imp'.skipped = Cardinality(Planned(inputs, "skip"))
      /\ imp'.failed = Cardinality(Planned(inputs, "fail"))
      /\ Len(imp'.todo) = Cardinality(Planned(inputs, "create"))
      /\ \A n \in Planned(inputs, "create") : imp'.items[n].key \in Ws
      /\ \A k \in Ws : Cardinality(Says(k)') = Cardinality(Left(k)')
  BY <1>1, PlanFacts
<1>4. imp'.created + Len(imp'.todo) = Cardinality(ItemsThatSay("create")')
  <2>1. Len(imp'.todo) \in Nat
    BY <1>3 DEF ImpType
  <2> QED
    BY <1>3, <2>1
<1>5. \A k \in Ws : Cardinality(Says(k)') =
            Cardinality(Left(k)') + (IF k \in imp'.made THEN 1 ELSE 0)
  <2> SUFFICES ASSUME NEW k \in Ws PROVE Cardinality(Left(k)') = Cardinality(Left(k)') + 0
    BY <1>3
  <2>1. Left(k)' \in SUBSET DOMAIN imp'.todo /\ imp'.todo \in Seq(Ws)
    BY <1>3 DEF Left, ImpType
  <2> QED
    BY <2>1, IndicesFinite
<1>6. PlanInv'
  BY <1>3, <1>4, <1>5 DEF PlanInv
<1> QED
  BY <1>2, <1>6 DEF ImportInv, ImportAccounted, At

(***************************************************************************)
(* Nothing is made while the plan waits for an answer.                     *)
(***************************************************************************)
LEMMA WaitingImport ==
    ASSUME PlanInv, UNCHANGED imp, At("confirm"), cli'.pc \in {"confirm", "import"}
    PROVE  ImportInv'
<1>1. PlanInv'
  BY DEF PlanInv, ItemsThatSay, Says, Left, At
<1> QED
  BY <1>1 DEF ImportInv, ImportAccounted, At

LEMMA HeadImport ==
    ASSUME PlanInv, imp.todo # <<>>
    PROVE  /\ Head(imp.todo) \in Ws /\ imp.todo \in Seq(Ws) /\ Tail(imp.todo) \in Seq(Ws)
           /\ Len(imp.todo) \in Nat /\ Len(Tail(imp.todo)) = Len(imp.todo) - 1
           /\ \A k \in Ws : Cardinality(Left(k)) \in Nat /\ Cardinality(Says(k)) \in Nat
           /\ \A k \in Ws : IsFiniteSet(Says(k)) /\ Says(k) \in SUBSET Nat
           /\ \A a : IsFiniteSet(ItemsThatSay(a)) /\ Cardinality(ItemsThatSay(a)) \in Nat
           /\ imp'.todo = Tail(imp.todo) =>
                \A k \in Ws : Cardinality(Left(k)) =
                  IF Head(imp.todo) = k THEN Cardinality(Left(k)') + 1 ELSE Cardinality(Left(k)')
           /\ imp'.todo = Tail(imp.todo) => \A k \in Ws : Cardinality(Left(k)') \in Nat
<1>1. /\ imp.todo \in Seq(Ws)
      /\ imp.items \in Seq([key : Ws \cup {Invalid}, action : {"create", "skip", "fail"}])
  BY DEF PlanInv, ImpType
<1>2. /\ Head(imp.todo) \in Ws /\ Tail(imp.todo) \in Seq(Ws)
      /\ Len(imp.todo) \in Nat /\ Len(Tail(imp.todo)) = Len(imp.todo) - 1
  BY <1>1
<1>3. \A k \in Ws : Left(k) \in SUBSET DOMAIN imp.todo /\ Says(k) \in SUBSET DOMAIN imp.items
  BY DEF Left, Says
<1>4. \A a : ItemsThatSay(a) \in SUBSET DOMAIN imp.items
  BY DEF ItemsThatSay
<1>5. ASSUME imp'.todo = Tail(imp.todo), NEW k \in Ws
      PROVE  /\ Cardinality(Left(k)) =
                  IF Head(imp.todo) = k THEN Cardinality(Left(k)') + 1 ELSE Cardinality(Left(k)')
             /\ Cardinality(Left(k)') \in Nat
  <2>1. Left(k)' = {n \in DOMAIN Tail(imp.todo) : Tail(imp.todo)[n] = k}
    BY <1>5 DEF Left
  <2>2. Left(k)' \in SUBSET DOMAIN Tail(imp.todo)
    BY <2>1
  <2> QED
    BY <1>1, <1>2, <2>1, <2>2, TailCount, IndicesFinite DEF Left
<1> QED
  BY <1>1, <1>2, <1>3, <1>4, <1>5, IndicesFinite

LEMMA ImportOneImport ==
    ASSUME Types, PlanInv, ImportOne
    PROVE  ImportInv'
<1> DEFINE w == Head(imp.todo)
<1>1. /\ cli.pc = "import" /\ imp.todo # <<>> /\ UNCHANGED cli
      /\ place[w] = "none" /\ place' = [place EXCEPT ![w] = "active"]
      /\ imp' = [imp EXCEPT !.todo = Tail(@), !.created = @ + 1, !.made = @ \cup {w}]
  BY DEF ImportOne, At, ImportCreates, Created
<1>2. imp \in ImpType
  BY DEF PlanInv
<1>3. imp' = [imp EXCEPT !.todo = Tail(imp.todo), !.created = imp.created + 1,
                         !.made = imp.made \cup {w}]
  BY <1>1, <1>2 DEF ImpType
<1>4. w \in Ws /\ Tail(imp.todo) \in Seq(Ws)
      /\ Len(imp.todo) \in Nat /\ Len(Tail(imp.todo)) = Len(imp.todo) - 1
  BY <1>1, HeadImport
<1> HIDE DEF w
<1>5. /\ imp'.items = imp.items /\ imp'.skipped = imp.skipped /\ imp'.failed = imp.failed
      /\ imp'.todo = Tail(imp.todo) /\ imp'.created = imp.created + 1
      /\ imp'.made = imp.made \cup {w} /\ imp.created \in Nat
  BY <1>2, <1>3 DEF ImpType
<1>6. imp' \in ImpType
  <2> DEFINE t == Tail(imp.todo)
             c == imp.created + 1
             m == imp.made \cup {w}
  <2>1. t \in Seq(Ws) /\ c \in Nat /\ m \in SUBSET Ws
    BY <1>2, <1>4, <1>5 DEF ImpType
  <2>2. imp' = [imp EXCEPT !.todo = t, !.created = c, !.made = m]
    BY <1>3
  <2> HIDE DEF t, c, m
  <2> QED
    BY <1>2, <2>1, <2>2 DEF ImpType
<1>7. /\ \A a : ItemsThatSay(a)' = ItemsThatSay(a)
      /\ \A k \in Ws : Says(k)' = Says(k)
  BY <1>5 DEF ItemsThatSay, Says
<1>8. imp'.created + Len(imp'.todo) = imp.created + Len(imp.todo)
  BY <1>4, <1>5
<1>9. w \notin imp.made
  BY <1>1, <1>4 DEF PlanInv
<1>10. ASSUME NEW k \in Ws
       PROVE  Cardinality(Says(k)') =
                Cardinality(Left(k)') + (IF k \in imp'.made THEN 1 ELSE 0)
  <2> DEFINE s == Cardinality(Says(k)')
             l == Cardinality(Left(k))
             m == Cardinality(Left(k)')
  <2>1. s = l + (IF k \in imp.made THEN 1 ELSE 0)
    BY <1>1, <1>7 DEF PlanInv
  <2>2. l \in Nat /\ m \in Nat /\ l = IF w = k THEN m + 1 ELSE m
    BY <1>1, <1>5, HeadImport DEF w
  <2>3. k \in imp'.made <=> k \in imp.made \/ k = w
    BY <1>5
  <2> HIDE DEF s, l, m
  <2>4. s = m + (IF k \in imp'.made THEN 1 ELSE 0)
    BY <1>9, <2>1, <2>2, <2>3
  <2> QED
    BY <2>4 DEF s, m
<1>11. \A k \in imp'.made : place'[k] # "none"
  <2>1. imp'.made \in SUBSET Ws
    BY <1>6 DEF ImpType
  <2>2. \A k \in imp.made : place[k] # "none"
    BY <1>1 DEF PlanInv
  <2> QED
    BY <1>1, <1>5, <2>1, <2>2 DEF Types
<1>12. PlanInv'
  BY <1>1, <1>5, <1>6, <1>7, <1>8, <1>10, <1>11 DEF PlanInv
<1> QED
  BY <1>1, <1>12 DEF ImportInv, ImportAccounted, At

(***************************************************************************)
(* An item that says create is marked: one for each creation to come.      *)
(***************************************************************************)
LEMMA ImportFailsImport ==
    ASSUME PlanInv, ImportOneFails
    PROVE  ImportInv'
<1>0. PICK w : w = Head(imp.todo)
  OBVIOUS
<1> DEFINE create == [key |-> w, action |-> "create"]
           first == CHOOSE n \in Says(w) : \A m \in Says(w) : n <= m
<1>1. /\ cli.pc = "import" /\ imp.todo # <<>> /\ UNCHANGED <<cli, place>>
      /\ imp' = [imp EXCEPT !.todo = Tail(@), !.failed = @ + 1,
                            !.items = markWSImportJiraCreateItemAsFailed(@, w)]
  BY <1>0 DEF ImportOneFails, At, ImportCannotCreate, stateVars
<1>2. imp \in ImpType
  BY DEF PlanInv
<1>3. /\ w \in Ws /\ Tail(imp.todo) \in Seq(Ws) /\ Len(imp.todo) \in Nat
      /\ Len(Tail(imp.todo)) = Len(imp.todo) - 1
      /\ imp.todo \in Seq(Ws)
  BY <1>0, <1>1, HeadImport
<1>4. Says(w) # {}
  <2>1. 1 \in Left(w)
    BY <1>0, <1>1, <1>3 DEF Left
  <2>2. IsFiniteSet(Left(w)) /\ Cardinality(Left(w)) \in Nat
    <3>1. Left(w) \in SUBSET DOMAIN imp.todo
      BY DEF Left
    <3> QED
      BY <1>3, <3>1, IndicesFinite
  <2>3. Cardinality(Left(w)) # 0
    BY <2>1, <2>2, FS_EmptySet
  <2>4. Cardinality(Says(w)) = Cardinality(Left(w)) + (IF w \in imp.made THEN 1 ELSE 0)
    BY <1>1, <1>3 DEF PlanInv
  <2>5. Cardinality(Says(w)) # 0
    BY <2>2, <2>3, <2>4
  <2> QED
    BY <2>5, FS_EmptySet
<1>5. first \in Says(w)
  <2>1. \E n \in Says(w) : \A m \in Says(w) : n <= m
    BY <1>1, <1>3, <1>4, HeadImport, FirstExists
  <2> QED
    BY <2>1
<1>6. first \in DOMAIN imp.items /\ imp.items[first] = create
  BY <1>5 DEF Says
<1>7. markWSImportJiraCreateItemAsFailed(imp.items, w)
        = [imp.items EXCEPT ![first] = [key |-> w, action |-> "fail"]]
  <2>1. markWSImportJiraCreateItemAsFailed(imp.items, w)
          = [imp.items EXCEPT ![first].action = "fail"]
    BY <1>4 DEF markWSImportJiraCreateItemAsFailed, Says
  <2>2. [imp.items[first] EXCEPT !.action = "fail"] = [key |-> w, action |-> "fail"]
    BY <1>6
  <2> QED
    BY <2>1, <2>2
<1> DEFINE items == [imp.items EXCEPT ![first] = [key |-> w, action |-> "fail"]]
           It == [key : Ws \cup {Invalid}, action : {"create", "skip", "fail"}]
<1>8. imp' = [imp EXCEPT !.todo = Tail(imp.todo), !.failed = imp.failed + 1, !.items = items]
  BY <1>1, <1>2, <1>7 DEF ImpType
<1> HIDE DEF first
<1>9. items \in Seq(It)
  <2>1. imp.items \in Seq(It) /\ [key |-> w, action |-> "fail"] \in It
    BY <1>2, <1>3 DEF ImpType
  <2> QED
    BY <1>6, <2>1
<1>10. /\ DOMAIN items = DOMAIN imp.items /\ items[first] = [key |-> w, action |-> "fail"]
       /\ \A n \in DOMAIN imp.items : n # first => items[n] = imp.items[n]
  BY <1>6
<1> HIDE DEF items
<1>11. /\ imp'.items = items /\ imp'.skipped = imp.skipped /\ imp'.failed = imp.failed + 1
       /\ imp'.todo = Tail(imp.todo) /\ imp'.created = imp.created /\ imp'.made = imp.made
       /\ imp.created \in Nat /\ imp.failed \in Nat
  BY <1>2, <1>8 DEF ImpType
<1>12. imp' \in ImpType
  <2> DEFINE t == Tail(imp.todo)
             f == imp.failed + 1
  <2>1. t \in Seq(Ws) /\ f \in Nat
    BY <1>3, <1>11
  <2>2. imp' = [imp EXCEPT !.todo = t, !.failed = f, !.items = items]
    BY <1>8
  <2> HIDE DEF t, f
  <2> QED
    BY <1>2, <1>9, <2>1, <2>2 DEF ImpType
<1>13. /\ ItemsThatSay("create")' = ItemsThatSay("create") \ {first}
       /\ ItemsThatSay("skip")' = ItemsThatSay("skip")
       /\ ItemsThatSay("fail")' = ItemsThatSay("fail") \cup {first}
  BY <1>6, <1>10, <1>11 DEF ItemsThatSay
<1>14. first \in ItemsThatSay("create") /\ first \notin ItemsThatSay("fail")
  BY <1>6 DEF ItemsThatSay
<1>15. /\ Says(w)' = Says(w) \ {first}
       /\ \A k \in Ws : k # w => Says(k)' = Says(k)
  <2> SUFFICES ASSUME NEW k \in Ws
               PROVE  Says(k)' = IF k = w THEN Says(k) \ {first} ELSE Says(k)
    BY <1>3
  <2>1. [key |-> w, action |-> "fail"] # [key |-> k, action |-> "create"]
    OBVIOUS
  <2>2. create = [key |-> k, action |-> "create"] <=> k = w
    OBVIOUS
  <2>3. \A n \in DOMAIN imp.items : n # first => (n \in Says(k)' <=> n \in Says(k))
    BY <1>10, <1>11 DEF Says
  <2>4. first \notin Says(k)' /\ (first \in Says(k) <=> k = w)
    BY <1>6, <1>10, <1>11, <2>1, <2>2 DEF Says
  <2>5. Says(k) \subseteq DOMAIN imp.items /\ Says(k)' \subseteq DOMAIN imp.items
    BY <1>10, <1>11 DEF Says
  <2> QED
    BY <2>3, <2>4, <2>5
<1>16. imp'.failed = Cardinality(ItemsThatSay("fail")')
  <2>1. Cardinality(ItemsThatSay("fail") \cup {first}) = Cardinality(ItemsThatSay("fail")) + 1
    BY <1>1, <1>14, HeadImport, FS_AddElement
  <2>2. imp.failed = Cardinality(ItemsThatSay("fail"))
    BY <1>1 DEF PlanInv
  <2> QED
    BY <1>11, <1>13, <2>1, <2>2
<1>17. imp'.created + Len(imp'.todo) = Cardinality(ItemsThatSay("create")')
  <2> DEFINE c == Cardinality(ItemsThatSay("create"))
             d == Cardinality(ItemsThatSay("create")')
             l == Len(imp.todo)
  <2>1. c \in Nat
    BY <1>1, HeadImport
  <2>2. Cardinality(ItemsThatSay("create") \ {first}) = Cardinality(ItemsThatSay("create")) - 1
    BY <1>1, <1>14, HeadImport, FS_RemoveElement
  <2>3. d = c - 1
    BY <1>13, <2>2
  <2>4. imp.created + l = c
    BY <1>1 DEF PlanInv
  <2>5. Len(imp'.todo) = l - 1 /\ l \in Nat
    BY <1>3, <1>11
  <2> HIDE DEF c, d, l
  <2>6. imp'.created + Len(imp'.todo) = d
    BY <1>11, <2>1, <2>3, <2>4, <2>5
  <2> QED
    BY <2>6 DEF d
<1>18. ASSUME NEW k \in Ws
       PROVE  Cardinality(Says(k)') =
                Cardinality(Left(k)') + (IF k \in imp'.made THEN 1 ELSE 0)
  <2> DEFINE s == Cardinality(Says(k))
             t == Cardinality(Says(k)')
             l == Cardinality(Left(k))
             m == Cardinality(Left(k)')
             b == IF k \in imp.made THEN 1 ELSE 0
  <2>1. s = l + b /\ s \in Nat /\ b \in Nat
    BY <1>1, HeadImport DEF PlanInv
  <2>2. l \in Nat /\ m \in Nat /\ l = IF w = k THEN m + 1 ELSE m
    BY <1>0, <1>1, <1>11, HeadImport
  <2>3. t = IF w = k THEN s - 1 ELSE s
    <3>1. CASE w = k
      <4>1. IsFiniteSet(Says(w))
        BY <1>1, <1>3, HeadImport
      <4>2. Cardinality(Says(w) \ {first}) = Cardinality(Says(w)) - 1
        BY <1>5, <4>1, FS_RemoveElement
      <4> QED
        BY <1>15, <3>1, <4>2
    <3>2. CASE w # k
      BY <1>15, <3>2
    <3> QED
      BY <3>1, <3>2
  <2> HIDE DEF s, t, l, m, b
  <2>4. t = m + b
    BY <2>1, <2>2, <2>3
  <2> QED
    BY <1>11, <2>4 DEF t, m, b
<1>19. \A n \in ItemsThatSay("create")' : imp'.items[n].key \in Ws
  <2> SUFFICES ASSUME NEW n \in ItemsThatSay("create") \ {first} PROVE imp'.items[n].key \in Ws
    BY <1>13
  <2>1. n \in DOMAIN imp.items /\ imp.items[n].key \in Ws
    BY DEF PlanInv, ItemsThatSay
  <2> QED
    BY <1>10, <1>11, <2>1
<1>20. imp'.skipped = Cardinality(ItemsThatSay("skip")')
  BY <1>1, <1>11, <1>13 DEF PlanInv
<1>21. \A k \in imp'.made : place'[k] # "none"
  BY <1>1, <1>11 DEF PlanInv
<1>22. PlanInv'
  BY <1>1, <1>12, <1>16, <1>17, <1>18, <1>19, <1>20, <1>21 DEF PlanInv
<1> QED
  BY <1>1, <1>22 DEF ImportInv, ImportAccounted, At

LEMMA ImportDoneImport ==
    ASSUME cli \in CliType, PlanInv, ImportDone
    PROVE  ImportInv' /\ CliOk' /\ cli'.pc = "shown"
<1>1. /\ cli.pc = "import" /\ imp.todo = <<>> /\ Goto("shown")
      /\ imp' = [imp EXCEPT !.toCreate = imp.created]
  BY DEF ImportDone, ImportSummary, At
<1>2. CliOk' /\ cli'.pc = "shown"
  <2>1. "shown" \in PC \ {"baseline", "cache"}
    BY DEF PC
  <2> QED
    BY <1>1, <2>1, GotoType DEF Goto, CliType
<1>3. imp \in ImpType /\ imp.created \in Nat
  BY DEF PlanInv, ImpType
<1>4. /\ imp'.items = imp.items /\ imp'.toCreate = imp.created /\ imp'.skipped = imp.skipped
      /\ imp'.failed = imp.failed /\ imp'.made = imp.made
  BY <1>1, <1>3 DEF ImpType
<1>5. imp' \in ImpType
  BY <1>1, <1>3 DEF ImpType
<1>6. \A a : ItemsThatSay(a)' = ItemsThatSay(a)
  BY <1>4 DEF ItemsThatSay
<1>7. imp'.toCreate = Cardinality(ItemsThatSay("create")')
  <2>1. imp.created + 0 = Cardinality(ItemsThatSay("create"))
    BY <1>1 DEF PlanInv
  <2> QED
    BY <1>3, <1>4, <1>6, <2>1
<1>8. \A k \in Ws : k \in imp.made <=> Says(k) # {}
  <2> SUFFICES ASSUME NEW k \in Ws PROVE k \in imp.made <=> Says(k) # {}
    OBVIOUS
  <2>1. Left(k) = {}
    BY <1>1 DEF Left
  <2>2. Cardinality(Left(k)) = 0
    BY <2>1, FS_EmptySet
  <2>3. Cardinality(Says(k)) = 0 + (IF k \in imp.made THEN 1 ELSE 0)
    BY <1>1, <2>2 DEF PlanInv
  <2>4. IsFiniteSet(Says(k))
    <3>1. Says(k) \in SUBSET DOMAIN imp.items
      BY DEF Says
    <3> QED
      BY <1>3, <3>1, IndicesFinite DEF ImpType
  <2>5. Cardinality(Says(k)) = 0 <=> k \notin imp.made
    BY <2>3
  <2> QED
    BY <2>4, <2>5, FS_EmptySet
<1>9. imp.made = {imp.items[n].key : n \in ItemsThatSay("create")}
  <2>1. imp.made \subseteq Ws /\ \A n \in ItemsThatSay("create") : imp.items[n].key \in Ws
    BY <1>3 DEF PlanInv, ImpType
  <2>2. \A k \in Ws, n \in DOMAIN imp.items :
          imp.items[n] = [key |-> k, action |-> "create"]
            <=> n \in ItemsThatSay("create") /\ imp.items[n].key = k
    <3>1. \A n \in DOMAIN imp.items :
            imp.items[n] \in [key : Ws \cup {Invalid}, action : {"create", "skip", "fail"}]
      <4> DEFINE It == [key : Ws \cup {Invalid}, action : {"create", "skip", "fail"}]
      <4>1. imp.items \in Seq(It)
        BY <1>3 DEF ImpType
      <4> HIDE DEF It
      <4>2. \A n \in DOMAIN imp.items : imp.items[n] \in It
        BY <4>1
      <4> QED
        BY <4>2 DEF It
    <3>2. \A n \in DOMAIN imp.items :
            imp.items[n] = [key |-> imp.items[n].key, action |-> imp.items[n].action]
      BY <3>1
    <3>3. \A k \in Ws, n \in DOMAIN imp.items :
            imp.items[n] = [key |-> k, action |-> "create"]
              <=> imp.items[n].action = "create" /\ imp.items[n].key = k
      BY <3>2
    <3> QED
      BY <3>3 DEF ItemsThatSay
  <2>3. \A k \in Ws : Says(k) # {} <=> \E n \in ItemsThatSay("create") : imp.items[n].key = k
    BY <2>2 DEF Says, ItemsThatSay
  <2> QED
    BY <1>8, <2>1, <2>3
<1>10. ReportAddsUp'
  <2>1. /\ imp.skipped = Cardinality(ItemsThatSay("skip"))
        /\ imp.failed = Cardinality(ItemsThatSay("fail"))
    BY <1>1 DEF PlanInv
  <2> QED
    BY <1>4, <1>6, <1>7, <1>9, <2>1 DEF ReportAddsUp
<1>11. PlanInv'
  BY <1>2, <1>4, <1>5, <1>6 DEF PlanInv
<1> QED
  BY <1>2, <1>10, <1>11 DEF ImportInv, ImportAccounted

-----------------------------------------------------------------------------
(***************************************************************************)
(* The invariant                                                           *)
(***************************************************************************)
LEMMA InitTrackInv ==
    ASSUME Init
    PROVE  TrackInv
<1> USE DEF Init
<1>1. Types
  BY NoFilesType, NoBaselineType, IdleType DEF Types
<1>2. \A w \in Ws : baseline[w] = NoBaseline /\ place[w] = "none"
  OBVIOUS
<1>3. BaselineInv
  BY <1>2 DEF BaselineInv, BaselineOf
<1>4. NewLifeInv /\ TouchedInv /\ StartedInv /\ CacheInv /\ ListInv /\ RowsInv /\ OneRowInv
  BY IdleType DEF NewLifeInv, TouchedInv, StartedInv, CacheInv, ListInv,
         RowsInv, OneRowInv
<1>5. CursorInv /\ sel.marked = {}
  BY DEF Closed, CursorInv, SelType
<1>6. MarksInv /\ ChoiceInv
  BY <1>5, IdleType DEF MarksInv, ChoiceInv, Selecting, At
<1>7. imp \in ImpType /\ imp.items = <<>>
  BY DEF NoImport, ImpType
<1>8. PlanInv /\ ImportAccounted
  BY <1>7, IdleType DEF PlanInv, ItemsThatSay, ImportAccounted, At
<1> QED
  BY <1>1, <1>3, <1>4, <1>5, <1>6, <1>8 DEF TrackInv, WorkInv, ChosenInv,
         ImportInv

(***************************************************************************)
(* The steps back to the prompt, from where no bookkeeping is under way.   *)
(***************************************************************************)
LEMMA ReturnTrack ==
    ASSUME TrackInv, Return, UNCHANGED <<stateVars, history>>, cli.pc \notin {"baseline", "cache"}
    PROVE  TrackInv'
<1>1. CliOk' /\ cli'.pc = "idle"
  BY IdleType DEF Return, CliOk
<1>2. WorkInv'
  BY <1>1, NeutralWork DEF TrackInv
<1>3. ChosenInv' /\ ImportInv'
  BY ReturnChosen, ReturnImport DEF TrackInv, ImportInv
<1> QED
  BY <1>2, <1>3 DEF TrackInv

LEMMA SprintsType == Sprints \in Seq(Item)
<1>1. Sprints \in Seq({Sprints[n] : n \in DOMAIN Sprints})
  BY TrackingAssumption
<1>2. {Sprints[n] : n \in DOMAIN Sprints} \subseteq Item
  BY DEF Item
<1> DEFINE S == {Sprints[n] : n \in DOMAIN Sprints}
<1> HIDE DEF S, Item
<1>3. S \subseteq Item /\ Sprints \in Seq(S)
  BY <1>1, <1>2 DEF S
<1> QED
  BY <1>3

LEMMA StartImportTrack ==
    ASSUME TrackInv, StartImport
    PROVE  TrackInv'
<1>1. cli.pc = "idle" /\ UNCHANGED <<stateVars, imp, history>>
  BY DEF StartImport, At
<1>2. CASE cli' = [Idle EXCEPT !.pc = "search", !.op = "import"] /\ UNCHANGED sel
  <2>1. cli' \in CliType /\ cli'.pc = "search"
    BY <1>2, IdleType DEF CliType, PC
  <2>2. WorkInv'
    BY <1>1, <2>1, NeutralWork DEF TrackInv, CliOk
  <2>3. CursorInv'
    BY <1>2 DEF TrackInv, ChosenInv, CursorInv, VisibleCount
  <2>4. ChosenInv' /\ ImportInv'
    BY <1>1, <2>1, <2>3, AwayChosen, ImportAway DEF TrackInv, ImportInv
  <2> QED
    BY <2>2, <2>4 DEF TrackInv
<1>3. CASE /\ cli' = [Idle EXCEPT !.pc = "sprint", !.op = "import"]
           /\ sel' = newWorkspaceSelectorModel(Sprints, TRUE)
  <2>1. cli' \in CliType /\ cli'.pc = "sprint"
    BY <1>3, IdleType DEF CliType, PC
  <2>2. WorkInv'
    BY <1>1, <2>1, NeutralWork DEF TrackInv, CliOk
  <2>3. /\ CursorInv' /\ sel'.single /\ sel'.phase = "open"
        /\ sel'.selected = {} /\ sel'.marked = {}
    BY <1>3, SprintsType, OpenedCursor
  <2>4. MarksInv'
    BY <2>3 DEF MarksInv
  <2>5. ChoiceInv'
    BY <2>1, <2>3 DEF ChoiceInv, At
  <2>6. ImportInv'
    BY <1>1, <2>1, ImportAway DEF TrackInv, ImportInv
  <2> QED
    BY <2>2, <2>3, <2>4, <2>5, <2>6 DEF TrackInv, ChosenInv
<1> QED
  BY <1>2, <1>3 DEF StartImport

LEMMA ListingTrack ==
    ASSUME TrackInv, StartList \/ StartMulti \/ StartSelect
    PROVE  TrackInv'
<1>1. /\ WorkInv /\ Types /\ cache \in SUBSET Ws /\ At("idle")
      /\ UNCHANGED <<stateVars, sel, imp, history>>
  BY DEF TrackInv, WorkInv, Types, StartList, StartMulti, StartSelect
<1>2. PICK op \in {"list", "multi", "select"}, act \in Item, scope \in {"active", "archived"} :
        listRows(op, act, scope) /\ (op = "multi" => act # "none")
  BY <1>1, ListStarts
<1>3. WorkInv'
  BY <1>1, <1>2, ListWork
<1>4. cli'.pc = "inspect" /\ cli'.attempted = <<>> /\ cli'.act = act /\ cli'.op = op
  BY <1>1, <1>2, ListRows
<1>5. ChosenInv'
  BY <1>1, <1>2, <1>4, ListingChosen DEF TrackInv
<1>6. ImportInv'
  BY <1>1, <1>4, ImportAway DEF TrackInv, ImportInv
<1> QED
  BY <1>3, <1>5, <1>6 DEF TrackInv

LEMMA RowTrack ==
    ASSUME TrackInv, Inspect \/ InspectFails
    PROVE  TrackInv'
<1>1. cli \in CliType /\ cli.pc = "inspect" /\ cli.todo # <<>> /\ UNCHANGED <<sel, imp>>
  BY DEF TrackInv, WorkInv, Types, Inspect, InspectFails, At
<1>2. CurrentWs \in Ws
  BY <1>1, HeadTodo
<1>3. \E state \in {"todo", "in-progress"} : cli' = Row(CurrentWs, state)
  BY <1>2, DeriveType DEF Inspect, InspectFails
<1>4. /\ cli'.pc = "inspect" /\ cli'.attempted = cli.attempted
      /\ cli'.act = cli.act /\ cli'.op = cli.op
  BY <1>1, <1>3, RowStep
<1>5. WorkInv'
  BY InspectWork, InspectFailsWork DEF TrackInv
<1>6. /\ cli.attempted = <<>> /\ cli.op \in {"list", "multi", "select"}
      /\ cli.op = "multi" => cli.act # "none"
  BY <1>1 DEF TrackInv, ChosenInv, ChoiceInv
<1>7. ChosenInv'
  BY <1>1, <1>4, <1>6, ListingChosen DEF TrackInv
<1>8. ImportInv'
  BY <1>1, <1>4, ImportAway DEF TrackInv, ImportInv
<1> QED
  BY <1>5, <1>7, <1>8 DEF TrackInv

LEMMA SaveCacheTrack ==
    ASSUME TrackInv, SaveCache
    PROVE  TrackInv'
<1>1. /\ cli \in CliType /\ cli.pc = "inspect" /\ UNCHANGED <<sel, imp>>
      /\ cli' = [cli EXCEPT !.pc = "show", !.rows = Sorted(@)]
  BY DEF TrackInv, WorkInv, Types, SaveCache, At
<1>2. /\ cli'.pc = "show" /\ cli'.attempted = cli.attempted
      /\ cli'.act = cli.act /\ cli'.op = cli.op
  BY <1>1 DEF CliType
<1>3. /\ cli.attempted = <<>> /\ cli.op \in {"list", "multi", "select"}
      /\ cli.op = "multi" => cli.act # "none"
  BY <1>1 DEF TrackInv, ChosenInv, ChoiceInv
<1>4. WorkInv' /\ ChosenInv'
  BY <1>1, <1>2, <1>3, SaveCacheWork, ListingChosen DEF TrackInv
<1>5. ImportInv'
  BY <1>1, <1>2, ImportAway DEF TrackInv, ImportInv
<1> QED
  BY <1>4, <1>5 DEF TrackInv

LEMMA ShowTrack ==
    ASSUME TrackInv, Show
    PROVE  TrackInv'
<1>1. WorkInv' /\ ChosenInv'
  BY ShowWork, ShowChosen DEF TrackInv
<1>2. cli'.pc \in {"idle", "select"} /\ (imp' = imp \/ imp' = NoImport)
  BY IdleType DEF TrackInv, WorkInv, Types, Show, Return, OpenSelector, Goto,
         CliType
<1>3. ImportInv'
  BY <1>2, ImportAway DEF TrackInv, ImportInv
<1> QED
  BY <1>1, <1>3 DEF TrackInv

LEMMA KeyTrack ==
    ASSUME TrackInv, UserKey \/ SelectorConfirmed
    PROVE  TrackInv'
<1>1. UNCHANGED <<stateVars, imp, cli, history>> /\ cli.pc \in {"select", "choose", "sprint"}
  BY DEF UserKey, SelectorConfirmed, Selecting
<1>2. CliOk'
  BY <1>1 DEF TrackInv, WorkInv, Types, CliOk
<1>3. WorkInv'
  BY <1>1, <1>2, NeutralWork DEF TrackInv
<1>4. ChosenInv' /\ ImportInv'
  BY <1>1, UserKeyChosen, ImportAway DEF TrackInv, ImportInv
<1> QED
  BY <1>3, <1>4 DEF TrackInv

LEMMA ChoiceTrack ==
    ASSUME TrackInv, Selected \/ ActionChosen
    PROVE  TrackInv'
<1>1. UNCHANGED <<stateVars, imp, history>> /\ cli.pc \in {"select", "choose"}
  BY DEF Selected, ActionChosen, At
<1>2. ChosenInv' /\ CliOk' /\ cli'.pc \in {"act", "choose"}
  BY SelectedChosen, ActionChosenChosen DEF TrackInv
<1>3. WorkInv'
  BY <1>1, <1>2, NeutralWork DEF TrackInv
<1>4. ImportInv'
  BY <1>1, <1>2, ImportAway DEF TrackInv, ImportInv
<1> QED
  BY <1>2, <1>3, <1>4 DEF TrackInv

LEMMA SprintTrack ==
    ASSUME TrackInv, SprintChosen
    PROVE  TrackInv'
<1>1. /\ UNCHANGED <<stateVars, imp, history>> /\ cli.pc = "sprint" /\ Goto("search")
      /\ sel' = Closed /\ cli \in CliType
  BY DEF SprintChosen, At, TrackInv, WorkInv, Types
<1>2. CliOk' /\ cli'.pc = "search"
  <2>1. "search" \in PC \ {"baseline", "cache"}
    BY DEF PC
  <2> QED
    BY <1>1, <2>1, GotoType DEF Goto, CliType
<1>3. WorkInv'
  BY <1>1, <1>2, NeutralWork DEF TrackInv
<1>4. ChosenInv' /\ ImportInv'
  BY <1>1, <1>2, ClosedCursor, AwayChosen, ImportAway DEF TrackInv, ImportInv
<1> QED
  BY <1>3, <1>4 DEF TrackInv

LEMMA ActTrack ==
    ASSUME TrackInv, Act \/ ActWithoutEffect \/ CloseFailsHalfway
    PROVE  TrackInv'
<1>1. cli \in CliType /\ At("act") /\ cli.pc = "act" /\ cli.todo # <<>> /\ UNCHANGED <<sel, imp>>
  BY DEF TrackInv, WorkInv, Types, Act, ActWithoutEffect, CloseFailsHalfway, At
<1>2. \/ cli' = [Attempted EXCEPT !.pc = "baseline"]
      \/ cli' = [Attempted EXCEPT !.todo = Tail(@)]
  BY DEF Act, ActWithoutEffect, CloseFailsHalfway
<1>3. /\ cli' \in CliType /\ cli'.attempted = Append(cli.attempted, CurrentWs)
      /\ \/ cli'.pc = "baseline" /\ cli'.todo = cli.todo
         \/ cli'.pc = "act" /\ cli'.todo = Tail(cli.todo)
  BY <1>1, <1>2, AttemptedType
<1>4. WorkInv'
  <2>1. CASE ActWithoutEffect
    <3>1. UNCHANGED <<stateVars, history>> /\ cli'.pc = "act" /\ CliOk'
      BY <1>1, <2>1, AttemptedType DEF ActWithoutEffect, CliOk
    <3> QED
      BY <1>1, <3>1, NeutralWork DEF TrackInv
  <2> QED
    BY <2>1, ActWork, CloseFailsHalfwayWork DEF TrackInv
<1>5. ChosenInv'
  BY <1>1, <1>3, TriedChosen DEF TrackInv
<1>6. ImportInv'
  BY <1>1, <1>3, ImportAway DEF TrackInv, ImportInv
<1> QED
  BY <1>4, <1>5, <1>6 DEF TrackInv

LEMMA BookkeepingTrack ==
    ASSUME TrackInv, WriteBaseline \/ ClearCache \/ BookkeepingFails
    PROVE  TrackInv'
<1>1. /\ cli \in CliType /\ cli.pc \in {"baseline", "cache"} /\ cli.todo # <<>>
      /\ UNCHANGED <<sel, imp>>
  BY DEF TrackInv, WorkInv, Types, WriteBaseline, ClearCache, BookkeepingFails,
         At
<1>2. /\ cli'.attempted = cli.attempted
      /\ \/ cli'.pc = "cache" /\ cli'.todo = cli.todo
         \/ cli'.pc = "act" /\ cli'.todo = Tail(cli.todo)
  <2>1. CASE WriteBaseline
    BY <1>1, <2>1 DEF WriteBaseline, Goto, CliType
  <2>2. CASE cli' = NextWs
    BY <1>1, <2>2, NextWsType
  <2> QED
    BY <2>1, <2>2 DEF ClearCache, BookkeepingFails
<1>3. WorkInv'
  BY WriteBaselineWork, ClearCacheWork, BookkeepingFailsWork DEF TrackInv
<1>4. ChosenInv'
  BY <1>1, <1>2, BookkeepingChosen DEF TrackInv
<1>5. ImportInv'
  BY <1>1, <1>2, ImportAway DEF TrackInv, ImportInv
<1> QED
  BY <1>3, <1>4, <1>5 DEF TrackInv

LEMMA CreateTrack ==
    ASSUME TrackInv, NEW w \in Ws, Create(w)
    PROVE  TrackInv'
<1>1. cli'.pc = "baseline" /\ UNCHANGED imp
  BY DEF Create, Idle
<1> QED
  BY <1>1, CreateWork, CreateChosen, ImportAway DEF TrackInv, ImportInv

LEMMA ElsewhereTrack ==
    ASSUME TrackInv, NEW w \in Ws, NEW act, Elsewhere(w, act)
    PROVE  TrackInv'
<1>1. cli.pc \in Prompts /\ UNCHANGED <<sel, imp, cli>>
  BY DEF Elsewhere
<1>2. ImportInv'
  <2>1. CASE cli.pc = "confirm"
    BY <1>1, <2>1, WaitingImport DEF TrackInv, ImportInv, At
  <2>2. CASE cli.pc # "confirm"
    BY <1>1, <2>2, ImportAway DEF TrackInv, ImportInv, Prompts
  <2> QED
    BY <2>1, <2>2
<1> QED
  BY <1>1, <1>2, ElsewhereWork, SameChosen DEF TrackInv

LEMMA UserEditTrack ==
    ASSUME TrackInv, NEW w \in Ws, UserEdit(w)
    PROVE  TrackInv'
<1>1. cli.pc \in Reads /\ UNCHANGED <<sel, imp, cli>>
  BY DEF UserEdit
<1>2. ImportInv'
  BY <1>1, ImportAway DEF TrackInv, ImportInv, Reads
<1> QED
  BY <1>1, <1>2, UserEditWork, SameChosen DEF TrackInv

LEMMA PlanTrack ==
    ASSUME TrackInv, Search \/ ConfirmImport \/ ImportDone
    PROVE  TrackInv'
<1>1. /\ cli \in CliType /\ cli.pc \in {"search", "confirm", "import"}
      /\ UNCHANGED <<stateVars, sel, history>>
  BY DEF TrackInv, WorkInv, Types, Search, ConfirmImport, ImportDone, At
<1>2. ImportInv' /\ CliOk' /\ cli'.pc \in {"confirm", "import", "shown"}
  <2>1. CASE ConfirmImport
    <3>1. /\ "import" \in PC \ {"baseline", "cache"} /\ Goto("import")
          /\ At("confirm") /\ UNCHANGED imp
      BY <2>1 DEF PC, ConfirmImport
    <3>2. CliOk' /\ cli'.pc = "import"
      BY <1>1, <3>1, GotoType DEF Goto, CliType
    <3> QED
      BY <3>1, <3>2, WaitingImport DEF TrackInv, ImportInv
  <2> QED
    BY <1>1, <2>1, SearchImport, ImportDoneImport DEF TrackInv, ImportInv
<1>3. WorkInv'
  BY <1>1, <1>2, NeutralWork DEF TrackInv
<1>4. CursorInv'
  BY <1>1 DEF TrackInv, ChosenInv, CursorInv, VisibleCount
<1>5. ChosenInv'
  BY <1>2, <1>4, AwayChosen
<1> QED
  BY <1>2, <1>3, <1>5 DEF TrackInv

LEMMA ImportTrack ==
    ASSUME TrackInv, ImportOne \/ ImportOneFails
    PROVE  TrackInv'
<1>1. UNCHANGED <<sel, cli>> /\ cli.pc = "import"
  BY DEF ImportOne, ImportOneFails, At
<1>2. ImportInv'
  BY ImportOneImport, ImportFailsImport DEF TrackInv, WorkInv, ImportInv
<1>3. WorkInv'
  <2>1. CASE ImportOneFails
    <3>1. UNCHANGED <<stateVars, history>> /\ CliOk'
      BY <1>1, <2>1 DEF ImportOneFails, ImportCannotCreate, TrackInv, WorkInv,
             Types, CliOk
    <3> QED
      BY <1>1, <3>1, NeutralWork DEF TrackInv
  <2> QED
    BY <2>1, ImportOneWork DEF TrackInv, ImportInv
<1> QED
  BY <1>1, <1>2, <1>3, SameChosen DEF TrackInv

LEMMA NextTrackInv ==
    ASSUME TrackInv, [Next]_vars
    PROVE  TrackInv'
<1>1. CASE Work
  <2>1. CASE ListFails \/ SelectAborts \/ ActsDone \/ SearchEnds \/ ImportReturns
    BY <2>1, ReturnTrack DEF ListFails, SelectAborts, ActsDone, SearchEnds,
           ImportReturns,
       At, Selecting
  <2> QED
    BY <1>1, <2>1, RowTrack, SaveCacheTrack, ShowTrack, KeyTrack, ChoiceTrack,
       SprintTrack,
       ActTrack, BookkeepingTrack, PlanTrack, ImportTrack DEF Work
<1>2. CASE Command
  BY <1>2, ListingTrack, StartImportTrack, CreateTrack DEF Command
<1>3. CASE User
  <2>1. CASE DeclineImport
    BY <2>1, ReturnTrack DEF DeclineImport, At
  <2> QED
    BY <1>3, <2>1, KeyTrack, PlanTrack, UserEditTrack DEF User
<1>4. CASE OtherTerminal
  BY <1>4, ElsewhereTrack DEF OtherTerminal
<1>5. CASE Crash
  <2>1. WorkInv' /\ Return
    BY <1>5, CrashWork DEF TrackInv, Crash
  <2> QED
    BY <2>1, ReturnChosen, ReturnImport DEF TrackInv, ImportInv
<1>6. CASE UNCHANGED vars
  <2>1. UNCHANGED <<place, fs, repos, baseline, cache, sel, imp, cli, started, touched, troubled>>
    BY <1>6 DEF vars, stateVars, history
  <2>2. WorkInv'
    <3>1. Types' /\ NewLifeInv' /\ TouchedInv' /\ StartedInv' /\ CacheInv'
      BY <2>1 DEF TrackInv, WorkInv, Types, NewLifeInv, TouchedInv, StartedInv,
             CacheInv,
         Pending, Excused, CurrentWs
    <3>2. ListInv' /\ RowsInv' /\ OneRowInv'
      BY <2>1 DEF TrackInv, WorkInv, ListInv, RowsInv, OneRowInv, Excused
    <3>3. ASSUME NEW w \in Ws, Settled(w)'
          PROVE  BaselineOf(w)'
      <4>1. Settled(w)
        BY <2>1, <3>3 DEF Settled, CurrentWs
      <4> QED
        BY <2>1, <4>1, BaselineFrame DEF TrackInv, WorkInv
    <3> QED
      BY <3>1, <3>2, <3>3 DEF WorkInv, BaselineInv
  <2>3. ChosenInv'
    BY <2>1, SameChosen DEF TrackInv
  <2>4. ImportInv'
    BY <2>1 DEF TrackInv, ImportInv, PlanInv, ItemsThatSay, Says, Left,
           ImportAccounted,
       ReportAddsUp, At
  <2> QED
    BY <2>2, <2>3, <2>4 DEF TrackInv
<1> QED
  BY <1>1, <1>2, <1>3, <1>4, <1>5, <1>6 DEF Next
-----------------------------------------------------------------------------
(***************************************************************************)
(* The theorems                                                            *)
(***************************************************************************)

(***************************************************************************)
(* The invariant holds of the commands through which workspaces are seen,  *)
(* picked, acted on and imported: whatever the user edits meanwhile, and   *)
(* whichever commands fail, crash or run in another terminal (ws_list.go,  *)
(* ws_selector.go, ws_launcher.go, ws_import_jira.go).                     *)
(***************************************************************************)
THEOREM TrackCorrect == Spec => []TrackInv
<1>1. Init => TrackInv
  BY InitTrackInv
<1>2. TrackInv /\ [Next]_vars => TrackInv'
  BY NextTrackInv
<1> QED
  BY <1>1, <1>2, PTL DEF Spec

(***************************************************************************)
(* A workspace is shown as in progress only if the user has changed it in  *)
(* this life or a failure has left a trace: neither the cache nor the      *)
(* baseline hands anything down to the next life                           *)
(* (createOrRefreshWorkspaceBaseline, removeWorkspaceBaselineAndWorkState).*)
(***************************************************************************)
THEOREM InProgressJustifiedCorrect == Spec => []InProgressJustified
<1>1. TrackInv => InProgressJustified
  BY DEF TrackInv, WorkInv, StartedInv, Excused, InProgressJustified
<1> QED
  BY <1>1, TrackCorrect, PTL

(***************************************************************************)
(* A workspace once shown as in progress is never shown as todo again in   *)
(* this life (listRowsFromFilesystem, resolveWorkspaceWorkState): the      *)
(* cache holds it, and each listing starts from the cache and saves all of *)
(* it.                                                                     *)
(***************************************************************************)
THEOREM InProgressKeptCorrect == Spec => []InProgressKept
<1>1. ASSUME TrackInv PROVE InProgressKept
  <2> SUFFICES ASSUME cli.pc = "show", cli.scope = "active", NEW w \in started,
                      RowState(w) = "todo"
               PROVE  FALSE
    BY DEF InProgressKept, At
  <2> DEFINE at == {n \in DOMAIN cli.rows : cli.rows[n].id = w}
             row == CHOOSE n \in at : TRUE
  <2>1. at # {} /\ cli.rows[row].state = "todo"
    BY DEF RowState
  <2>2. row \in at
    BY <2>1
  <2>3. row \in DOMAIN cli.rows /\ cli.rows[row].id = w /\ cli.rows[row].state = "todo"
    BY <2>1, <2>2
  <2> HIDE DEF row
  <2>4. w \notin cli.view
    BY <1>1, <2>3 DEF TrackInv, WorkInv, RowsInv
  <2>5. w \in cli.view
    BY <1>1 DEF TrackInv, WorkInv, StartedInv, ListInv
  <2> QED
    BY <2>4, <2>5
<1> QED
  BY <1>1, TrackCorrect, PTL

(***************************************************************************)
(* The comparison with a baseline misses nothing: a new file either makes  *)
(* their number differ or takes the place of one that is gone              *)
(* (hasWorkspaceFSChanged).                                                *)
(***************************************************************************)
THEOREM FSComparisonExactCorrect == Spec => []FSComparisonExact
<1>1. ASSUME TrackInv PROVE FSComparisonExact
  <2> SUFFICES ASSUME NEW w \in Ws, baseline[w].present
               PROVE  hasWorkspaceFSChanged(fs[w], baseline[w].fs) <=> fs[w] # baseline[w].fs
    BY DEF FSComparisonExact
  <2> DEFINE c == fs[w]
             b == baseline[w].fs
  <2>1. c \in Files /\ baseline[w] \in Baseline
    BY <1>1 DEF TrackInv, WorkInv, Types
  <2>2. b \in Files
    <3>1. ~NoBaseline.present
      BY DEF NoBaseline
    <3>2. baseline[w] \in [present : {TRUE}, repos : UNION {[S -> Commit] : S \in SUBSET Alias},
                           fs : Files]
      BY <2>1, <3>1 DEF Baseline
    <3> QED
      BY <3>2
  <2> HIDE DEF c, b
  <2>3. PICK S \in SUBSET Path, T \in SUBSET Path : c \in [S -> Hash] /\ b \in [T -> Hash]
    BY <2>1, <2>2 DEF Files
  <2>4. IsFiniteSet(S) /\ IsFiniteSet(T)
    BY <2>3, WorkStateAssumption, FS_Subset
  <2>5. c = b => ~hasWorkspaceFSChanged(c, b)
    BY DEF hasWorkspaceFSChanged
  <2>6. ASSUME ~hasWorkspaceFSChanged(c, b) PROVE c = b
    <3>1. DOMAIN c = S /\ DOMAIN b = T
      BY <2>3
    <3>2. Cardinality(S) = Cardinality(T) /\ \A p \in T : p \in S /\ c[p] = b[p]
      BY <2>6, <3>1 DEF hasWorkspaceFSChanged
    <3>3. T \in SUBSET S
      BY <3>2
    <3>4. S = T
      BY <2>4, <3>2, <3>3, FS_Subset
    <3> QED
      BY <2>3, <3>2, <3>4
  <2> QED
    BY <2>5, <2>6 DEF c, b
<1> QED
  BY <1>1, TrackCorrect, PTL

(***************************************************************************)
(* The rows rendered are around the cursor, however many they may be.      *)
(***************************************************************************)
LEMMA ViewportHoldsCursor ==
    ASSUME NEW total \in Nat, NEW cursor \in Nat, cursor < total, NEW rows \in Nat
    PROVE  /\ selectorViewportRange(total, cursor, rows).start <= cursor
           /\ cursor < selectorViewportRange(total, cursor, rows).end
<1> DEFINE half == rows \div 2
           above == cursor - half
           start == IF above < 0 THEN 0 ELSE above
<1>1. half \in Nat /\ half <= rows /\ (rows > 0 => half < rows)
  OBVIOUS
<1>2. InRange(cursor, total) = cursor
  BY DEF InRange
<1>3. selectorViewportRange(total, cursor, rows) =
        IF rows <= 0 \/ total <= rows THEN [start |-> 0, end |-> total]
        ELSE IF start + rows > total THEN [start |-> total - rows, end |-> total]
        ELSE [start |-> start, end |-> start + rows]
  BY <1>2 DEF selectorViewportRange
<1> HIDE DEF half
<1>4. start \in Nat /\ start <= cursor /\ (rows > 0 => cursor < start + rows)
  BY <1>1
<1> HIDE DEF start
<1>5. CASE rows <= 0 \/ total <= rows
  BY <1>3, <1>5
<1>6. CASE ~(rows <= 0 \/ total <= rows) /\ start + rows > total
  <2>1. total - rows <= cursor
    BY <1>4, <1>6
  <2> QED
    BY <1>3, <1>6, <2>1
<1>7. CASE ~(rows <= 0 \/ total <= rows) /\ ~(start + rows > total)
  <2>1. rows > 0
    BY <1>7
  <2> QED
    BY <1>3, <1>4, <1>7, <2>1
<1> QED
  BY <1>5, <1>6, <1>7

(***************************************************************************)
(* Whatever is typed, the cursor is on a visible row as long as there is   *)
(* one, and that row is in the range render loops over, whatever limit the *)
(* height of the terminal gives it (Update, ensureCursorInFilteredRange,   *)
(* selectorViewportRange).                                                 *)
(***************************************************************************)
THEOREM CursorUsableCorrect == Spec => []CursorUsable
<1>1. ASSUME TrackInv PROVE CursorUsable
  <2> SUFFICES ASSUME sel.shown # {} PROVE CursorUsable
    BY DEF CursorUsable
  <2>1. CursorInv
    BY <1>1 DEF TrackInv, ChosenInv
  <2>2. VisibleCount \in Nat /\ sel.cursor \in Nat /\ sel.cursor < VisibleCount
    BY <2>1, ShownFacts DEF CursorInv, SelType
  <2>3. ASSUME NEW h \in 0..(VisibleCount + 6), NEW compact \in BOOLEAN
        PROVE  CursorInRange(h, compact)
    <3>1. selectorBodyRowsLimit(h, compact) \in Nat
      BY <2>2 DEF selectorBodyRowsLimit
    <3> QED
      BY <2>2, <3>1, ViewportHoldsCursor DEF CursorInRange
  <2> QED
    BY <2>2, <2>3 DEF CursorUsable
<1> QED
  BY <1>1, TrackCorrect, PTL

(***************************************************************************)
(* A command that acts on workspaces ends after the last of them, or dies. *)
(***************************************************************************)
LEMMA ActsEndWithAll ==
    ASSUME TrackInv, Next, cli.pc \in {"act", "baseline", "cache"}, cli'.pc = "idle",
           ~Crash
    PROVE  ActsDone
<1>t. cli \in CliType
  BY DEF TrackInv, WorkInv, Types
<1>1. CASE Work
  <2>1. CASE Act \/ ActWithoutEffect \/ CloseFailsHalfway
    <3>1. /\ cli.todo # <<>> /\ cli.pc = "act"
          /\ \/ cli' = [Attempted EXCEPT !.pc = "baseline"]
             \/ cli' = [Attempted EXCEPT !.todo = Tail(@)]
      BY <2>1 DEF Act, ActWithoutEffect, CloseFailsHalfway, At
    <3> QED
      BY <1>t, <3>1, AttemptedType
  <2>2. CASE WriteBaseline
    BY <1>t, <2>2 DEF WriteBaseline, Goto, CliType
  <2>3. CASE ClearCache \/ BookkeepingFails
    BY <1>t, <2>3 DEF ClearCache, BookkeepingFails, NextWs, CliType
  <2>4. CASE Inspect \/ InspectFails \/ SaveCache \/ ListFails \/ Show
    BY <2>4 DEF Inspect, InspectFails, SaveCache, ListFails, Show, At
  <2>5. CASE SelectorConfirmed \/ SelectAborts \/ Selected \/ ActionChosen \/ SprintChosen
    BY <2>5 DEF SelectorConfirmed, SelectAborts, Selected, ActionChosen,
           SprintChosen, Selecting, At
  <2>6. CASE \/ Search \/ SearchEnds \/ ImportOne \/ ImportOneFails
             \/ ImportDone \/ ImportReturns
    BY <2>6 DEF Search, SearchEnds, ImportOne, ImportOneFails, ImportDone,
           ImportReturns, At
  <2> QED
    BY <1>1, <2>1, <2>2, <2>3, <2>4, <2>5, <2>6 DEF Work
<1>2. CASE Command
  BY <1>2 DEF Command, StartList, StartMulti, StartSelect, StartImport, Create, At
<1>3. CASE User
  <2>1. CASE UserKey \/ ConfirmImport \/ DeclineImport
    BY <2>1 DEF UserKey, ConfirmImport, DeclineImport, Selecting, At
  <2>2. CASE \E w \in Ws : UserEdit(w)
    BY <2>2 DEF UserEdit
  <2> QED
    BY <1>3, <2>1, <2>2 DEF User
<1>4. CASE OtherTerminal
  BY <1>4 DEF OtherTerminal, Elsewhere
<1> QED
  BY <1>1, <1>2, <1>3, <1>4 DEF Next

(***************************************************************************)
(* A selection is acted on exactly: each marked workspace once, and no     *)
(* other, and the command ends only when all have been tried, whichever of *)
(* them fail, unless the process dies (toggleCurrentSelection,             *)
(* selectedIDs, runWSSelectMulti).                                         *)
(***************************************************************************)
THEOREM MarkedAreActedOnCorrect == Spec => MarkedAreActedOn
<1>1. TrackInv => MarkedInWork
  BY DEF TrackInv, ChosenInv, ChoiceInv, MarkedInWork
<1>2. ASSUME TrackInv, TrackInv', [Next]_vars
      PROVE  [/\ MarkedInWork'
              /\ cli.pc \in {"act", "baseline", "cache"} /\ At("idle")' /\ ~Crash
                 => Tried = sel.marked]_vars
  <2>1. MarkedInWork'
    <3>1. ChosenInv' /\ ChoiceInv'
      BY <1>2 DEF TrackInv, ChosenInv
    <3> QED
      BY <3>1 DEF ChoiceInv, MarkedInWork
  <2>2. ASSUME Next, cli.pc \in {"act", "baseline", "cache"}, At("idle")', ~Crash
        PROVE  Tried = sel.marked
    <3>1. ActsDone
      BY <1>2, <2>2, ActsEndWithAll DEF At
    <3>2. cli.pc = "act" /\ cli.todo = <<>> /\ MarkedInWork
      BY <1>1, <1>2, <3>1 DEF ActsDone, At
    <3>3. {cli.todo[n] : n \in DOMAIN cli.todo} = {}
      BY <3>2
    <3> QED
      BY <3>2, <3>3 DEF MarkedInWork, At
  <2> QED
    BY <1>2, <2>1, <2>2
<1> QED
  BY <1>2, TrackCorrect, PTL DEF Spec, MarkedAreActedOn

(***************************************************************************)
(* The report of an import adds up, for issues in any number and order,    *)
(* some of them twice, and any creations that fail                         *)
(* (buildWSImportJiraPlan, markWSImportJiraCreateItemAsFailed,             *)
(* runWSImportJira).                                                       *)
(***************************************************************************)
THEOREM ImportAccountedCorrect == Spec => []ImportAccounted
<1>1. TrackInv => ImportAccounted
  BY DEF TrackInv, ImportInv
<1> QED
  BY <1>1, TrackCorrect, PTL
===============================================================================
