----------------------------- MODULE AddRepoFetch -----------------------------
(***************************************************************************)
(* How ws add-repo brings the selected repositories of the pool up to date *)
(* before it adds their worktrees.  While the user is still typing the     *)
(* inputs of the next repository, a goroutine fetches the one before: it   *)
(* announces itself on a channel, fetches, records the outcome in two maps *)
(* and reports on the channel.  Nobody reads the channel until all inputs  *)
(* are there; then a printer drains it, the command waits for the          *)
(* goroutines, closes the channel, waits for the printer, and looks at the *)
(* repositories one by one (phase B), once before the preflight and once   *)
(* more after the user has confirmed.  With --format json there is no      *)
(* prefetch, no prompt and one phase B.                                    *)
(*                                                                         *)
(* What happens from the apply on is the add-repo of WorkspaceLifecycle;   *)
(* the lock the command holds meanwhile is AddRepoLock.                    *)
(***************************************************************************)
EXTENDS Naturals, Sequences, FiniteSets

CONSTANTS
    Pool,       \* the bare repositories, in the order the pool is walked
    KeyOf,      \* KeyOf[c]: owner and name of bare repository c, no host
    MaxPlan     \* bound: repositories one command selects

ASSUME PoolAssumption ==
    /\ Pool \in Seq(DOMAIN KeyOf)
    /\ MaxPlan \in Nat \ {0}

VARIABLES
    cmd,            \* the flags and the plan of the command
    bare,           \* bare[c]: base_ref and FETCH_HEAD of a planned repository
    pc,             \* where the command is
    i,              \* its position in the plan
    round,          \* which phase B
    go,             \* go[j]: where the goroutine of the j-th repository is
    chan,           \* prefetchEvents
    closed,
    printer,        \* printAddRepoFetchProgress
    rows,           \* rows[j]: the status it shows for the j-th repository
    prefetched,     \* keys the map of that name holds with TRUE
    prefetchFailed, \* keys of the map of that name
    fetched,        \* history: repositories this command has fetched
    foundFresh,     \* history: repositories it has found within the TTL
    taken           \* history: repositories it has taken for such, since a
                    \* fetch that failed had touched FETCH_HEAD

vars == <<bare, cmd, pc, i, round, go, chan, closed, printer, rows,
          prefetched, prefetchFailed, fetched, foundFresh, taken>>

Bare == {Pool[j] : j \in DOMAIN Pool}
Key == {KeyOf[c] : c \in Bare}
Flags == {"ttl", "refresh", "no-fetch"}

(***************************************************************************)
(* Selections.  The numbered prompt takes indices in any order, once each. *)
(* The selector and --repo go through a map from keys to repositories, in  *)
(* which the last of the repositories of one key is left; two rows of the  *)
(* selector that share a key give the same repository twice.               *)
(***************************************************************************)
parseMultiSelectIndices ==
    {s \in UNION {[1..n -> DOMAIN Pool] : n \in 1..MaxPlan} :
        \A j, k \in DOMAIN s : s[j] = s[k] => j = k}

candidateByID(k) ==
    Pool[CHOOSE j \in DOMAIN Pool :
            /\ KeyOf[Pool[j]] = k
            /\ \A l \in DOMAIN Pool : KeyOf[Pool[l]] = k => l <= j]

promptAddRepoPoolSelectionFallback ==
    {[j \in DOMAIN s |-> Pool[s[j]]] : s \in parseMultiSelectIndices}

promptAddRepoPoolSelection ==
    {[j \in DOMAIN s |-> candidateByID(KeyOf[Pool[s[j]]])] :
        s \in {t \in parseMultiSelectIndices :
                 \A j, k \in DOMAIN t : j < k => t[j] < t[k]}}

repoKeysFromFlag ==
    {s \in {[j \in DOMAIN t |-> candidateByID(KeyOf[Pool[t[j]]])] :
              t \in parseMultiSelectIndices} :
        \A j, k \in DOMAIN s : s[j] = s[k] => j = k}

Plans(json) ==
    IF json
    THEN repoKeysFromFlag
    ELSE promptAddRepoPoolSelection \cup promptAddRepoPoolSelectionFallback

(***************************************************************************)
(* evaluateAddRepoFetchDecision.  The answer to whether the remote branch  *)
(* is known is thrown away.  The time of FETCH_HEAD does not tell a fetch  *)
(* that succeeded ("recent") from one that failed ("touched"); no file at  *)
(* all counts like an old one.                                             *)
(***************************************************************************)
Heads == {"old", "recent", "touched"}

Fresh(c) == bare[c].base /\ bare[c].head \in {"recent", "touched"}

ShouldFetch(c) ==
    \/ cmd.flag = "refresh"
    \/ cmd.flag = "ttl" /\ ~Fresh(c)

Decide(c) ==
    LET skip == {d \in {c} : cmd.flag = "ttl" /\ Fresh(d)}
    IN  /\ foundFresh' = foundFresh \cup {d \in skip : bare[d].head = "recent"}
        /\ taken' = taken \cup {d \in skip : bare[d].head = "touched"}

(***************************************************************************)
(* git fetch origin --prune.  It succeeds, or it fails, in a way that is   *)
(* worth another try or not.  git truncates FETCH_HEAD once the remote has *)
(* answered, so a fetch that fails later has touched the file, and it may  *)
(* have pruned the base_ref by then.                                       *)
(***************************************************************************)
FetchOk(c) ==
    /\ \E b \in BOOLEAN : bare' = [bare EXCEPT ![c] = [base |-> b, head |-> "recent"]]
    /\ fetched' = fetched \cup {c}

FetchFails(c) ==
    /\ \/ UNCHANGED bare
       \/ \E b \in {FALSE, bare[c].base} :
            bare' = [bare EXCEPT ![c] = [base |-> b, head |-> "touched"]]
    /\ UNCHANGED fetched

(***************************************************************************)
(* Faulty variant: room for one event of each repository.                  *)
(***************************************************************************)
CapacityOneEach == Len(cmd.plan)

(***************************************************************************)
(* The channel has room for this many events.                              *)
(***************************************************************************)
Capacity == Len(cmd.plan) * 2 + 1

Planned == {cmd.plan[j] : j \in DOMAIN cmd.plan}

Send(j, type, reason) ==
    /\ Len(chan) < Capacity
    /\ chan' = Append(chan, [key |-> KeyOf[cmd.plan[j]], type |-> type, reason |-> reason])

(***************************************************************************)
(* The command returns and the process exits, whatever its goroutines are  *)
(* doing; a git fetch that outlives it is one of OtherFetch.               *)
(***************************************************************************)
Return ==
    /\ pc' = "ended"
    /\ UNCHANGED <<cmd, i, round, go, chan, closed, printer, rows,
                   prefetched, prefetchFailed, fetched, foundFresh, taken>>

Init ==
    /\ \E flag \in Flags, json \in BOOLEAN :
         \E plan \in Plans(json) :
            cmd = [flag |-> flag, json |-> json, plan |-> plan]
    /\ bare \in [Planned -> [base : BOOLEAN, head : Heads]]
    /\ pc = IF cmd.json THEN "phase B" ELSE "input"
    /\ i = 1
    /\ round = 1
    /\ go = <<>> /\ chan = <<>> /\ closed = FALSE
    /\ printer = "none" /\ rows = <<>>
    /\ prefetched = {} /\ prefetchFailed = {}
    /\ fetched = {} /\ foundFresh = {} /\ taken = {}

(***************************************************************************)
(* The user has typed base_ref and branch of the next repository.  Its row *)
(* is queued, and a goroutine starts if it needs a fetch.                  *)
(***************************************************************************)
Input ==
    /\ pc = "input" /\ i <= Len(cmd.plan)
    /\ LET c == cmd.plan[i] IN
       /\ Decide(c)
       /\ rows' = Append(rows, "queued")
       /\ IF ShouldFetch(c)
          THEN go' = Append(go, "start") /\ i' = i + 1 /\ UNCHANGED pc
          ELSE go' = Append(go, "none") /\ pc' = "skip" /\ UNCHANGED i
    /\ UNCHANGED <<bare, cmd, round, chan, closed, printer,
                   prefetched, prefetchFailed, fetched>>

(***************************************************************************)
(* A fetch that is not needed is reported by the command itself.           *)
(***************************************************************************)
ReportSkip ==
    /\ pc = "skip"
    /\ Send(i, "done", "skipped")
    /\ pc' = "input" /\ i' = i + 1
    /\ UNCHANGED <<bare, cmd, round, go, closed, printer, rows,
                   prefetched, prefetchFailed, fetched, foundFresh, taken>>

(***************************************************************************)
(* A canceled prompt, an invalid branch name or a failing git call in the  *)
(* loop.                                                                   *)
(***************************************************************************)
InputFails ==
    /\ pc = "input" /\ i <= Len(cmd.plan)
    /\ Return
    /\ UNCHANGED bare

GoSet(j, l) == go' = [go EXCEPT ![j] = l]

GoStart(j) ==
    /\ go[j] = "start"
    /\ Send(j, "start", "")
    /\ GoSet(j, "fetch")
    /\ UNCHANGED <<bare, cmd, pc, i, round, closed, printer, rows,
                   prefetched, prefetchFailed, fetched, foundFresh, taken>>

(***************************************************************************)
(* runAddRepoFetchWithPolicy and the record of its outcome; prefetchMu     *)
(* makes the update of both maps one step.                                 *)
(***************************************************************************)
GoFetch(j) ==
    /\ go[j] \in {"fetch", "retry"}
    /\ LET c == cmd.plan[j]
           k == KeyOf[c] IN
       \/ /\ FetchOk(c)
          /\ prefetched' = prefetched \cup {k}
          /\ prefetchFailed' = prefetchFailed \ {k}
          /\ GoSet(j, "report ok")
       \/ /\ FetchFails(c)
          /\ go[j] = "fetch"
          /\ GoSet(j, "retry")
          /\ UNCHANGED <<prefetched, prefetchFailed>>
       \/ /\ FetchFails(c)
          /\ prefetched' = prefetched \ {k}
          /\ prefetchFailed' = prefetchFailed \cup {k}
          /\ GoSet(j, "report failed")
    /\ UNCHANGED <<cmd, pc, i, round, chan, closed, printer, rows, foundFresh, taken>>

GoReport(j) ==
    /\ go[j] \in {"report ok", "report failed"}
    /\ Send(j, "done", IF go[j] = "report ok" THEN "complete" ELSE "error")
    /\ GoSet(j, IF go[j] = "report ok" THEN "ok" ELSE "failed")
    /\ UNCHANGED <<bare, cmd, pc, i, round, closed, printer, rows,
                   prefetched, prefetchFailed, fetched, foundFresh, taken>>

(***************************************************************************)
(* All inputs are there: the printer starts.                               *)
(***************************************************************************)
StartPrinter ==
    /\ pc = "input" /\ i > Len(cmd.plan)
    /\ printer' = "running"
    /\ pc' = "wait"
    /\ UNCHANGED <<bare, cmd, i, round, go, chan, closed, rows,
                   prefetched, prefetchFailed, fetched, foundFresh, taken>>

(***************************************************************************)
(* rowByRepo: the rows of one key share the last of them.                  *)
(***************************************************************************)
rowByRepo(k) ==
    CHOOSE j \in DOMAIN rows :
        /\ KeyOf[cmd.plan[j]] = k
        /\ \A l \in DOMAIN rows : KeyOf[cmd.plan[l]] = k => l <= j

applyAddRepoFetchEvent(ev) ==
    IF ev.type = "start" THEN "running"
    ELSE CASE ev.reason = "error" -> "failed"
           [] ev.reason = "skipped" -> "skipped"
           [] OTHER -> "done"

(***************************************************************************)
(* Faulty variant: the printer ends at the close, with events left.        *)
(***************************************************************************)
DrainUntilClosed ==
    /\ printer = "running" /\ pc # "ended"
    /\ \/ /\ chan # <<>>
          /\ rows' = [rows EXCEPT ![rowByRepo(Head(chan).key)] =
                        applyAddRepoFetchEvent(Head(chan))]
          /\ chan' = Tail(chan)
          /\ UNCHANGED printer
       \/ /\ closed
          /\ printer' = "done"
          /\ UNCHANGED <<rows, chan>>
    /\ UNCHANGED <<bare, cmd, pc, i, round, go, closed,
                   prefetched, prefetchFailed, fetched, foundFresh, taken>>

Drain ==
    /\ printer = "running" /\ pc # "ended"
    /\ \/ /\ chan # <<>>
          /\ rows' = [rows EXCEPT ![rowByRepo(Head(chan).key)] =
                        applyAddRepoFetchEvent(Head(chan))]
          /\ chan' = Tail(chan)
          /\ UNCHANGED printer
       \/ /\ chan = <<>> /\ closed
          /\ printer' = "done"
          /\ UNCHANGED <<rows, chan>>
    /\ UNCHANGED <<bare, cmd, pc, i, round, go, closed,
                   prefetched, prefetchFailed, fetched, foundFresh, taken>>

Running(j) == go[j] \notin {"none", "ok", "failed"}

(***************************************************************************)
(* Faulty variant: the channel is closed as soon as no fetch is running.   *)
(***************************************************************************)
CloseAfterFetches ==
    /\ pc = "wait"
    /\ \A j \in DOMAIN go : go[j] \notin {"start", "fetch", "retry"}
    /\ closed' = TRUE
    /\ pc' = "join"
    /\ UNCHANGED <<bare, cmd, i, round, go, chan, printer, rows,
                   prefetched, prefetchFailed, fetched, foundFresh, taken>>

(***************************************************************************)
(* Faulty variant: the channel is never closed.                            *)
(***************************************************************************)
WaitOnly ==
    /\ pc = "wait"
    /\ \A j \in DOMAIN go : ~Running(j)
    /\ pc' = "join"
    /\ UNCHANGED <<bare, cmd, i, round, go, chan, closed, printer, rows,
                   prefetched, prefetchFailed, fetched, foundFresh, taken>>

(***************************************************************************)
(* prefetchWG.Wait and the close of the channel.                           *)
(***************************************************************************)
WaitAndClose ==
    /\ pc = "wait"
    /\ \A j \in DOMAIN go : ~Running(j)
    /\ closed' = TRUE
    /\ pc' = "join"
    /\ UNCHANGED <<bare, cmd, i, round, go, chan, printer, rows,
                   prefetched, prefetchFailed, fetched, foundFresh, taken>>

Join ==
    /\ pc = "join" /\ printer = "done"
    /\ pc' = "phase B" /\ i' = 1
    /\ UNCHANGED <<bare, cmd, round, go, chan, closed, printer, rows,
                   prefetched, prefetchFailed, fetched, foundFresh, taken>>

(***************************************************************************)
(* Faulty variant: a prefetch that was tried is not repeated.              *)
(***************************************************************************)
CoveredIfTried(c) == KeyOf[c] \in prefetched \cup prefetchFailed

(***************************************************************************)
(* The fetch of phase B is not recorded in the maps.  An error ends the    *)
(* command.                                                                *)
(***************************************************************************)
Covered(c) == KeyOf[c] \in prefetched

PhaseB ==
    /\ pc = "phase B" /\ i <= Len(cmd.plan)
    /\ LET c == cmd.plan[i] IN
       /\ Decide(c)
       /\ IF ShouldFetch(c) /\ ~Covered(c)
          THEN pc' = "fetch" /\ UNCHANGED i
          ELSE i' = i + 1 /\ UNCHANGED pc
    /\ UNCHANGED <<bare, cmd, round, go, chan, closed, printer, rows,
                   prefetched, prefetchFailed, fetched>>

PhaseBFetch ==
    /\ pc \in {"fetch", "retry"}
    /\ LET c == cmd.plan[i] IN
       \/ /\ FetchOk(c)
          /\ pc' = "phase B" /\ i' = i + 1
       \/ /\ FetchFails(c)
          /\ pc = "fetch"
          /\ pc' = "retry" /\ UNCHANGED i
    /\ UNCHANGED <<cmd, round, go, chan, closed, printer, rows,
                   prefetched, prefetchFailed, foundFresh, taken>>

PhaseBFails ==
    /\ pc \in {"phase B", "fetch", "retry"} /\ i <= Len(cmd.plan)
    /\ \/ UNCHANGED bare
       \/ \E b \in {FALSE, bare[cmd.plan[i]].base} :
            /\ pc # "phase B"
            /\ bare' = [bare EXCEPT ![cmd.plan[i]] = [base |-> b, head |-> "touched"]]
    /\ Return

(***************************************************************************)
(* The end of phase B: the preflight comes before the confirmation, the    *)
(* apply after it.  Without a prompt the preflight leads to the apply.     *)
(***************************************************************************)
PhaseBEnds ==
    /\ pc = "phase B" /\ i > Len(cmd.plan)
    /\ pc' = IF round = 1 THEN "preflight" ELSE "apply"
    /\ UNCHANGED <<bare, cmd, i, round, go, chan, closed, printer, rows,
                   prefetched, prefetchFailed, fetched, foundFresh, taken>>

(***************************************************************************)
(* preflightAddRepoPlan, as far as the plan and the base_ref decide it.    *)
(* The alias is the name in the key.                                       *)
(***************************************************************************)
AliasesDiffer ==
    \A j, k \in DOMAIN cmd.plan :
        KeyOf[cmd.plan[j]] = KeyOf[cmd.plan[k]] => j = k

Preflight ==
    /\ pc = "preflight"
    /\ AliasesDiffer
    /\ \A j \in DOMAIN cmd.plan : bare[cmd.plan[j]].base
    /\ pc' = IF cmd.json THEN "apply" ELSE "confirm"
    /\ UNCHANGED <<bare, cmd, i, round, go, chan, closed, printer, rows,
                   prefetched, prefetchFailed, fetched, foundFresh, taken>>

(***************************************************************************)
(* The preflight finds a conflict, in the plan or in the workspace.        *)
(***************************************************************************)
PreflightFails ==
    /\ pc = "preflight"
    /\ Return
    /\ UNCHANGED bare

Confirm ==
    /\ pc = "confirm"
    /\ \/ /\ pc' = "phase B" /\ i' = 1 /\ round' = 2
          /\ UNCHANGED <<cmd, go, chan, closed, printer, rows,
                         prefetched, prefetchFailed, fetched, foundFresh, taken>>
       \/ Return
    /\ UNCHANGED bare

Apply ==
    /\ pc = "apply"
    /\ Return
    /\ UNCHANGED bare

(***************************************************************************)
(* Time passes: the last fetch is five minutes old.                        *)
(***************************************************************************)
Age(c) ==
    /\ bare[c].head \in {"recent", "touched"}
    /\ bare' = [bare EXCEPT ![c].head = "old"]
    /\ UNCHANGED <<cmd, pc, i, round, go, chan, closed, printer, rows,
                   prefetched, prefetchFailed, fetched, foundFresh, taken>>

(***************************************************************************)
(* Another command fetches the repository, or fails to.                    *)
(***************************************************************************)
OtherFetch(c) ==
    /\ \/ \E b \in BOOLEAN :
            bare' = [bare EXCEPT ![c] = [base |-> b, head |-> "recent"]]
       \/ \E b \in {FALSE, bare[c].base} :
            bare' = [bare EXCEPT ![c] = [base |-> b, head |-> "touched"]]
    /\ UNCHANGED <<cmd, pc, i, round, go, chan, closed, printer, rows,
                   prefetched, prefetchFailed, fetched, foundFresh, taken>>

Main ==
    \/ ReportSkip \/ StartPrinter \/ WaitAndClose \/ Join
    \/ PhaseB \/ PhaseBFetch \/ PhaseBFails \/ PhaseBEnds
    \/ Preflight \/ PreflightFails \/ Apply

Goroutine(j) ==
    /\ pc # "ended"
    /\ GoStart(j) \/ GoFetch(j) \/ GoReport(j)

User == Input \/ InputFails \/ Confirm

Next ==
    \/ Main \/ User \/ Drain
    \/ \E j \in DOMAIN go : Goroutine(j)
    \/ \E c \in Planned : Age(c) \/ OtherFetch(c)

Spec == Init /\ [][Next]_vars

(***************************************************************************)
(* The command, its goroutines and the printer run on, and git fetch       *)
(* returns; the user need not answer.                                      *)
(***************************************************************************)
FairSpec ==
    /\ Spec
    /\ WF_vars(Main)
    /\ WF_vars(Drain)
    /\ \A j \in 1..MaxPlan : WF_vars(j \in DOMAIN go /\ Goroutine(j))
-----------------------------------------------------------------------------
Event == [key : Key, type : {"start", "done"},
          reason : {"", "skipped", "complete", "error"}]

TypeOK ==
    /\ bare \in [Planned -> [base : BOOLEAN, head : Heads]]
    /\ cmd \in [flag : Flags, json : BOOLEAN, plan : Seq(Bare)]
    /\ pc \in {"ended", "input", "skip", "wait", "join", "phase B", "fetch",
               "retry", "preflight", "confirm", "apply"}
    /\ i \in Nat /\ round \in 1..2
    /\ go \in Seq({"none", "start", "fetch", "retry", "report ok",
                   "report failed", "ok", "failed"})
    /\ chan \in Seq(Event)
    /\ closed \in BOOLEAN
    /\ printer \in {"none", "running", "done"}
    /\ rows \in Seq({"queued", "running", "skipped", "done", "failed"})
    /\ prefetched \in SUBSET Key /\ prefetchFailed \in SUBSET Key
    /\ fetched \in SUBSET Bare /\ foundFresh \in SUBSET Bare
    /\ taken \in SUBSET Bare

(***************************************************************************)
(* No send ever blocks: neither a goroutine's nor, which would hang the    *)
(* command before there is any reader, the command's own while the user is *)
(* still typing (the capacity 2n+1 of prefetchEvents).                     *)
(***************************************************************************)
SendsNeverBlock ==
    pc = "skip" \/ (\E j \in DOMAIN go : go[j] \in {"start", "report ok", "report failed"})
    => Len(chan) < Capacity

(***************************************************************************)
(* Once the channel is closed no goroutine is left that sends on it, which *)
(* would panic, or that writes the maps phase B reads without the mutex    *)
(* (prefetchWG.Wait in runWSAddRepo).                                      *)
(***************************************************************************)
NothingAfterClose ==
    closed \/ pc = "phase B" => \A j \in DOMAIN go : ~Running(j)

(***************************************************************************)
(* When the printer has ended, the last thing it has shown of a repository *)
(* is how its prefetch ended, for each repository whose key is its own:    *)
(* every report came before the close (printAddRepoFetchProgress).         *)
(***************************************************************************)
Shown(j) ==
    CASE go[j] = "ok" -> "done"
      [] go[j] = "failed" -> "failed"
      [] OTHER -> "skipped"

LastShown ==
    printer = "done" =>
        \A j \in DOMAIN go :
            (\A k \in DOMAIN go : KeyOf[cmd.plan[k]] = KeyOf[cmd.plan[j]] => k = j)
            => rows[j] = Shown(j)

(***************************************************************************)
(* Worktrees are added from no repository whose fetch was required and did *)
(* not happen: with --refresh this command has fetched every one, without  *)
(* it this command has fetched it or found its FETCH_HEAD within the TTL,  *)
(* written by a fetch that succeeded; the one exception is a FETCH_HEAD    *)
(* that a fetch which failed has touched within the TTL.  The maps are     *)
(* keyed without the host: that a repository passes for another of its key *)
(* is caught by the alias check of the preflight                           *)
(* (ensureAddRepoPlanFetchPhaseB, preflightAddRepoPlan).  The exception is *)
(* one the documents do not make: add-repo.md, "retry once, then abort if  *)
(* still failing".                                                         *)
(***************************************************************************)
AppliedInSync ==
    pc = "apply" =>
        \A j \in DOMAIN cmd.plan :
            CASE cmd.flag = "refresh" -> cmd.plan[j] \in fetched
              [] cmd.flag = "ttl" -> cmd.plan[j] \in fetched \cup foundFresh \cup taken
              [] OTHER -> fetched = {}

(***************************************************************************)
(* Once the user has typed the inputs the command gets to its next         *)
(* question, to the apply or to an error: goroutines, printer and command  *)
(* never wait for each other in a circle (runWSAddRepo).                   *)
(***************************************************************************)
FetchEnds == pc = "wait" ~> pc \in {"confirm", "apply", "ended"}
===============================================================================
