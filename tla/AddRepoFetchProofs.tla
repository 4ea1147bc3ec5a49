-------------------------- MODULE AddRepoFetchProofs --------------------------
(***************************************************************************)
(* The fetching of ws add-repo is safe for any pool, any plan and any      *)
(* behaviour of git: sends never block, nothing runs after the close,      *)
(* nothing is applied that a required fetch did not cover, and the printer *)
(* ends with what has happened.                                            *)
(***************************************************************************)
EXTENDS AddRepoFetch, FilteredProofs, SequenceTheorems

Stage == {"none", "start", "fetch", "retry", "report ok", "report failed", "ok", "failed"}

(***************************************************************************)
(* The shape of the state, as far as the arguments need it: goroutines are *)
(* started in the order of the plan, one for each repository at most.      *)
(***************************************************************************)
Reasons == {"", "skipped", "complete", "error"}
Events == [key : {KeyOf[cmd.plan[j]] : j \in DOMAIN cmd.plan}, type : {"start", "done"},
           reason : Reasons]

Shape ==
    /\ Len(cmd.plan) \in Nat
    /\ DOMAIN cmd.plan = 1..Len(cmd.plan)
    /\ cmd.flag \in Flags
    /\ i \in Nat
    /\ go \in Seq(Stage)
    /\ chan \in Seq(Events)
    /\ Len(go) <= Len(cmd.plan)
    /\ pc = "input" => i = Len(go) + 1
    /\ pc = "skip" => i \in DOMAIN go /\ i = Len(go) /\ go[i] = "none"

(***************************************************************************)
(* Goroutines run only while the command reads input or waits for them.    *)
(***************************************************************************)
Quiet == \A j \in DOMAIN go : ~Running(j)
Early == {"input", "skip", "wait"}

QuietInv ==
    /\ pc \notin Early \cup {"ended"} => Quiet
    /\ closed => Quiet /\ pc \notin Early

(***************************************************************************)
(* The repositories that have sent their first and their last event.       *)
(***************************************************************************)
Started == {j \in DOMAIN go : go[j] \notin {"none", "start"}}
Reported == {j \in DOMAIN go : go[j] \in {"none", "ok", "failed"} /\ ~(pc = "skip" /\ j = i)}

CountInv == Len(chan) <= Cardinality(Started) + Cardinality(Reported)

(***************************************************************************)
(* What phase B has established of the l-th repository.                    *)
(***************************************************************************)
Settled(l) ==
    \/ cmd.flag = "no-fetch"
    \/ cmd.plan[l] \in fetched
    \/ KeyOf[cmd.plan[l]] \in prefetched
    \/ cmd.flag = "ttl" /\ cmd.plan[l] \in foundFresh \cup taken

(***************************************************************************)
(* What the maps, the flag and phase B say about the fetches: a key in     *)
(* prefetched is that of a fetched repository of the plan; --no-fetch      *)
(* starts no fetch; phase B has settled every repository before i; and the *)
(* confirmation is not reached with two repositories of one key.           *)
(***************************************************************************)
PrefetchInv ==
    \A k \in prefetched :
        \E j \in DOMAIN cmd.plan : KeyOf[cmd.plan[j]] = k /\ cmd.plan[j] \in fetched

NoFetchInv ==
    cmd.flag = "no-fetch" =>
        /\ fetched = {}
        /\ pc \notin {"fetch", "retry"}
        /\ \A j \in DOMAIN go : go[j] = "none"

SettledInv ==
    /\ pc \in {"phase B", "fetch", "retry"} =>
         \A l \in DOMAIN cmd.plan : l < i => Settled(l)
    /\ pc \in {"preflight", "confirm", "apply"} =>
         \A l \in DOMAIN cmd.plan : Settled(l)

AliasInv ==
    /\ round \in {1, 2}
    /\ pc \in {"confirm", "apply"} \/ round = 2 => AliasesDiffer

SyncInv == PrefetchInv /\ NoFetchInv /\ SettledInv /\ AliasInv

FetchInv == Shape /\ QuietInv /\ CountInv /\ SyncInv
-----------------------------------------------------------------------------
(***************************************************************************)
(* Every way to select repositories gives a sequence.                      *)
(***************************************************************************)
LEMMA PlansAreSequences ==
    ASSUME NEW json, NEW plan \in Plans(json)
    PROVE  Len(plan) \in Nat /\ DOMAIN plan = 1..Len(plan)
<1>1. \A s \in parseMultiSelectIndices : \E n \in Nat : DOMAIN s = 1..n
  BY PoolAssumption DEF parseMultiSelectIndices
<1>2. \E n \in Nat : DOMAIN plan = 1..n
  BY <1>1 DEF Plans, repoKeysFromFlag, promptAddRepoPoolSelection,
              promptAddRepoPoolSelectionFallback
<1>3. \E s : plan = [j \in DOMAIN s |-> plan[j]]
  BY DEF Plans, repoKeysFromFlag, promptAddRepoPoolSelection,
         promptAddRepoPoolSelectionFallback
<1>4. PICK n \in Nat : DOMAIN plan = 1..n
  BY <1>2
<1>5. plan = [j \in 1..n |-> plan[j]]
  BY <1>3, <1>4
<1>6. plan \in Seq({plan[j] : j \in 1..n})
  BY <1>5, <1>4
<1> QED
  BY <1>6, LenProperties

(***************************************************************************)
(* The invariant holds when the command starts.                            *)
(***************************************************************************)
LEMMA InitFetchInv == Init => FetchInv
<1> SUFFICES ASSUME Init PROVE FetchInv
  OBVIOUS
<1>1. Shape
  <2>1. PICK flag \in Flags, json \in BOOLEAN :
          \E plan \in Plans(json) : cmd = [flag |-> flag, json |-> json, plan |-> plan]
    BY DEF Init
  <2>2. PICK plan \in Plans(json) : cmd = [flag |-> flag, json |-> json, plan |-> plan]
    BY <2>1
  <2>3. cmd.plan = plan /\ cmd.flag = flag
    BY <2>2
  <2>4. Len(cmd.plan) \in Nat /\ DOMAIN cmd.plan = 1..Len(cmd.plan)
    BY <2>3, PlansAreSequences
  <2>5. go \in Seq(Stage) /\ chan \in Seq(Events) /\ Len(go) = 0
    BY EmptySeq DEF Init
  <2>6. i = 1 /\ pc # "skip"
    BY DEF Init
  <2> QED
    BY <2>3, <2>4, <2>5, <2>6 DEF Shape
<1>2. /\ prefetched = {} /\ fetched = {} /\ round = 1 /\ i = 1
      /\ pc \in {"phase B", "input"}
  BY DEF Init
<1>b. closed = FALSE
  BY DEF Init
<1>a. Len(go) = 0 /\ Len(chan) = 0
  BY EmptySeq DEF Init
<1>e. DOMAIN go = {} /\ Len(chan) = 0
  BY <1>1, <1>a, LenProperties DEF Shape
<1>3. QuietInv
  BY <1>2, <1>b, <1>e DEF QuietInv, Quiet, Early
<1>4. CountInv
  <2>1. Started = {} /\ Reported = {}
    BY <1>e DEF Started, Reported
  <2> QED
    BY <1>e, <2>1, FS_EmptySet DEF CountInv
<1>5. SyncInv
  <2>1. DOMAIN cmd.plan = 1..Len(cmd.plan) /\ Len(cmd.plan) \in Nat
    BY <1>1 DEF Shape
  <2>i. i = 1
    BY <1>2
  <2>2. \A l \in DOMAIN cmd.plan : ~(l < i)
    BY <2>1, <2>i
  <2>r. round = 1
    BY DEF Init
  <2>3. pc \in {"phase B", "input"}
    BY <1>2
  <2>4. prefetched = {} /\ fetched = {}
    BY <1>2
  <2>5. PrefetchInv
    BY <2>4 DEF PrefetchInv
  <2>6. NoFetchInv
    BY <2>3, <2>4, <1>e DEF NoFetchInv
  <2>7. SettledInv
    BY <2>2, <2>3 DEF SettledInv
  <2>a. round # 2 /\ round \in {1, 2}
    BY <2>r
  <2>b. pc \notin {"confirm", "apply"}
    BY <2>3
  <2>8. AliasInv
    BY <2>a, <2>b DEF AliasInv
  <2> QED
    BY <2>5, <2>6, <2>7, <2>8 DEF SyncInv
<1> QED
  BY <1>1, <1>3, <1>4, <1>5 DEF FetchInv
-----------------------------------------------------------------------------
(***************************************************************************)
(* Steps of the command that leave goroutines and channel alone, in its    *)
(* later part.                                                             *)
(***************************************************************************)
LEMMA ShapeKept ==
    ASSUME Shape, UNCHANGED <<cmd, go, chan>>, i' \in Nat, pc' \notin {"input", "skip"}
    PROVE  Shape'
BY DEF Shape, Events

LEMMA ShapeSame ==
    ASSUME Shape, UNCHANGED <<cmd, pc, i, go, chan>>
    PROVE  Shape'
BY DEF Shape, Events

LEMMA QuietKept ==
    ASSUME QuietInv, UNCHANGED <<go, closed>>, pc' = "ended" \/ pc \notin Early \cup {"ended"},
           pc' \notin Early
    PROVE  QuietInv'
BY DEF QuietInv, Quiet, Running, Early

LEMMA QuietSame ==
    ASSUME QuietInv, UNCHANGED <<go, closed, pc>>
    PROVE  QuietInv'
BY DEF QuietInv, Quiet, Running, Early

LEMMA CountKept ==
    ASSUME CountInv, UNCHANGED <<go, chan>>, UNCHANGED <<pc, i>> \/ "skip" \notin {pc, pc'}
    PROVE  CountInv'
<1>1. Started' = Started
  BY DEF Started
<1>2. Reported' = Reported
  BY DEF Reported
<1> QED
  BY <1>1, <1>2 DEF CountInv

(***************************************************************************)
(* What one part of SyncInv needs of a step to stay true.                  *)
(***************************************************************************)
LEMMA SettledKept ==
    ASSUME UNCHANGED <<cmd, prefetched>>, fetched \subseteq fetched',
           foundFresh \cup taken \subseteq foundFresh' \cup taken', NEW l, Settled(l)
    PROVE  Settled(l)'
BY DEF Settled

LEMMA PrefetchKept ==
    ASSUME PrefetchInv, UNCHANGED <<cmd, prefetched>>, fetched \subseteq fetched'
    PROVE  PrefetchInv'
BY DEF PrefetchInv

LEMMA NoFetchKept ==
    ASSUME NoFetchInv, UNCHANGED <<cmd, go, fetched>>, pc' = pc \/ pc' \notin {"fetch", "retry"}
    PROVE  NoFetchInv'
BY DEF NoFetchInv

LEMMA AliasKept ==
    ASSUME AliasInv, UNCHANGED <<cmd, round>>,
           pc' \notin {"confirm", "apply"} \/ pc \in {"confirm", "apply"}
    PROVE  AliasInv'
BY DEF AliasInv, AliasesDiffer

(***************************************************************************)
(* Outside phase B and what follows it nothing is settled yet.             *)
(***************************************************************************)
LEMMA SettledLater ==
    ASSUME pc' \notin {"phase B", "fetch", "retry", "preflight", "confirm", "apply"}
    PROVE  SettledInv'
BY DEF SettledInv

LEMMA SyncSame ==
    ASSUME SyncInv, UNCHANGED <<cmd, pc, i, round, go, prefetched, fetched, foundFresh, taken>>
    PROVE  SyncInv'
<1>1. PrefetchInv'
  BY PrefetchKept DEF SyncInv
<1>2. NoFetchInv'
  BY NoFetchKept DEF SyncInv
<1>3. SettledInv'
  BY DEF SyncInv, SettledInv, Settled
<1>4. AliasInv'
  BY DEF SyncInv, AliasInv, AliasesDiffer
<1> QED
  BY <1>1, <1>2, <1>3, <1>4 DEF SyncInv

(***************************************************************************)
(* The return of the command.                                              *)
(***************************************************************************)
LEMMA ReturnFetchInv ==
    ASSUME FetchInv, Return, pc # "skip"
    PROVE  FetchInv'
<1>s. pc' = "ended"
  BY DEF Return
<1>u. UNCHANGED <<cmd, i, round, go, chan, closed, prefetched, fetched, foundFresh, taken>>
  BY DEF Return
<1>v. fetched \subseteq fetched'
  BY <1>u
<1>1. Shape'
  BY <1>s, <1>u, ShapeKept DEF FetchInv, Shape
<1>2. QuietInv'
  BY <1>s, <1>u, QuietKept DEF FetchInv, Early
<1>3. CountInv'
  BY <1>s, <1>u, CountKept DEF FetchInv
<1>4. PrefetchInv'
  BY <1>u, <1>v, PrefetchKept DEF FetchInv, SyncInv
<1>5. NoFetchInv'
  BY <1>s, <1>u, NoFetchKept DEF FetchInv, SyncInv
<1>6. SettledInv'
  BY <1>s, SettledLater
<1>7. AliasInv'
  BY <1>s, <1>u, AliasKept DEF FetchInv, SyncInv
<1> QED
  BY <1>1, <1>2, <1>3, <1>4, <1>5, <1>6, <1>7 DEF FetchInv, SyncInv

(***************************************************************************)
(* Steps after the last input.                                             *)
(***************************************************************************)
LEMMA StartPrinterFetchInv ==
    ASSUME FetchInv, StartPrinter
    PROVE  FetchInv'
<1>s. pc = "input" /\ pc' = "wait"
  BY DEF StartPrinter
<1>u. UNCHANGED <<cmd, round, go, chan, closed, prefetched, fetched, foundFresh, taken>>
  BY DEF StartPrinter
<1>v. fetched \subseteq fetched' /\ foundFresh \cup taken \subseteq foundFresh' \cup taken'
  BY <1>u
<1>i. i \in Nat /\ i' \in Nat
  BY DEF StartPrinter, FetchInv, Shape
<1>1. Shape'
  BY <1>s, <1>u, <1>i, ShapeKept DEF FetchInv
<1>2. QuietInv'
  <2>1. ~closed
    BY <1>s DEF FetchInv, QuietInv, Early
  <2>2. ~closed'
    BY <2>1, <1>u
  <2> QED
    BY <1>s, <2>2 DEF QuietInv, Early
<1>3. CountInv'
  BY <1>s, <1>u, CountKept DEF FetchInv
<1>4. PrefetchInv'
  BY <1>u, <1>v, PrefetchKept DEF FetchInv, SyncInv
<1>5. NoFetchInv'
  BY <1>s, <1>u, NoFetchKept DEF FetchInv, SyncInv
<1>6. SettledInv'
  BY <1>s, SettledLater
<1>7. AliasInv'
  BY <1>s, <1>u, AliasKept DEF FetchInv, SyncInv
<1> QED
  BY <1>1, <1>2, <1>3, <1>4, <1>5, <1>6, <1>7 DEF FetchInv, SyncInv

LEMMA WaitAndCloseFetchInv ==
    ASSUME FetchInv, WaitAndClose
    PROVE  FetchInv'
<1>s. pc = "wait" /\ pc' = "join"
  BY DEF WaitAndClose
<1>u. UNCHANGED <<cmd, round, go, chan, prefetched, fetched, foundFresh, taken>>
  BY DEF WaitAndClose
<1>v. fetched \subseteq fetched' /\ foundFresh \cup taken \subseteq foundFresh' \cup taken'
  BY <1>u
<1>i. i \in Nat /\ i' \in Nat
  BY DEF WaitAndClose, FetchInv, Shape
<1>1. Shape'
  BY <1>s, <1>u, <1>i, ShapeKept DEF FetchInv
<1>2. QuietInv'
  <2>1. Quiet'
    BY <1>u DEF WaitAndClose, Quiet, Running
  <2> QED
    BY <1>s, <2>1 DEF QuietInv, Early
<1>3. CountInv'
  BY <1>s, <1>u, CountKept DEF FetchInv
<1>4. PrefetchInv'
  BY <1>u, <1>v, PrefetchKept DEF FetchInv, SyncInv
<1>5. NoFetchInv'
  BY <1>s, <1>u, NoFetchKept DEF FetchInv, SyncInv
<1>6. SettledInv'
  BY <1>s, SettledLater
<1>7. AliasInv'
  BY <1>s, <1>u, AliasKept DEF FetchInv, SyncInv
<1> QED
  BY <1>1, <1>2, <1>3, <1>4, <1>5, <1>6, <1>7 DEF FetchInv, SyncInv

LEMMA JoinFetchInv ==
    ASSUME FetchInv, Join
    PROVE  FetchInv'
<1>s. pc = "join" /\ pc' = "phase B"
  BY DEF Join
<1>u. UNCHANGED <<cmd, round, go, chan, closed, prefetched, fetched, foundFresh, taken>>
  BY DEF Join
<1>v. fetched \subseteq fetched' /\ foundFresh \cup taken \subseteq foundFresh' \cup taken'
  BY <1>u
<1>i. i \in Nat /\ i' \in Nat
  BY DEF Join, FetchInv, Shape
<1>1. Shape'
  BY <1>s, <1>u, <1>i, ShapeKept DEF FetchInv
<1>2. QuietInv'
  BY <1>s, <1>u, QuietKept DEF FetchInv, Early
<1>3. CountInv'
  BY <1>s, <1>u, CountKept DEF FetchInv
<1>4. PrefetchInv'
  BY <1>u, <1>v, PrefetchKept DEF FetchInv, SyncInv
<1>5. NoFetchInv'
  BY <1>s, <1>u, NoFetchKept DEF FetchInv, SyncInv
<1>6. SettledInv'
  <2>1. i' = 1 /\ DOMAIN cmd.plan' = 1..Len(cmd.plan)
    BY <1>u DEF Join, FetchInv, Shape
  <2>2. \A l \in DOMAIN cmd.plan' : ~(l < i')
    BY <2>1
  <2> QED
    BY <1>s, <2>2 DEF SettledInv
<1>7. AliasInv'
  BY <1>s, <1>u, AliasKept DEF FetchInv, SyncInv
<1> QED
  BY <1>1, <1>2, <1>3, <1>4, <1>5, <1>6, <1>7 DEF FetchInv, SyncInv

LEMMA PhaseBFetchInv ==
    ASSUME FetchInv, PhaseB
    PROVE  FetchInv'
<1>s. pc = "phase B" /\ pc' \in {"phase B", "fetch"}
  BY DEF PhaseB
<1>u. UNCHANGED <<cmd, round, go, chan, closed, prefetched, fetched>>
  BY DEF PhaseB
<1>v. fetched \subseteq fetched' /\ foundFresh \cup taken \subseteq foundFresh' \cup taken'
  BY <1>u DEF PhaseB, Decide
<1>i. i \in Nat /\ i' \in Nat
  <2>1. i \in Nat
    BY DEF FetchInv, Shape
  <2>2. i' = i \/ i' = i + 1 \/ i' = 1
    BY DEF PhaseB
  <2> QED
    BY <2>1, <2>2
<1>1. Shape'
  BY <1>s, <1>u, <1>i, ShapeKept DEF FetchInv
<1>2. QuietInv'
  BY <1>s, <1>u, QuietKept DEF FetchInv, Early
<1>3. CountInv'
  BY <1>s, <1>u, CountKept DEF FetchInv
<1>4. PrefetchInv'
  BY <1>u, <1>v, PrefetchKept DEF FetchInv, SyncInv
<1>5. NoFetchInv'
  <2>1. cmd.flag = "no-fetch" => pc' = "phase B"
    BY <1>s DEF PhaseB, ShouldFetch
  <2> QED
    BY <2>1, <1>u DEF FetchInv, SyncInv, NoFetchInv
<1>6. SettledInv'
  <2>1. \A l \in DOMAIN cmd.plan : l < i => Settled(l)
    BY <1>s DEF FetchInv, SyncInv, SettledInv
  <2>2. \A l \in DOMAIN cmd.plan : l < i => Settled(l)'
    BY <1>u, <1>v, <2>1, SettledKept
  <2>3. CASE pc' = "fetch"
    <3>1. i' = i
      BY <2>3, <1>s DEF PhaseB
    <3> QED
      BY <2>2, <2>3, <3>1, <1>u DEF SettledInv
  <2>4. CASE pc' = "phase B"
    <3>1. i' = i + 1 /\ ~(ShouldFetch(cmd.plan[i]) /\ ~Covered(cmd.plan[i]))
      BY <2>4, <1>s DEF PhaseB
    <3>2. Decide(cmd.plan[i])
      BY DEF PhaseB
    <3>3. cmd.flag \in Flags /\ DOMAIN cmd.plan = 1..Len(cmd.plan)
      BY DEF FetchInv, Shape
    <3>4. \A l \in DOMAIN cmd.plan : l = i => Settled(l)'
      <4>1. CASE cmd.flag = "ttl" /\ Fresh(cmd.plan[i])
        <5>1. bare[cmd.plan[i]].head \in {"recent", "touched"}
          BY <4>1 DEF Fresh
        <5>2. cmd.plan[i] \in foundFresh' \cup taken'
          BY <3>2, <4>1, <5>1 DEF Decide
        <5> QED
          BY <4>1, <5>2, <1>u DEF Settled
      <4>2. CASE ~(cmd.flag = "ttl" /\ Fresh(cmd.plan[i]))
        BY <3>1, <3>3, <4>2, <1>u DEF Settled, ShouldFetch, Covered, Flags
      <4> QED
        BY <4>1, <4>2
    <3>n. i' = i + 1
      BY <3>1
    <3>m. \A l \in DOMAIN cmd.plan : l < i' => l < i \/ l = i
      BY <3>3, <3>n, <1>i DEF FetchInv, Shape
    <3>5. \A l \in DOMAIN cmd.plan : l < i' => Settled(l)'
      BY <2>2, <3>4, <3>m
    <3> QED
      BY <2>4, <3>5, <1>u DEF SettledInv
  <2> QED
    BY <1>s, <2>3, <2>4
<1>7. AliasInv'
  BY <1>s, <1>u, AliasKept DEF FetchInv, SyncInv
<1> QED
  BY <1>1, <1>2, <1>3, <1>4, <1>5, <1>6, <1>7 DEF FetchInv, SyncInv

LEMMA PhaseBFetchFetchInv ==
    ASSUME FetchInv, PhaseBFetch
    PROVE  FetchInv'
<1>s. pc \in {"fetch", "retry"} /\ pc' \in {"phase B", "retry"}
  BY DEF PhaseBFetch
<1>u. UNCHANGED <<cmd, round, go, chan, closed, prefetched, foundFresh, taken>>
  BY DEF PhaseBFetch
<1>v. fetched \subseteq fetched' /\ foundFresh \cup taken \subseteq foundFresh' \cup taken'
  BY <1>u DEF PhaseBFetch, FetchOk, FetchFails
<1>i. i \in Nat /\ i' \in Nat
  <2>1. i \in Nat
    BY DEF FetchInv, Shape
  <2>2. i' = i \/ i' = i + 1 \/ i' = 1
    BY DEF PhaseBFetch
  <2> QED
    BY <2>1, <2>2
<1>1. Shape'
  BY <1>s, <1>u, <1>i, ShapeKept DEF FetchInv
<1>2. QuietInv'
  BY <1>s, <1>u, QuietKept DEF FetchInv, Early
<1>3. CountInv'
  BY <1>s, <1>u, CountKept DEF FetchInv
<1>4. PrefetchInv'
  BY <1>u, <1>v, PrefetchKept DEF FetchInv, SyncInv
<1>5. NoFetchInv'
  <2>1. cmd.flag # "no-fetch"
    BY <1>s DEF FetchInv, SyncInv, NoFetchInv
  <2> QED
    BY <2>1, <1>u DEF NoFetchInv
<1>6. SettledInv'
  <2>1. \A l \in DOMAIN cmd.plan : l < i => Settled(l)
    BY <1>s DEF FetchInv, SyncInv, SettledInv
  <2>2. \A l \in DOMAIN cmd.plan : l < i => Settled(l)'
    BY <1>u, <1>v, <2>1, SettledKept
  <2>3. CASE pc' = "retry"
    <3>1. i' = i
      BY <2>3, <1>s DEF PhaseBFetch
    <3> QED
      BY <2>2, <2>3, <3>1, <1>u DEF SettledInv
  <2>4. CASE pc' = "phase B"
    <3>1. i' = i + 1 /\ FetchOk(cmd.plan[i])
      BY <2>4, <1>s DEF PhaseBFetch
    <3>2. DOMAIN cmd.plan = 1..Len(cmd.plan)
      BY DEF FetchInv, Shape
    <3>3. \A l \in DOMAIN cmd.plan : l = i => Settled(l)'
      BY <3>1, <1>u DEF Settled, FetchOk
    <3>n. i' = i + 1
      BY <3>1
    <3>m. \A l \in DOMAIN cmd.plan : l < i' => l < i \/ l = i
      BY <3>2, <3>n, <1>i DEF FetchInv, Shape
    <3>4. \A l \in DOMAIN cmd.plan : l < i' => Settled(l)'
      BY <2>2, <3>3, <3>m
    <3> QED
      BY <2>4, <3>4, <1>u DEF SettledInv
  <2> QED
    BY <1>s, <2>3, <2>4
<1>7. AliasInv'
  BY <1>s, <1>u, AliasKept DEF FetchInv, SyncInv
<1> QED
  BY <1>1, <1>2, <1>3, <1>4, <1>5, <1>6, <1>7 DEF FetchInv, SyncInv

LEMMA PhaseBEndsFetchInv ==
    ASSUME FetchInv, PhaseBEnds
    PROVE  FetchInv'
<1>s. pc = "phase B" /\ pc' \in {"preflight", "apply"}
  BY DEF PhaseBEnds
<1>u. UNCHANGED <<cmd, round, go, chan, closed, prefetched, fetched, foundFresh, taken>>
  BY DEF PhaseBEnds
<1>v. fetched \subseteq fetched' /\ foundFresh \cup taken \subseteq foundFresh' \cup taken'
  BY <1>u
<1>i. i \in Nat /\ i' \in Nat
  <2>1. i \in Nat
    BY DEF FetchInv, Shape
  <2>2. i' = i \/ i' = i + 1 \/ i' = 1
    BY DEF PhaseBEnds
  <2> QED
    BY <2>1, <2>2
<1>1. Shape'
  BY <1>s, <1>u, <1>i, ShapeKept DEF FetchInv
<1>2. QuietInv'
  BY <1>s, <1>u, QuietKept DEF FetchInv, Early
<1>3. CountInv'
  BY <1>s, <1>u, CountKept DEF FetchInv
<1>4. PrefetchInv'
  BY <1>u, <1>v, PrefetchKept DEF FetchInv, SyncInv
<1>5. NoFetchInv'
  BY <1>s, <1>u, NoFetchKept DEF FetchInv, SyncInv
<1>6. SettledInv'
  <2>1. \A l \in DOMAIN cmd.plan : l < i => Settled(l)
    BY <1>s DEF FetchInv, SyncInv, SettledInv
  <2>a. i > Len(cmd.plan)
    BY DEF PhaseBEnds
  <2>b. Len(cmd.plan) \in Nat /\ DOMAIN cmd.plan = 1..Len(cmd.plan)
    BY DEF FetchInv, Shape
  <2>2. \A l \in DOMAIN cmd.plan : l < i
    BY <1>i, <2>a, <2>b
  <2>3. \A l \in DOMAIN cmd.plan : Settled(l)'
    BY <1>u, <1>v, <2>1, <2>2, SettledKept
  <2> QED
    BY <1>s, <1>u, <2>3 DEF SettledInv
<1>7. AliasInv'
  <2>1. round \in {1, 2} /\ (round = 2 => AliasesDiffer)
    BY DEF FetchInv, SyncInv, AliasInv
  <2>2. pc' = "apply" => round = 2
    BY <2>1 DEF PhaseBEnds
  <2>3. pc' # "confirm"
    BY <1>s
  <2>4. AliasesDiffer => AliasesDiffer'
    BY <1>u DEF AliasesDiffer
  <2> QED
    BY <1>s, <1>u, <2>1, <2>2, <2>3, <2>4 DEF AliasInv
<1> QED
  BY <1>1, <1>2, <1>3, <1>4, <1>5, <1>6, <1>7 DEF FetchInv, SyncInv

LEMMA PreflightFetchInv ==
    ASSUME FetchInv, Preflight
    PROVE  FetchInv'
<1>s. pc = "preflight" /\ pc' \in {"confirm", "apply"}
  BY DEF Preflight
<1>u. UNCHANGED <<cmd, round, go, chan, closed, prefetched, fetched, foundFresh, taken>>
  BY DEF Preflight
<1>v. fetched \subseteq fetched' /\ foundFresh \cup taken \subseteq foundFresh' \cup taken'
  BY <1>u
<1>i. i \in Nat /\ i' \in Nat
  <2>1. i \in Nat
    BY DEF FetchInv, Shape
  <2>2. i' = i \/ i' = i + 1 \/ i' = 1
    BY DEF Preflight
  <2> QED
    BY <2>1, <2>2
<1>1. Shape'
  BY <1>s, <1>u, <1>i, ShapeKept DEF FetchInv
<1>2. QuietInv'
  BY <1>s, <1>u, QuietKept DEF FetchInv, Early
<1>3. CountInv'
  BY <1>s, <1>u, CountKept DEF FetchInv
<1>4. PrefetchInv'
  BY <1>u, <1>v, PrefetchKept DEF FetchInv, SyncInv
<1>5. NoFetchInv'
  BY <1>s, <1>u, NoFetchKept DEF FetchInv, SyncInv
<1>6. SettledInv'
  <2>1. \A l \in DOMAIN cmd.plan : Settled(l)
    BY <1>s DEF FetchInv, SyncInv, SettledInv
  <2>2. \A l \in DOMAIN cmd.plan : Settled(l)'
    BY <1>u, <1>v, <2>1, SettledKept
  <2> QED
    BY <1>s, <1>u, <2>2 DEF SettledInv
<1>7. AliasInv'
  <2>1. AliasesDiffer'
    BY <1>u DEF Preflight, AliasesDiffer
  <2>2. round' \in {1, 2}
    BY <1>u DEF FetchInv, SyncInv, AliasInv
  <2> QED
    BY <2>1, <2>2 DEF AliasInv
<1> QED
  BY <1>1, <1>2, <1>3, <1>4, <1>5, <1>6, <1>7 DEF FetchInv, SyncInv

LEMMA ConfirmedFetchInv ==
    ASSUME FetchInv, Confirm, ~Return
    PROVE  FetchInv'
<1>s. pc = "confirm" /\ pc' = "phase B" /\ i' = 1 /\ round' = 2
  BY DEF Confirm
<1>u. UNCHANGED <<cmd, go, chan, closed, prefetched, fetched, foundFresh, taken>>
  BY DEF Confirm
<1>v. fetched \subseteq fetched' /\ foundFresh \cup taken \subseteq foundFresh' \cup taken'
  BY <1>u
<1>i. i \in Nat /\ i' \in Nat
  <2>1. i \in Nat
    BY DEF FetchInv, Shape
  <2>2. i' = i \/ i' = i + 1 \/ i' = 1
    BY DEF Confirm
  <2> QED
    BY <2>1, <2>2
<1>1. Shape'
  BY <1>s, <1>u, <1>i, ShapeKept DEF FetchInv
<1>2. QuietInv'
  BY <1>s, <1>u, QuietKept DEF FetchInv, Early
<1>3. CountInv'
  BY <1>s, <1>u, CountKept DEF FetchInv
<1>4. PrefetchInv'
  BY <1>u, <1>v, PrefetchKept DEF FetchInv, SyncInv
<1>5. NoFetchInv'
  BY <1>s, <1>u, NoFetchKept DEF FetchInv, SyncInv
<1>6. SettledInv'
  <2>1. DOMAIN cmd.plan' = 1..Len(cmd.plan)
    BY <1>u DEF FetchInv, Shape
  <2>i. i' = 1
    BY <1>s
  <2>2. \A l \in DOMAIN cmd.plan' : ~(l < i')
    BY <2>i, <2>1
  <2> QED
    BY <1>s, <2>2 DEF SettledInv
<1>7. AliasInv'
  <2>1. AliasesDiffer
    BY <1>s DEF FetchInv, SyncInv, AliasInv
  <2>2. AliasesDiffer'
    BY <2>1, <1>u DEF AliasesDiffer
  <2> QED
    BY <1>s, <2>2 DEF AliasInv
<1> QED
  BY <1>1, <1>2, <1>3, <1>4, <1>5, <1>6, <1>7 DEF FetchInv, SyncInv

LEMMA ConfirmFetchInv ==
    ASSUME FetchInv, Confirm
    PROVE  FetchInv'
<1>1. CASE Return
  BY <1>1, ReturnFetchInv DEF Confirm
<1>2. CASE ~Return
  BY <1>2, ConfirmedFetchInv
<1> QED
  BY <1>1, <1>2
-----------------------------------------------------------------------------
(***************************************************************************)
(* Facts about the channel and about the two sets that are counted.        *)
(***************************************************************************)
LEMMA SendAppends ==
    ASSUME Shape, NEW j \in DOMAIN cmd.plan, NEW type \in {"start", "done"},
           NEW reason \in Reasons,
           Send(j, type, reason), UNCHANGED cmd
    PROVE  /\ chan' \in Seq(Events') /\ Len(chan) \in Nat
           /\ Len(chan') = Len(chan) + 1
<1> DEFINE ev == [key |-> KeyOf[cmd.plan[j]], type |-> type, reason |-> reason]
<1>1. ev \in Events
  BY DEF Events
<1>2. chan' = Append(chan, ev)
  BY DEF Send
<1>3. chan \in Seq(Events)
  BY DEF Shape
<1>4. Events' = Events
  BY DEF Events
<1>e. \E e \in Events : chan' = Append(chan, e)
  BY <1>1, <1>2
<1>5. PICK e \in Events : chan' = Append(chan, e)
  BY <1>e
<1>6. Len(chan) \in Nat
  BY <1>3, LenProperties
<1>7. chan' \in Seq(Events) /\ Len(chan') = Len(chan) + 1
  BY <1>3, <1>5, AppendProperties
<1> QED
  BY <1>4, <1>6, <1>7

LEMMA CountedFinite ==
    ASSUME Shape
    PROVE  /\ Len(go) \in Nat /\ DOMAIN go = 1..Len(go)
           /\ IsFiniteSet(Started) /\ IsFiniteSet(Reported)
           /\ Cardinality(Started) \in Nat /\ Cardinality(Started) <= Len(go)
           /\ Cardinality(Reported) \in Nat /\ Cardinality(Reported) <= Len(go)
<1>1. Len(go) \in Nat /\ DOMAIN go = 1..Len(go)
  BY LenProperties DEF Shape
<1>2. IsFiniteSet(1..Len(go)) /\ Cardinality(1..Len(go)) = Len(go)
  <2>1. 1 \in Int /\ Len(go) \in Int
    BY <1>1
  <2>2. /\ IsFiniteSet(1..Len(go))
        /\ Cardinality(1..Len(go)) = IF 1 > Len(go) THEN 0 ELSE Len(go) - 1 + 1
    BY <2>1, FS_Interval
  <2>3. (IF 1 > Len(go) THEN 0 ELSE Len(go) - 1 + 1) = Len(go)
    BY <1>1
  <2> QED
    BY <2>2, <2>3
<1>3. Started \in SUBSET (1..Len(go)) /\ Reported \in SUBSET (1..Len(go))
  BY <1>1 DEF Started, Reported
<1>4. IsFiniteSet(Started) /\ Cardinality(Started) <= Len(go)
  BY <1>2, <1>3, FS_Subset
<1>5. IsFiniteSet(Reported) /\ Cardinality(Reported) <= Len(go)
  BY <1>2, <1>3, FS_Subset
<1>6. Cardinality(Started) \in Nat /\ Cardinality(Reported) \in Nat
  BY <1>4, <1>5, FS_CardinalityType
<1> QED
  BY <1>1, <1>4, <1>5, <1>6

LEMMA CountGrows ==
    ASSUME Shape, CountInv, NEW x, Len(chan') = Len(chan) + 1, Len(chan) \in Nat,
           \/ Started' = Started \cup {x} /\ x \notin Started /\ Reported' = Reported
           \/ Reported' = Reported \cup {x} /\ x \notin Reported /\ Started' = Started
    PROVE  CountInv'
<1>1. /\ IsFiniteSet(Started) /\ IsFiniteSet(Reported)
      /\ Cardinality(Started) \in Nat /\ Cardinality(Reported) \in Nat
  BY CountedFinite
<1>2. x \notin Started => Cardinality(Started \cup {x}) = Cardinality(Started) + 1
  BY <1>1, FS_AddElement
<1>3. x \notin Reported => Cardinality(Reported \cup {x}) = Cardinality(Reported) + 1
  BY <1>1, FS_AddElement
<1>4. CASE Started' = Started \cup {x} /\ x \notin Started /\ Reported' = Reported
  <2>1. Cardinality(Started') = Cardinality(Started) + 1
    BY <1>2, <1>4
  <2>2. Cardinality(Reported') = Cardinality(Reported)
    BY <1>4
  <2> QED
    BY <1>1, <2>1, <2>2 DEF CountInv
<1>5. CASE Reported' = Reported \cup {x} /\ x \notin Reported /\ Started' = Started
  <2>1. Cardinality(Reported') = Cardinality(Reported) + 1
    BY <1>3, <1>5
  <2>2. Cardinality(Started') = Cardinality(Started)
    BY <1>5
  <2> QED
    BY <1>1, <2>1, <2>2 DEF CountInv
<1> QED
  BY <1>4, <1>5

(***************************************************************************)
(* While the command reads input the channel is open.                      *)
(***************************************************************************)
LEMMA QuietEarly ==
    ASSUME QuietInv, pc \in Early, UNCHANGED closed, pc' \in Early
    PROVE  QuietInv'
<1>1. ~closed
  BY DEF QuietInv
<1>2. ~closed'
  BY <1>1
<1> QED
  BY <1>2 DEF QuietInv

(***************************************************************************)
(* The next input.                                                         *)
(***************************************************************************)
LEMMA InputFetchInv ==
    ASSUME FetchInv, Input
    PROVE  FetchInv'
<1>s. pc = "input" /\ pc' \in {"input", "skip"}
  BY DEF Input
<1>u. UNCHANGED <<cmd, round, chan, closed, prefetched, fetched>>
  BY DEF Input
<1>v. fetched \subseteq fetched'
  BY <1>u
<1>n. Len(go) \in Nat /\ DOMAIN go = 1..Len(go)
  BY CountedFinite DEF FetchInv
<1>g. \E x \in {"start", "none"} :
         /\ go' = Append(go, x)
         /\ x = "start" => pc' = "input" /\ i' = i + 1 /\ ShouldFetch(cmd.plan[i])
         /\ x = "none" => pc' = "skip" /\ i' = i
  BY <1>s DEF Input
<1>x. PICK x \in {"start", "none"} :
         /\ go' = Append(go, x)
         /\ x = "start" => pc' = "input" /\ i' = i + 1 /\ ShouldFetch(cmd.plan[i])
         /\ x = "none" => pc' = "skip" /\ i' = i
  BY <1>g
<1>y. x \in Stage
  BY DEF Stage
<1>z. go \in Seq(Stage)
  BY DEF FetchInv, Shape
<1>a. /\ go' \in Seq(Stage) /\ Len(go') = Len(go) + 1
      /\ \A j \in 1..Len(go) : go'[j] = go[j]
      /\ go'[Len(go) + 1] = x
  BY <1>x, <1>y, <1>z, AppendProperties
<1>d. DOMAIN go' = 1..(Len(go) + 1)
  BY <1>a, LenProperties
<1>i. i = Len(go) + 1
  BY <1>s DEF FetchInv, Shape
<1>1. Shape'
  <2>1. /\ Len(cmd.plan) \in Nat /\ DOMAIN cmd.plan = 1..Len(cmd.plan)
        /\ cmd.flag \in Flags /\ chan \in Seq(Events)
    BY DEF FetchInv, Shape
  <2>2. Events' = Events
    BY <1>u DEF Events
  <2>3. Len(go') <= Len(cmd.plan)
    <3>1. i <= Len(cmd.plan)
      BY DEF Input
    <3> QED
      BY <3>1, <1>i, <1>a
  <2>4. i' \in Nat
    <3>1. i' = i \/ i' = i + 1
      BY <1>x
    <3> QED
      BY <3>1, <1>i, <1>n
  <2>5. pc' = "input" => i' = Len(go') + 1
    <3>1. pc' = "input" => i' = i + 1
      BY <1>x
    <3> QED
      BY <3>1, <1>i, <1>a, <1>n
  <2>6. pc' = "skip" => i' \in DOMAIN go' /\ i' = Len(go') /\ go'[i'] = "none"
    <3>1. pc' = "skip" => i' = i /\ x = "none"
      BY <1>x
    <3>2. i = Len(go') /\ i \in DOMAIN go' /\ go'[i] = x
      BY <1>i, <1>a, <1>d, <1>n
    <3> QED
      BY <3>1, <3>2
  <2> QED
    BY <1>a, <1>u, <2>1, <2>2, <2>3, <2>4, <2>5, <2>6 DEF Shape
<1>2. QuietInv'
  BY <1>s, <1>u, QuietEarly DEF FetchInv, Early
<1>3. CountInv'
  <2>1. Started' = Started
    <3>1. \A j \in DOMAIN go' : j \in DOMAIN go \/ (j = i /\ go'[j] = x)
      BY <1>d, <1>n, <1>i, <1>a
    <3>2. \A j \in DOMAIN go : j \in DOMAIN go' /\ go'[j] = go[j]
      BY <1>d, <1>n, <1>a
    <3> QED
      BY <3>1, <3>2 DEF Started
  <2>2. Reported' = Reported
    <3>1. \A j \in DOMAIN go' : j \in DOMAIN go \/ (j = i /\ go'[j] = x)
      BY <1>d, <1>n, <1>i, <1>a
    <3>2. \A j \in DOMAIN go : j \in DOMAIN go' /\ go'[j] = go[j] /\ j # i
      BY <1>d, <1>n, <1>a, <1>i
    <3>3. pc # "skip"
      BY <1>s
    <3>4. x = "none" => pc' = "skip" /\ i' = i
      BY <1>x
    <3>5. pc' = "skip" => i' = i
      BY <1>x
    <3> QED
      BY <3>1, <3>2, <3>3, <3>4, <3>5 DEF Reported
  <2> QED
    BY <2>1, <2>2, <1>u DEF FetchInv, CountInv
<1>4. PrefetchInv'
  BY <1>u, <1>v, PrefetchKept DEF FetchInv, SyncInv
<1>5. NoFetchInv'
  <2>1. SUFFICES ASSUME cmd.flag = "no-fetch"
                 PROVE  fetched = {} /\ \A j \in DOMAIN go' : go'[j] = "none"
    BY <1>s, <1>u DEF NoFetchInv
  <2>2. fetched = {} /\ \A j \in DOMAIN go : go[j] = "none"
    BY <2>1 DEF FetchInv, SyncInv, NoFetchInv
  <2>3. x = "none"
    BY <2>1, <1>x DEF ShouldFetch
  <2>4. \A j \in DOMAIN go' : j \in 1..Len(go) \/ j = Len(go) + 1
    BY <1>d, <1>n
  <2> QED
    BY <2>2, <2>3, <2>4, <1>a, <1>n
<1>6. SettledInv'
  BY <1>s, SettledLater
<1>7. AliasInv'
  BY <1>s, <1>u, AliasKept DEF FetchInv, SyncInv
<1> QED
  BY <1>1, <1>2, <1>3, <1>4, <1>5, <1>6, <1>7 DEF FetchInv, SyncInv

(***************************************************************************)
(* The command reports a fetch that is not needed.                         *)
(***************************************************************************)
LEMMA ReportSkipFetchInv ==
    ASSUME FetchInv, ReportSkip
    PROVE  FetchInv'
<1>s. pc = "skip" /\ pc' = "input"
  BY DEF ReportSkip
<1>u. UNCHANGED <<cmd, round, go, closed, prefetched, fetched>>
  BY DEF ReportSkip
<1>v. fetched \subseteq fetched'
  BY <1>u
<1>i. i' = i + 1
  BY DEF ReportSkip
<1>h. Shape /\ CountInv
  BY DEF FetchInv
<1>g. i \in DOMAIN go /\ i = Len(go) /\ go[i] = "none" /\ i \in Nat
  BY <1>s, <1>h DEF Shape
<1>n. Len(go) \in Nat /\ DOMAIN go = 1..Len(go)
  BY <1>h, CountedFinite
<1>p. i \in DOMAIN cmd.plan
  BY <1>g, <1>h, <1>n DEF Shape
<1>c. chan' \in Seq(Events') /\ Len(chan) \in Nat /\ Len(chan') = Len(chan) + 1
  <2>1. Send(i, "done", "skipped")
    BY DEF ReportSkip
  <2> QED
    BY <2>1, <1>h, <1>p, <1>u, SendAppends DEF Reasons
<1>1. Shape'
  <2>1. /\ Len(cmd.plan) \in Nat /\ DOMAIN cmd.plan = 1..Len(cmd.plan)
        /\ cmd.flag \in Flags /\ go \in Seq(Stage) /\ Len(go) <= Len(cmd.plan)
    BY <1>h DEF Shape
  <2>2. i' = Len(go) + 1 /\ i' \in Nat
    BY <1>i, <1>g
  <2>3. pc' # "skip"
    BY <1>s
  <2> QED
    BY <1>c, <1>u, <2>1, <2>2, <2>3 DEF Shape
<1>2. QuietInv'
  BY <1>s, <1>u, QuietEarly DEF FetchInv, Early
<1>3. CountInv'
  <2>1. Started' = Started
    BY <1>u DEF Started
  <2>2. pc' # "skip"
    BY <1>s
  <2>3. Reported' = Reported \cup {i}
    BY <1>s, <1>u, <1>g, <2>2 DEF Reported
  <2>4. i \notin Reported
    BY <1>s DEF Reported
  <2>5. \E x : Reported' = Reported \cup {x} /\ x \notin Reported /\ Started' = Started
    BY <2>1, <2>3, <2>4
  <2> QED
    BY <2>5, <1>h, <1>c, CountGrows
<1>4. PrefetchInv'
  BY <1>u, <1>v, PrefetchKept DEF FetchInv, SyncInv
<1>5. NoFetchInv'
  BY <1>s, <1>u, NoFetchKept DEF FetchInv, SyncInv
<1>6. SettledInv'
  BY <1>s, SettledLater
<1>7. AliasInv'
  BY <1>s, <1>u, AliasKept DEF FetchInv, SyncInv
<1> QED
  BY <1>1, <1>2, <1>3, <1>4, <1>5, <1>6, <1>7 DEF FetchInv, SyncInv

(***************************************************************************)
(* A goroutine goes on: it can only run while the command reads input or   *)
(* waits, so the channel is open and nothing is settled.                   *)
(***************************************************************************)
LEMMA GoStep ==
    ASSUME FetchInv, NEW j \in DOMAIN go, pc # "ended", Running(j),
           NEW x \in Stage \ {"none"}, go' = [go EXCEPT ![j] = x],
           UNCHANGED <<cmd, pc, i, round, closed>>, chan' \in Seq(Events')
    PROVE  /\ Shape' /\ QuietInv' /\ SettledInv' /\ AliasInv'
           /\ cmd.flag # "no-fetch"
           /\ DOMAIN go' = DOMAIN go /\ go'[j] = x
           /\ \A l \in DOMAIN go : l # j => go'[l] = go[l]
           /\ j \in DOMAIN cmd.plan
           /\ ~(pc = "skip" /\ j = i)
<1>h. Shape /\ QuietInv
  BY DEF FetchInv
<1>n. Len(go) \in Nat /\ DOMAIN go = 1..Len(go)
  BY <1>h, CountedFinite
<1>z. go \in Seq(Stage) /\ x \in Stage
  BY <1>h DEF Shape
<1>a. /\ go' \in Seq(Stage) /\ Len(go') = Len(go)
      /\ \A l \in 1..Len(go) : go'[l] = IF l = j THEN x ELSE go[l]
  BY <1>n, <1>z, ExceptSeq
<1>d. DOMAIN go' = DOMAIN go
  BY <1>a, <1>n, LenProperties
<1>b. go'[j] = x /\ \A l \in DOMAIN go : l # j => go'[l] = go[l]
  BY <1>a, <1>n
<1>e. pc \in Early
  BY <1>h DEF QuietInv, Quiet
<1>k. ~(pc = "skip" /\ j = i)
  BY <1>h DEF Shape, Running
<1>p. j \in DOMAIN cmd.plan
  BY <1>h, <1>n DEF Shape
<1>1. Shape'
  <2>1. /\ Len(cmd.plan) \in Nat /\ DOMAIN cmd.plan = 1..Len(cmd.plan)
        /\ cmd.flag \in Flags /\ Len(go) <= Len(cmd.plan) /\ i \in Nat
        /\ pc = "input" => i = Len(go) + 1
    BY <1>h DEF Shape
  <2>2. pc = "skip" => i \in DOMAIN go /\ i = Len(go) /\ go[i] = "none"
    BY <1>h DEF Shape
  <2>3. pc = "skip" => i \in DOMAIN go' /\ i = Len(go') /\ go'[i] = "none"
    BY <2>2, <1>a, <1>b, <1>d, <1>k
  <2> QED
    BY <2>1, <2>3, <1>a DEF Shape
<1>2. QuietInv'
  BY <1>e, <1>h, QuietEarly
<1>3. SettledInv'
  BY <1>e, SettledLater DEF Early
<1>4. AliasInv'
  BY <1>e, AliasKept DEF FetchInv, SyncInv, Early
<1>5. cmd.flag # "no-fetch"
  BY DEF FetchInv, SyncInv, NoFetchInv, Running
<1> QED
  BY <1>1, <1>2, <1>3, <1>4, <1>5, <1>b, <1>d, <1>p, <1>k

(***************************************************************************)
(* The three steps of a goroutine.                                         *)
(***************************************************************************)
LEMMA GoStartFetchInv ==
    ASSUME FetchInv, NEW j \in DOMAIN go, pc # "ended", GoStart(j)
    PROVE  FetchInv'
<1>u. UNCHANGED <<cmd, pc, i, round, closed, prefetched, fetched>>
  BY DEF GoStart
<1>v. fetched \subseteq fetched'
  BY <1>u
<1>g. go[j] = "start" /\ go' = [go EXCEPT ![j] = "fetch"]
  BY DEF GoStart, GoSet
<1>r. Running(j)
  BY <1>g DEF Running
<1>h. Shape /\ CountInv
  BY DEF FetchInv
<1>p. j \in DOMAIN cmd.plan
  BY <1>h, CountedFinite DEF Shape
<1>c. chan' \in Seq(Events') /\ Len(chan) \in Nat /\ Len(chan') = Len(chan) + 1
  <2>1. Send(j, "start", "")
    BY DEF GoStart
  <2> QED
    BY <2>1, <1>h, <1>p, <1>u, SendAppends DEF Reasons
<1>x. "fetch" \in Stage \ {"none"}
  BY DEF Stage
<1>f. /\ Shape' /\ QuietInv' /\ SettledInv' /\ AliasInv'
      /\ cmd.flag # "no-fetch"
      /\ DOMAIN go' = DOMAIN go /\ go'[j] = "fetch"
      /\ \A l \in DOMAIN go : l # j => go'[l] = go[l]
  BY <1>u, <1>g, <1>r, <1>c, <1>x, GoStep
<1>3. CountInv'
  <2>1. Started' = Started \cup {j} /\ j \notin Started
    BY <1>f, <1>g DEF Started
  <2>2. Reported' = Reported
    BY <1>f, <1>g, <1>u DEF Reported
  <2> QED
    BY <2>1, <2>2, <1>h, <1>c, CountGrows
<1>4. PrefetchInv'
  BY <1>u, <1>v, PrefetchKept DEF FetchInv, SyncInv
<1>5. NoFetchInv'
  BY <1>f, <1>u DEF NoFetchInv
<1> QED
  BY <1>3, <1>4, <1>5, <1>f DEF FetchInv, SyncInv

LEMMA GoReportFetchInv ==
    ASSUME FetchInv, NEW j \in DOMAIN go, pc # "ended", GoReport(j)
    PROVE  FetchInv'
<1>u. UNCHANGED <<cmd, pc, i, round, closed, prefetched, fetched>>
  BY DEF GoReport
<1>v. fetched \subseteq fetched'
  BY <1>u
<1>g. go[j] \in {"report ok", "report failed"}
  BY DEF GoReport
<1>w. \E x \in {"ok", "failed"} : go' = [go EXCEPT ![j] = x]
  BY DEF GoReport, GoSet
<1>x. PICK x \in {"ok", "failed"} : go' = [go EXCEPT ![j] = x]
  BY <1>w
<1>y. x \in Stage \ {"none"}
  BY DEF Stage
<1>r. Running(j)
  BY <1>g DEF Running
<1>h. Shape /\ CountInv
  BY DEF FetchInv
<1>p. j \in DOMAIN cmd.plan
  BY <1>h, CountedFinite DEF Shape
<1>c. chan' \in Seq(Events') /\ Len(chan) \in Nat /\ Len(chan') = Len(chan) + 1
  <2>1. Send(j, "done", "complete") \/ Send(j, "done", "error")
    BY DEF GoReport
  <2> QED
    BY <2>1, <1>h, <1>p, <1>u, SendAppends DEF Reasons
<1>f. /\ Shape' /\ QuietInv' /\ SettledInv' /\ AliasInv'
      /\ cmd.flag # "no-fetch"
      /\ DOMAIN go' = DOMAIN go /\ go'[j] = x
      /\ \A l \in DOMAIN go : l # j => go'[l] = go[l]
      /\ ~(pc = "skip" /\ j = i)
  BY <1>u, <1>x, <1>r, <1>c, <1>y, GoStep
<1>3. CountInv'
  <2>a. /\ DOMAIN go' = DOMAIN go /\ go'[j] \in {"ok", "failed"}
        /\ \A l \in DOMAIN go : l # j => go'[l] = go[l]
    BY <1>f, <1>x
  <2>b. ~(pc = "skip" /\ j = i) /\ pc' = pc /\ i' = i
    BY <1>f, <1>u
  <2>c. j \notin Reported
    BY <1>g DEF Reported
  <2>d. \A l \in DOMAIN go : l \in Reported' <=> l \in Reported \/ l = j
    BY <2>a, <2>b DEF Reported
  <2>e. Reported \subseteq DOMAIN go /\ Reported' \subseteq DOMAIN go
    BY <2>a DEF Reported
  <2>1. Reported' = Reported \cup {j} /\ j \notin Reported
    BY <2>c, <2>d, <2>e
  <2>2. Started' = Started
    BY <1>f, <1>g DEF Started
  <2> QED
    BY <2>1, <2>2, <1>h, <1>c, CountGrows
<1>4. PrefetchInv'
  BY <1>u, <1>v, PrefetchKept DEF FetchInv, SyncInv
<1>5. NoFetchInv'
  BY <1>f, <1>u DEF NoFetchInv
<1> QED
  BY <1>3, <1>4, <1>5, <1>f DEF FetchInv, SyncInv

LEMMA GoFetchFetchInv ==
    ASSUME FetchInv, NEW j \in DOMAIN go, pc # "ended", GoFetch(j)
    PROVE  FetchInv'
<1>u. UNCHANGED <<cmd, pc, i, round, chan, closed>>
  BY DEF GoFetch
<1>v. fetched \subseteq fetched'
  BY DEF GoFetch, FetchOk, FetchFails
<1>g. go[j] \in {"fetch", "retry"}
  BY DEF GoFetch
<1>w. \E x \in {"report ok", "retry", "report failed"} : go' = [go EXCEPT ![j] = x]
  BY DEF GoFetch, GoSet
<1>x. PICK x \in {"report ok", "retry", "report failed"} : go' = [go EXCEPT ![j] = x]
  BY <1>w
<1>y. x \in Stage \ {"none"}
  BY DEF Stage
<1>r. Running(j)
  BY <1>g DEF Running
<1>h. Shape /\ CountInv
  BY DEF FetchInv
<1>c. chan' \in Seq(Events')
  BY <1>h, <1>u DEF Shape, Events
<1>f. /\ Shape' /\ QuietInv' /\ SettledInv' /\ AliasInv'
      /\ cmd.flag # "no-fetch"
      /\ DOMAIN go' = DOMAIN go /\ go'[j] = x
      /\ \A l \in DOMAIN go : l # j => go'[l] = go[l]
      /\ j \in DOMAIN cmd.plan
  BY <1>u, <1>x, <1>r, <1>c, <1>y, GoStep
<1>3. CountInv'
  <2>1. Reported' = Reported
    BY <1>f, <1>g, <1>u DEF Reported
  <2>2. Started' = Started
    BY <1>f, <1>g DEF Started
  <2> QED
    BY <2>1, <2>2, <1>h, <1>u DEF CountInv
<1>4. PrefetchInv'
  <2>1. PrefetchInv
    BY DEF FetchInv, SyncInv
  <2>2. \/ prefetched' = prefetched \cup {KeyOf[cmd.plan[j]]} /\ cmd.plan[j] \in fetched'
        \/ prefetched' \subseteq prefetched
    BY DEF GoFetch, FetchOk
  <2>3. \A k \in prefetched' :
            \E l \in DOMAIN cmd.plan : KeyOf[cmd.plan[l]] = k /\ cmd.plan[l] \in fetched'
    <3>1. j \in DOMAIN cmd.plan
      BY <1>f
    <3> QED
      BY <2>1, <2>2, <3>1, <1>v DEF PrefetchInv
  <2> QED
    BY <2>3, <1>u DEF PrefetchInv
<1>5. NoFetchInv'
  BY <1>f, <1>u DEF NoFetchInv
<1> QED
  BY <1>3, <1>4, <1>5, <1>f DEF FetchInv, SyncInv

(***************************************************************************)
(* The printer takes an event or ends.                                     *)
(***************************************************************************)
LEMMA DrainFetchInv ==
    ASSUME FetchInv, Drain
    PROVE  FetchInv'
<1>u. UNCHANGED <<cmd, pc, i, round, go, closed, prefetched, fetched, foundFresh, taken>>
  BY DEF Drain
<1>h. Shape /\ CountInv /\ chan \in Seq(Events)
  BY DEF FetchInv, Shape
<1>t. chan' = chan \/ (chan # <<>> /\ chan' = Tail(chan))
  BY DEF Drain
<1>n. Len(chan) \in Nat
  BY <1>h, LenProperties
<1>c. chan' \in Seq(Events) /\ Len(chan') <= Len(chan) /\ Len(chan') \in Nat
  <2>1. CASE chan' = chan
    BY <2>1, <1>h, <1>n
  <2>2. CASE chan # <<>> /\ chan' = Tail(chan)
    <3>1. Tail(chan) \in Seq(Events) /\ Len(Tail(chan)) = Len(chan) - 1
      BY <2>2, <1>h, HeadTailProperties
    <3>2. Len(chan) # 0
      BY <2>2, <1>h, EmptySeq
    <3> QED
      BY <2>2, <3>1, <3>2, <1>n
  <2> QED
    BY <1>t, <2>1, <2>2
<1>e. Events' = Events
  BY <1>u DEF Events
<1>1. Shape'
  BY <1>u, <1>h, <1>c, <1>e DEF Shape
<1>2. QuietInv'
  BY <1>u, QuietSame DEF FetchInv
<1>3. CountInv'
  <2>1. Started' = Started
    BY <1>u DEF Started
  <2>2. Reported' = Reported
    BY <1>u DEF Reported
  <2>3. Cardinality(Started) \in Nat /\ Cardinality(Reported) \in Nat
    BY <1>h, CountedFinite
  <2> QED
    BY <2>1, <2>2, <2>3, <1>h, <1>c, <1>n DEF CountInv
<1>4. SyncInv'
  BY <1>u, SyncSame DEF FetchInv
<1> QED
  BY <1>1, <1>2, <1>3, <1>4 DEF FetchInv

(***************************************************************************)
(* Steps of others, and no step.                                           *)
(***************************************************************************)
LEMMA SameFetchInv ==
    ASSUME FetchInv,
           UNCHANGED <<cmd, pc, i, round, go, chan, closed, prefetched, fetched, foundFresh, taken>>
    PROVE  FetchInv'
<1>1. Shape'
  BY ShapeSame DEF FetchInv
<1>2. QuietInv'
  BY QuietSame DEF FetchInv
<1>3. CountInv'
  BY CountKept DEF FetchInv
<1>4. SyncInv'
  BY SyncSame DEF FetchInv
<1> QED
  BY <1>1, <1>2, <1>3, <1>4 DEF FetchInv

(***************************************************************************)
(* Every step keeps the invariant.                                         *)
(***************************************************************************)
LEMMA MainFetchInv ==
    ASSUME FetchInv, Main
    PROVE  FetchInv'
<1>1. CASE ReportSkip
  BY <1>1, ReportSkipFetchInv
<1>2. CASE StartPrinter
  BY <1>2, StartPrinterFetchInv
<1>3. CASE WaitAndClose
  BY <1>3, WaitAndCloseFetchInv
<1>4. CASE Join
  BY <1>4, JoinFetchInv
<1>5. CASE PhaseB
  BY <1>5, PhaseBFetchInv
<1>6. CASE PhaseBFetch
  BY <1>6, PhaseBFetchFetchInv
<1>7. CASE PhaseBFails
  <2>1. Return /\ pc # "skip"
    BY <1>7 DEF PhaseBFails
  <2> QED
    BY <2>1, ReturnFetchInv
<1>8. CASE PhaseBEnds
  BY <1>8, PhaseBEndsFetchInv
<1>9. CASE Preflight
  BY <1>9, PreflightFetchInv
<1>10. CASE PreflightFails
  <2>1. Return /\ pc # "skip"
    BY <1>10 DEF PreflightFails
  <2> QED
    BY <2>1, ReturnFetchInv
<1>11. CASE Apply
  <2>1. Return /\ pc # "skip"
    BY <1>11 DEF Apply
  <2> QED
    BY <2>1, ReturnFetchInv
<1> QED
  BY <1>1, <1>2, <1>3, <1>4, <1>5, <1>6, <1>7, <1>8, <1>9, <1>10, <1>11
     DEF Main

LEMMA NextFetchInv ==
    ASSUME FetchInv, [Next]_vars
    PROVE  FetchInv'
<1>1. CASE Main
  BY <1>1, MainFetchInv
<1>2. CASE Input
  BY <1>2, InputFetchInv
<1>3. CASE InputFails
  <2>1. Return /\ pc # "skip"
    BY <1>3 DEF InputFails
  <2> QED
    BY <2>1, ReturnFetchInv
<1>4. CASE Confirm
  BY <1>4, ConfirmFetchInv
<1>5. CASE Drain
  BY <1>5, DrainFetchInv
<1>6. CASE \E j \in DOMAIN go : Goroutine(j)
  <2>1. PICK j \in DOMAIN go : Goroutine(j)
    BY <1>6
  <2>2. pc # "ended" /\ (GoStart(j) \/ GoFetch(j) \/ GoReport(j))
    BY <2>1 DEF Goroutine
  <2> QED
    BY <2>2, GoStartFetchInv, GoFetchFetchInv, GoReportFetchInv
<1>7. CASE \E c \in Planned : Age(c) \/ OtherFetch(c)
  <2>1. UNCHANGED <<cmd, pc, i, round, go, chan, closed, prefetched, fetched, foundFresh, taken>>
    BY <1>7 DEF Age, OtherFetch
  <2> QED
    BY <2>1, SameFetchInv
<1>8. CASE UNCHANGED vars
  <2>1. UNCHANGED <<cmd, pc, i, round, go, chan, closed, prefetched, fetched, foundFresh, taken>>
    BY <1>8 DEF vars
  <2> QED
    BY <2>1, SameFetchInv
<1> QED
  BY <1>1, <1>2, <1>3, <1>4, <1>5, <1>6, <1>7, <1>8 DEF Next, User

(***************************************************************************)
(* The strengthening all results rest on: the goroutines follow the plan,  *)
(* run only before the close, have sent no more events than their stages   *)
(* allow, and phase B has settled what it has passed.                      *)
(***************************************************************************)
THEOREM FetchCorrect == Spec => []FetchInv
<1>1. Init => FetchInv
  BY InitFetchInv
<1>2. FetchInv /\ [Next]_vars => FetchInv'
  BY NextFetchInv
<1> QED
  BY <1>1, <1>2, PTL DEF Spec

(***************************************************************************)
(* However many repositories are selected, the channel has room for every  *)
(* send: each repository sends at most once before its fetch and once      *)
(* after it, and 2n+1 is more than that (runWSAddRepo).                    *)
(***************************************************************************)
THEOREM SendsNeverBlockCorrect == Spec => []SendsNeverBlock
<1>1. FetchInv => SendsNeverBlock
  <2> SUFFICES ASSUME FetchInv PROVE Len(chan) < Capacity
    BY DEF SendsNeverBlock
  <2>1. Shape /\ CountInv /\ chan \in Seq(Events)
    BY DEF FetchInv, Shape
  <2>2. /\ Len(go) \in Nat
        /\ Cardinality(Started) \in Nat /\ Cardinality(Started) <= Len(go)
        /\ Cardinality(Reported) \in Nat /\ Cardinality(Reported) <= Len(go)
    BY <2>1, CountedFinite
  <2>3. Len(chan) \in Nat
    BY <2>1, LenProperties
  <2>4. Len(cmd.plan) \in Nat /\ Len(go) <= Len(cmd.plan)
    BY <2>1 DEF Shape
  <2>5. Len(chan) <= Cardinality(Started) + Cardinality(Reported)
    BY <2>1 DEF CountInv
  <2> QED
    BY <2>2, <2>3, <2>4, <2>5 DEF Capacity
<1> QED
  BY <1>1, FetchCorrect, PTL

(***************************************************************************)
(* Nothing is sent on the closed channel and phase B meets no running      *)
(* goroutine (prefetchWG.Wait before the close, in runWSAddRepo).          *)
(***************************************************************************)
THEOREM NothingAfterCloseCorrect == Spec => []NothingAfterClose
<1>1. FetchInv => NothingAfterClose
  <2>1. FetchInv => (closed => Quiet) /\ (pc = "phase B" => Quiet)
    BY DEF FetchInv, QuietInv, Early
  <2> QED
    BY <2>1 DEF NothingAfterClose, Quiet
<1> QED
  BY <1>1, FetchCorrect, PTL

(***************************************************************************)
(* Whatever is selected and however the fetches end, the apply starts only *)
(* when every repository has had the fetch its flag asks for, although the *)
(* maps confuse repositories of the same owner and name; a FETCH_HEAD that *)
(* a failed fetch has touched counts for one                               *)
(* (ensureAddRepoPlanFetchPhaseB, preflightAddRepoPlan).                   *)
(***************************************************************************)
THEOREM AppliedInSyncCorrect == Spec => []AppliedInSync
<1>1. FetchInv => AppliedInSync
  <2> SUFFICES ASSUME FetchInv, pc = "apply", NEW j \in DOMAIN cmd.plan
               PROVE  CASE cmd.flag = "refresh" -> cmd.plan[j] \in fetched
                        [] cmd.flag = "ttl" -> cmd.plan[j] \in fetched \cup foundFresh \cup taken
                        [] OTHER -> fetched = {}
    BY DEF AppliedInSync
  <2>1. Settled(j)
    BY DEF FetchInv, SyncInv, SettledInv
  <2>2. AliasesDiffer
    BY DEF FetchInv, SyncInv, AliasInv
  <2>3. KeyOf[cmd.plan[j]] \in prefetched => cmd.plan[j] \in fetched
    BY <2>2 DEF FetchInv, SyncInv, PrefetchInv, AliasesDiffer
  <2>4. cmd.flag = "no-fetch" => fetched = {}
    BY DEF FetchInv, SyncInv, NoFetchInv
  <2>5. cmd.flag \in {"ttl", "refresh", "no-fetch"}
    BY DEF FetchInv, Shape, Flags
  <2>6. CASE cmd.flag = "refresh"
    BY <2>1, <2>3, <2>6 DEF Settled
  <2>7. CASE cmd.flag = "ttl"
    BY <2>1, <2>3, <2>7 DEF Settled
  <2>8. CASE cmd.flag = "no-fetch"
    BY <2>4, <2>8
  <2> QED
    BY <2>5, <2>6, <2>7, <2>8
<1> QED
  BY <1>1, FetchCorrect, PTL
-----------------------------------------------------------------------------
(***************************************************************************)
(* What the printer has shown, or will have shown once it has drained the  *)
(* channel, of the j-th repository: no other repository of its key has a   *)
(* row, and the last event of its key is the one the row is to end with.   *)
(***************************************************************************)
Own(j) == \A k \in DOMAIN go : KeyOf[cmd.plan[k]] = KeyOf[cmd.plan[j]] => k = j
Mine(j, e) == chan[e].key = KeyOf[cmd.plan[j]]

LastEvent(j, e) ==
    /\ Mine(j, e)
    /\ applyAddRepoFetchEvent(chan[e]) = Shown(j)
    /\ \A f \in DOMAIN chan : f > e => ~Mine(j, f)

Told(j) ==
    \/ \E e \in DOMAIN chan : LastEvent(j, e)
    \/ (\A e \in DOMAIN chan : ~Mine(j, e)) /\ rows[j] = Shown(j)

Ended(j) == ~Running(j) /\ ~(pc = "skip" /\ j = i)

RowsInv ==
    /\ rows \in Seq({"queued", "running", "skipped", "done", "failed"})
    /\ Len(rows) = Len(go)
KeysInv == \A e \in DOMAIN chan : \E k \in DOMAIN go : Mine(k, e)
ToldInv == \A j \in DOMAIN go : Own(j) /\ Ended(j) => Told(j)
DoneInv == printer = "done" => Len(chan) = 0 /\ closed

ShowInv == RowsInv /\ KeysInv /\ ToldInv /\ DoneInv

LEMMA InitShowInv == Init => ShowInv
<1> SUFFICES ASSUME Init PROVE ShowInv
  OBVIOUS
<1>a. Len(go) = 0 /\ Len(chan) = 0
  BY EmptySeq DEF Init
<1>b. go \in Seq(Stage) /\ chan \in Seq(Events)
  BY InitFetchInv DEF FetchInv, Shape
<1>1. Len(go) = 0 /\ Len(chan) = 0 /\ DOMAIN go = {} /\ DOMAIN chan = {}
  BY <1>a, <1>b, LenProperties
<1>2. rows \in Seq({"queued", "running", "skipped", "done", "failed"}) /\ Len(rows) = 0
  BY EmptySeq DEF Init
<1>3. printer # "done"
  BY DEF Init
<1> QED
  BY <1>1, <1>2, <1>3 DEF ShowInv, RowsInv, KeysInv, ToldInv, DoneInv

(***************************************************************************)
(* Steps that touch neither goroutines nor channel nor rows.               *)
(***************************************************************************)
LEMMA ShowSame ==
    ASSUME ShowInv, UNCHANGED <<cmd, go, chan, rows>>,
           pc # "skip" \/ UNCHANGED <<pc, i>>,
           printer' = "done" => printer = "done", closed => closed'
    PROVE  ShowInv'
<1>1. RowsInv'
  BY DEF ShowInv, RowsInv
<1>2. KeysInv'
  BY DEF ShowInv, KeysInv, Mine
<1>3. ToldInv'
  <2> SUFFICES ASSUME NEW j \in DOMAIN go, Own(j), Ended(j)' PROVE Told(j)'
    BY DEF ToldInv, Own
  <2>1. Ended(j)
    BY DEF Ended, Running
  <2>2. Told(j)
    BY <2>1 DEF ShowInv, ToldInv
  <2>3. Shown(j)' = Shown(j)
    BY DEF Shown
  <2> QED
    BY <2>2, <2>3 DEF Told, LastEvent, Mine, applyAddRepoFetchEvent
<1>4. DoneInv'
  BY DEF ShowInv, DoneInv
<1> QED
  BY <1>1, <1>2, <1>3, <1>4 DEF ShowInv

(***************************************************************************)
(* A send: the new event is the last of its key and hides no event of      *)
(* another key.                                                            *)
(***************************************************************************)
LEMMA SentIsLast ==
    ASSUME Shape, NEW j \in DOMAIN cmd.plan, NEW type \in {"start", "done"},
           NEW reason \in Reasons,
           Send(j, type, reason), UNCHANGED cmd
    PROVE  /\ Len(chan) \in Nat
           /\ DOMAIN chan = 1..Len(chan) /\ DOMAIN chan' = 1..(Len(chan) + 1)
           /\ \A e \in DOMAIN chan : chan'[e] = chan[e]
           /\ chan'[Len(chan) + 1].key = KeyOf[cmd.plan[j]]
           /\ chan'[Len(chan) + 1].type = type
           /\ chan'[Len(chan) + 1].reason = reason
<1> DEFINE ev == [key |-> KeyOf[cmd.plan[j]], type |-> type, reason |-> reason]
<1>a. ev \in Events
  BY DEF Events
<1>1. ev.key = KeyOf[cmd.plan[j]] /\ ev.type = type /\ ev.reason = reason
  OBVIOUS
<1>2. chan' = Append(chan, ev)
  BY DEF Send
<1> HIDE DEF ev
<1>3. chan \in Seq(Events)
  BY DEF Shape
<1>4. Len(chan) \in Nat /\ DOMAIN chan = 1..Len(chan)
  BY <1>3, LenProperties
<1>5. /\ Append(chan, ev) \in Seq(Events) /\ Len(Append(chan, ev)) = Len(chan) + 1
      /\ \A e \in 1..Len(chan) : Append(chan, ev)[e] = chan[e]
      /\ Append(chan, ev)[Len(chan) + 1] = ev
  BY <1>a, <1>3, AppendProperties
<1>6. DOMAIN Append(chan, ev) = 1..(Len(chan) + 1)
  BY <1>5, LenProperties
<1> QED
  BY <1>1, <1>2, <1>4, <1>5, <1>6

LEMMA SendTold ==
    ASSUME Shape, NEW j \in DOMAIN go, NEW type \in {"start", "done"},
           NEW reason \in Reasons,
           Send(j, type, reason), UNCHANGED <<cmd, rows>>, DOMAIN go' = DOMAIN go
    PROVE  /\ KeysInv => KeysInv'
           /\ \A l \in DOMAIN go :
                 Own(l) /\ l # j /\ Told(l) /\ go'[l] = go[l] => Told(l)'
           /\ type = "done" /\ Shown(j)' = (CASE reason = "error" -> "failed"
                                              [] reason = "skipped" -> "skipped"
                                              [] OTHER -> "done")
              => Told(j)'
<1> DEFINE n == Len(chan) + 1
<1>d. Len(go) \in Nat /\ DOMAIN go = 1..Len(go)
  BY CountedFinite
<1>e. /\ Len(cmd.plan) \in Nat /\ DOMAIN cmd.plan = 1..Len(cmd.plan)
      /\ Len(go) <= Len(cmd.plan)
  BY DEF Shape
<1>p. j \in DOMAIN cmd.plan
  BY <1>d, <1>e
<1>1. /\ Len(chan) \in Nat
      /\ DOMAIN chan = 1..Len(chan) /\ DOMAIN chan' = 1..n
      /\ \A e \in DOMAIN chan : chan'[e] = chan[e]
      /\ chan'[n].key = KeyOf[cmd.plan[j]]
      /\ chan'[n].type = type
      /\ chan'[n].reason = reason
  BY <1>p, SentIsLast
<1>2. /\ n \in Nat /\ n \in DOMAIN chan'
      /\ \A e \in DOMAIN chan : e \in DOMAIN chan' /\ e < n
      /\ \A e \in DOMAIN chan' : e \in DOMAIN chan \/ e = n
      /\ \A e \in DOMAIN chan' : ~(e > n)
  BY <1>1
<1>3. KeysInv => KeysInv'
  <2> SUFFICES ASSUME KeysInv, NEW e \in DOMAIN chan'
               PROVE  \E k \in DOMAIN go : chan'[e].key = KeyOf[cmd.plan[k]]
    BY DEF KeysInv, Mine
  <2> QED
    BY <1>1, <1>2 DEF KeysInv, Mine
<1>4. ASSUME NEW l \in DOMAIN go, Own(l), l # j, Told(l), go'[l] = go[l]
      PROVE  Told(l)'
  <2>1. KeyOf[cmd.plan[l]] # KeyOf[cmd.plan[j]]
    BY <1>4 DEF Own
  <2>2. Shown(l)' = Shown(l)
    BY <1>4 DEF Shown
  <2>3. CASE \E e \in DOMAIN chan : LastEvent(l, e)
    <3>1. PICK e \in DOMAIN chan : LastEvent(l, e)
      BY <2>3
    <3>2. e \in DOMAIN chan' /\ chan'[e] = chan[e]
      BY <1>1, <1>2
    <3>3. chan'[e].key = KeyOf[cmd.plan[l]]
      BY <3>1, <3>2 DEF LastEvent, Mine
    <3>4. applyAddRepoFetchEvent(chan'[e]) = Shown(l)
      BY <3>1, <3>2 DEF LastEvent
    <3>5. \A f \in DOMAIN chan' : f > e => chan'[f].key # KeyOf[cmd.plan[l]]
      BY <3>1, <1>1, <1>2, <2>1 DEF LastEvent, Mine
    <3>6. LastEvent(l, e)'
      BY <3>2, <3>3, <3>4, <3>5, <2>2 DEF LastEvent, Mine,
             applyAddRepoFetchEvent
    <3> QED
      BY <3>2, <3>6 DEF Told
  <2>4. CASE (\A e \in DOMAIN chan : ~Mine(l, e)) /\ rows[l] = Shown(l)
    <3>1. \A f \in DOMAIN chan' : chan'[f].key # KeyOf[cmd.plan[l]]
      BY <2>4, <1>1, <1>2, <2>1 DEF Mine
    <3>2. rows'[l] = Shown(l)'
      BY <2>2, <2>4
    <3> QED
      BY <3>1, <3>2 DEF Told, Mine
  <2> QED
    BY <1>4, <2>3, <2>4 DEF Told
<1>5. ASSUME type = "done", Shown(j)' = (CASE reason = "error" -> "failed"
                                           [] reason = "skipped" -> "skipped"
                                           [] OTHER -> "done")
      PROVE  Told(j)'
  <2>1. applyAddRepoFetchEvent(chan'[n]) = Shown(j)'
    BY <1>1, <1>5 DEF applyAddRepoFetchEvent
  <2> HIDE DEF n
  <2>2. \E e \in DOMAIN chan' :
          /\ chan'[e].key = KeyOf[cmd.plan[j]]
          /\ applyAddRepoFetchEvent(chan'[e]) = Shown(j)'
          /\ \A f \in DOMAIN chan' : ~(f > e)
    BY <1>1, <1>2, <2>1
  <2> QED
    BY <2>2 DEF Told, LastEvent, Mine, applyAddRepoFetchEvent
<1> QED
  BY <1>3, <1>4, <1>5

(***************************************************************************)
(* The command reports a fetch that is not needed, a goroutine announces   *)
(* itself, fetches, and reports.                                           *)
(***************************************************************************)
LEMMA OpenBeforeDone ==
    ASSUME FetchInv, ShowInv,
           pc = "input" \/ pc = "skip" \/ \E j \in DOMAIN go : Running(j)
    PROVE  printer # "done"
<1>1. ~closed
  BY DEF FetchInv, QuietInv, Quiet, Early
<1> QED
  BY <1>1 DEF ShowInv, DoneInv

LEMMA GoKeepsOthers ==
    ASSUME Shape, NEW j \in DOMAIN go, NEW x \in Stage, go' = [go EXCEPT ![j] = x]
    PROVE  /\ DOMAIN go' = DOMAIN go /\ Len(go') = Len(go)
           /\ \A l \in DOMAIN go : l # j => go'[l] = go[l]
           /\ go'[j] = x
<1>1. go \in Seq(Stage)
  BY DEF Shape
<1>2. Len(go) \in Nat /\ DOMAIN go = 1..Len(go)
  BY <1>1, LenProperties
<1>3. go' \in Seq(Stage) /\ Len(go') = Len(go)
  BY <1>1, <1>2, ExceptSeq
<1> QED
  BY <1>2, <1>3, LenProperties

(***************************************************************************)
(* A goroutine that runs on: whatever it may have announced, its row need  *)
(* not be right yet.                                                       *)
(***************************************************************************)
LEMMA GoesOnShowInv ==
    ASSUME Shape, ShowInv, NEW j \in DOMAIN go, printer # "done",
           UNCHANGED <<cmd, pc, i, rows, printer>>,
           \E x \in {"fetch", "report ok", "retry", "report failed"} :
               go' = [go EXCEPT ![j] = x],
           UNCHANGED chan \/ \E reason \in Reasons : Send(j, "start", reason)
    PROVE  ShowInv'
<1>x. PICK x \in {"fetch", "report ok", "retry", "report failed"} :
          go' = [go EXCEPT ![j] = x]
  OBVIOUS
<1>y. x \in Stage
  BY DEF Stage
<1>d. /\ DOMAIN go' = DOMAIN go /\ Len(go') = Len(go)
      /\ \A l \in DOMAIN go : l # j => go'[l] = go[l]
      /\ go'[j] = x
  BY <1>x, <1>y, GoKeepsOthers
<1>t. /\ KeysInv'
      /\ \A l \in DOMAIN go :
            Own(l) /\ l # j /\ Told(l) => Told(l)'
  <2>1. CASE UNCHANGED chan
    <3>1. KeysInv'
      BY <2>1, <1>d DEF ShowInv, KeysInv, Mine
    <3>2. ASSUME NEW l \in DOMAIN go, l # j, Told(l)
          PROVE  Told(l)'
      <4>1. Shown(l)' = Shown(l)
        BY <3>2, <1>d DEF Shown
      <4> QED
        BY <2>1, <3>2, <4>1 DEF Told, LastEvent, Mine, applyAddRepoFetchEvent
    <3> QED
      BY <3>1, <3>2
  <2>2. CASE \E reason \in Reasons : Send(j, "start", reason)
    <3>1. PICK reason \in Reasons : Send(j, "start", reason)
      BY <2>2
    <3> QED
      BY <3>1, <1>d, SendTold DEF ShowInv
  <2> QED
    BY <2>1, <2>2
<1>1. RowsInv'
  BY <1>d DEF ShowInv, RowsInv
<1>3. ToldInv'
  <2> SUFFICES ASSUME NEW l \in DOMAIN go, Own(l), Ended(l)' PROVE Told(l)'
    BY <1>d DEF ToldInv, Own
  <2>1. l # j
    BY <1>d DEF Ended, Running
  <2>2. Ended(l)
    BY <2>1, <1>d DEF Ended, Running
  <2> QED
    BY <2>1, <2>2, <1>t DEF ShowInv, ToldInv
<1>4. DoneInv'
  BY DEF DoneInv
<1> QED
  BY <1>1, <1>t, <1>3, <1>4 DEF ShowInv

LEMMA ReportSkipShowInv ==
    ASSUME FetchInv, ShowInv, ReportSkip
    PROVE  ShowInv'
<1>s. pc = "skip" /\ pc' = "input" /\ i' = i + 1 /\ Send(i, "done", "skipped")
  BY DEF ReportSkip
<1>u. UNCHANGED <<cmd, go, rows, printer>>
  BY DEF ReportSkip
<1>h. Shape
  BY DEF FetchInv
<1>g. i \in DOMAIN go /\ go[i] = "none"
  BY <1>s, <1>h DEF Shape
<1>k. PICK k \in DOMAIN go : k = i
  BY <1>g
<1>r. "skipped" \in Reasons
  BY DEF Reasons
<1>t. /\ KeysInv => KeysInv'
      /\ \A l \in DOMAIN go :
            Own(l) /\ l # k /\ Told(l) /\ go'[l] = go[l] => Told(l)'
      /\ Shown(k)' = "skipped" => Told(k)'
  BY <1>s, <1>u, <1>h, <1>k, <1>r, SendTold
<1>1. RowsInv'
  BY <1>u DEF ShowInv, RowsInv
<1>2. KeysInv'
  BY <1>t DEF ShowInv
<1>3. ToldInv'
  <2> SUFFICES ASSUME NEW l \in DOMAIN go, Own(l), Ended(l)' PROVE Told(l)'
    BY <1>u DEF ToldInv, Own
  <2>1. CASE l = k
    <3>1. Shown(k)' = "skipped"
      BY <1>u, <1>g, <1>k DEF Shown
    <3> QED
      BY <2>1, <3>1, <1>t
  <2>2. CASE l # k
    <3>1. Ended(l)
      BY <2>2, <1>u, <1>k DEF Ended, Running
    <3> QED
      BY <2>2, <3>1, <1>t, <1>u DEF ShowInv, ToldInv
  <2> QED
    BY <2>1, <2>2
<1>4. DoneInv'
  BY <1>s, <1>u, OpenBeforeDone DEF DoneInv
<1> QED
  BY <1>1, <1>2, <1>3, <1>4 DEF ShowInv

LEMMA GoStartShowInv ==
    ASSUME FetchInv, ShowInv, NEW j \in DOMAIN go, GoStart(j)
    PROVE  ShowInv'
<1>s. go[j] = "start" /\ go' = [go EXCEPT ![j] = "fetch"] /\ Send(j, "start", "")
  BY DEF GoStart, GoSet
<1>u. UNCHANGED <<cmd, pc, i, rows, printer>>
  BY DEF GoStart
<1>r. "" \in Reasons
  BY DEF Reasons
<1>p. printer # "done"
  BY <1>s, OpenBeforeDone DEF Running
<1>h. Shape
  BY DEF FetchInv
<1>g. go' = [go EXCEPT ![j] = "fetch"]
  BY <1>s
<1>t. \E reason \in Reasons : Send(j, "start", reason)
  BY <1>s, <1>r
<1> QED
  BY <1>u, <1>h, <1>p, <1>g, <1>t, GoesOnShowInv

LEMMA GoFetchShowInv ==
    ASSUME FetchInv, ShowInv, NEW j \in DOMAIN go, GoFetch(j)
    PROVE  ShowInv'
<1>s. go[j] \in {"fetch", "retry"}
  BY DEF GoFetch
<1>w. \E x \in {"report ok", "retry", "report failed"} : go' = [go EXCEPT ![j] = x]
  BY DEF GoFetch, GoSet
<1>u. UNCHANGED <<cmd, pc, i, rows, printer, chan>>
  BY DEF GoFetch
<1>p. printer # "done"
  BY <1>s, OpenBeforeDone DEF Running
<1>h. Shape
  BY DEF FetchInv
<1> QED
  BY <1>u, <1>h, <1>p, <1>w, GoesOnShowInv

LEMMA GoReportShowInv ==
    ASSUME FetchInv, ShowInv, NEW j \in DOMAIN go, GoReport(j)
    PROVE  ShowInv'
<1>s. go[j] \in {"report ok", "report failed"}
  BY DEF GoReport
<1>u. UNCHANGED <<cmd, pc, i, rows, printer>>
  BY DEF GoReport
<1>p. printer # "done"
  BY <1>s, OpenBeforeDone DEF Running
<1>h. Shape
  BY DEF FetchInv
<1>w. \/ go' = [go EXCEPT ![j] = "ok"] /\ Send(j, "done", "complete")
      \/ go' = [go EXCEPT ![j] = "failed"] /\ Send(j, "done", "error")
  BY <1>s DEF GoReport, GoSet
<1>r. "complete" \in Reasons /\ "error" \in Reasons
  BY DEF Reasons
<1>d. /\ DOMAIN go' = DOMAIN go /\ Len(go') = Len(go)
      /\ \A l \in DOMAIN go : l # j => go'[l] = go[l]
  <2>1. \E x \in Stage : go' = [go EXCEPT ![j] = x]
    BY <1>w DEF Stage
  <2> QED
    BY <1>h, <2>1, GoKeepsOthers
<1>t. /\ KeysInv => KeysInv'
      /\ \A l \in DOMAIN go :
            Own(l) /\ l # j /\ Told(l) /\ go'[l] = go[l] => Told(l)'
      /\ Told(j)'
  <2>1. CASE go' = [go EXCEPT ![j] = "ok"] /\ Send(j, "done", "complete")
    <3>1. Shown(j)' = "done"
      BY <2>1 DEF Shown
    <3> QED
      BY <2>1, <3>1, <1>h, <1>u, <1>d, <1>r, SendTold
  <2>2. CASE go' = [go EXCEPT ![j] = "failed"] /\ Send(j, "done", "error")
    <3>1. Shown(j)' = "failed"
      BY <2>2 DEF Shown
    <3> QED
      BY <2>2, <3>1, <1>h, <1>u, <1>d, <1>r, SendTold
  <2> QED
    BY <1>w, <2>1, <2>2
<1>1. RowsInv'
  BY <1>u, <1>d DEF ShowInv, RowsInv
<1>2. KeysInv'
  BY <1>t DEF ShowInv
<1>3. ToldInv'
  <2> SUFFICES ASSUME NEW l \in DOMAIN go, Own(l), Ended(l)' PROVE Told(l)'
    BY <1>u, <1>d DEF ToldInv, Own
  <2>1. CASE l = j
    BY <2>1, <1>t
  <2>2. CASE l # j
    <3>1. Ended(l) /\ go'[l] = go[l]
      BY <2>2, <1>u, <1>d DEF Ended, Running
    <3> QED
      BY <2>2, <3>1, <1>t DEF ShowInv, ToldInv
  <2> QED
    BY <2>1, <2>2
<1>4. DoneInv'
  BY <1>p, <1>u DEF DoneInv
<1> QED
  BY <1>1, <1>2, <1>3, <1>4 DEF ShowInv

(***************************************************************************)
(* A new row is queued and has nothing to show yet; it may take a key away *)
(* from an earlier one.                                                    *)
(***************************************************************************)
LEMMA InputShowInv ==
    ASSUME FetchInv, ShowInv, Input
    PROVE  ShowInv'
<1>s. pc = "input" /\ rows' = Append(rows, "queued")
  BY DEF Input
<1>u. UNCHANGED <<cmd, chan, printer>>
  BY DEF Input
<1>h. Shape /\ RowsInv /\ KeysInv /\ ToldInv
  BY DEF FetchInv, ShowInv
<1>n. Len(go) \in Nat /\ DOMAIN go = 1..Len(go) /\ go \in Seq(Stage)
  BY <1>h, CountedFinite DEF Shape
<1>i. i = Len(go) + 1
  BY <1>s, <1>h DEF Shape
<1>g. \E x \in {"start", "none"} :
         /\ go' = Append(go, x)
         /\ x = "none" => pc' = "skip" /\ i' = i
  BY DEF Input
<1>x. PICK x \in {"start", "none"} :
         /\ go' = Append(go, x)
         /\ x = "none" => pc' = "skip" /\ i' = i
  BY <1>g
<1>y. x \in Stage
  BY DEF Stage
<1>a. /\ go' \in Seq(Stage) /\ Len(go') = Len(go) + 1
      /\ \A j \in 1..Len(go) : go'[j] = go[j]
      /\ go'[Len(go) + 1] = x
  BY <1>x, <1>y, <1>n, AppendProperties
<1>d. DOMAIN go' = 1..(Len(go) + 1)
  BY <1>a, LenProperties
<1>e. /\ \A l \in DOMAIN go : l \in DOMAIN go' /\ go'[l] = go[l] /\ l # i
      /\ \A l \in DOMAIN go' : l \in DOMAIN go \/ l = i
      /\ go'[i] = x
  BY <1>a, <1>d, <1>n, <1>i
<1> DEFINE R == {"queued", "running", "skipped", "done", "failed"}
<1>r. rows \in Seq(R) /\ Len(rows) = Len(go) /\ "queued" \in R
  BY <1>h DEF RowsInv
<1> HIDE DEF R
<1>b. /\ rows' \in Seq(R) /\ Len(rows') = Len(rows) + 1
      /\ \A j \in 1..Len(rows) : rows'[j] = rows[j]
  BY <1>r, <1>s, AppendProperties
<1>1. RowsInv'
  BY <1>a, <1>b, <1>r DEF RowsInv, R
<1>2. KeysInv'
  BY <1>u, <1>e, <1>h DEF KeysInv, Mine
<1>3. ToldInv'
  <2> SUFFICES ASSUME NEW l \in DOMAIN go', Own(l)', Ended(l)' PROVE Told(l)'
    BY DEF ToldInv
  <2>1. l # i
    <3>1. x = "start" \/ (x = "none" /\ pc' = "skip" /\ i' = i)
      BY <1>x
    <3>2. CASE x = "start" /\ l = i
      BY <3>2, <1>e DEF Ended, Running
    <3>3. CASE x = "none" /\ pc' = "skip" /\ i' = i /\ l = i
      BY <3>3 DEF Ended
    <3> QED
      BY <3>1, <3>2, <3>3
  <2>2. l \in DOMAIN go /\ go'[l] = go[l] /\ rows'[l] = rows[l]
    BY <2>1, <1>e, <1>b, <1>r, <1>n
  <2>3. Own(l)
    BY <1>e, <1>u DEF Own
  <2>4. Ended(l)
    BY <2>2, <1>s DEF Ended, Running
  <2>5. Told(l)
    BY <2>2, <2>3, <2>4, <1>h DEF ToldInv
  <2>6. Shown(l)' = Shown(l)
    BY <2>2 DEF Shown
  <2> QED
    BY <2>2, <2>5, <2>6, <1>u DEF Told, LastEvent, Mine, applyAddRepoFetchEvent
<1>4. DoneInv'
  BY <1>s, <1>u, OpenBeforeDone DEF DoneInv
<1> QED
  BY <1>1, <1>2, <1>3, <1>4 DEF ShowInv

(***************************************************************************)
(* The row that shares a key with others is one of them, and so none whose *)
(* key is its own alone.                                                   *)
(***************************************************************************)
LEMMA RowOfKey ==
    ASSUME FetchInv, ShowInv, NEW e \in DOMAIN chan
    PROVE  /\ rowByRepo(chan[e].key) \in DOMAIN rows
           /\ KeyOf[cmd.plan[rowByRepo(chan[e].key)]] = chan[e].key
           /\ DOMAIN rows = DOMAIN go
<1>1. Shape /\ RowsInv /\ KeysInv
  BY DEF FetchInv, ShowInv
<1>2. Len(go) \in Nat /\ DOMAIN go = 1..Len(go)
  BY <1>1, CountedFinite
<1>3. DOMAIN rows = 1..Len(go)
  BY <1>1, LenProperties DEF RowsInv
<1> DEFINE k == chan[e].key
           shared == {j \in DOMAIN rows : KeyOf[cmd.plan[j]] = k}
<1>4. shared # {} /\ shared \in SUBSET (1..Len(go))
  BY <1>1, <1>2, <1>3 DEF KeysInv, Mine
<1> HIDE DEF k
<1>5. \E j \in shared : \A m \in shared : m <= j
  BY <1>2, <1>4, LastExists
<1>6. \E j \in DOMAIN rows :
         /\ KeyOf[cmd.plan[j]] = k
         /\ \A l \in DOMAIN rows : KeyOf[cmd.plan[l]] = k => l <= j
  BY <1>5
<1>7. rowByRepo(k) \in DOMAIN rows /\ KeyOf[cmd.plan[rowByRepo(k)]] = k
  BY <1>6 DEF rowByRepo
<1> QED
  BY <1>2, <1>3, <1>7 DEF k

(***************************************************************************)
(* The printer applies the first event: if that was the last of its key,   *)
(* the row now shows it.                                                   *)
(***************************************************************************)
LEMMA DrainShowInv ==
    ASSUME FetchInv, ShowInv, Drain
    PROVE  ShowInv'
<1>u. UNCHANGED <<cmd, pc, i, go, closed>>
  BY DEF Drain
<1>h. Shape /\ RowsInv /\ KeysInv /\ ToldInv /\ chan \in Seq(Events)
  BY DEF FetchInv, ShowInv, Shape
<1>w. \/ /\ chan # <<>>
         /\ rows' = [rows EXCEPT ![rowByRepo(Head(chan).key)] =
                       applyAddRepoFetchEvent(Head(chan))]
         /\ chan' = Tail(chan)
         /\ UNCHANGED printer
      \/ chan = <<>> /\ closed /\ UNCHANGED <<rows, chan>>
  BY DEF Drain
<1>p. printer = "running"
  BY DEF Drain
<1>1. CASE chan = <<>> /\ closed /\ UNCHANGED <<rows, chan>>
  <2>1. Len(chan) = 0
    BY <1>1, <1>h, EmptySeq
  <2>2. Len(chan') = 0 /\ closed'
    BY <2>1, <1>1, <1>u
  <2>3. DoneInv'
    BY <2>2 DEF DoneInv
  <2>4. RowsInv'
    BY <1>1, <1>u, <1>h DEF RowsInv
  <2>5. KeysInv'
    BY <1>1, <1>u, <1>h DEF KeysInv, Mine
  <2>6. ToldInv'
    BY <1>1, <1>u, <1>h DEF ToldInv, Told, Own, Ended, Running, LastEvent,
           Mine, Shown,
                            applyAddRepoFetchEvent
  <2> QED
    BY <2>3, <2>4, <2>5, <2>6 DEF ShowInv
<1>2. CASE /\ chan # <<>>
           /\ rows' = [rows EXCEPT ![rowByRepo(Head(chan).key)] =
                         applyAddRepoFetchEvent(Head(chan))]
           /\ chan' = Tail(chan)
           /\ UNCHANGED printer
  <2>a. Len(chan) \in Nat /\ DOMAIN chan = 1..Len(chan)
    BY <1>h, LenProperties
  <2>b. Len(chan) # 0
    BY <1>2, <1>h, EmptySeq
  <2>c. /\ Head(chan) = chan[1]
        /\ Tail(chan) \in Seq(Events) /\ Len(Tail(chan)) = Len(chan) - 1
        /\ \A e \in 1..Len(Tail(chan)) : Tail(chan)[e] = chan[e + 1]
    BY <1>2, <1>h, HeadTailProperties
  <2>d. chan' = Tail(chan)
    BY <1>2
  <2>e. /\ DOMAIN chan' = 1..(Len(chan) - 1)
        /\ \A e \in 1..(Len(chan) - 1) : chan'[e] = chan[e + 1]
    BY <2>c, <2>d, LenProperties
  <2>f. /\ 1 \in DOMAIN chan
        /\ \A e \in DOMAIN chan' : e + 1 \in DOMAIN chan /\ chan'[e] = chan[e + 1] /\ e + 1 > 1
        /\ \A e \in DOMAIN chan : e = 1 \/ (e - 1 \in DOMAIN chan' /\ chan'[e - 1] = chan[e])
        /\ \A e \in DOMAIN chan : \A f \in DOMAIN chan' : f > e - 1 => f + 1 > e
    BY <2>a, <2>b, <2>e
  <2> DEFINE r == rowByRepo(chan[1].key)
             v == applyAddRepoFetchEvent(chan[1])
             R == {"queued", "running", "skipped", "done", "failed"}
  <2>r. r \in DOMAIN rows /\ KeyOf[cmd.plan[r]] = chan[1].key /\ DOMAIN rows = DOMAIN go
    BY <2>f, RowOfKey
  <2>v. v \in R
    BY DEF applyAddRepoFetchEvent
  <2>w. rows' = [rows EXCEPT ![r] = v]
    BY <1>2, <2>c
  <2>x. rows \in Seq(R) /\ Len(rows) = Len(go)
    BY <1>h DEF RowsInv
  <2> HIDE DEF r, v, R
  <2>y. Len(rows) \in Nat /\ DOMAIN rows = 1..Len(rows)
    BY <2>x, LenProperties
  <2>z. rows' \in Seq(R) /\ Len(rows') = Len(rows)
    BY <2>r, <2>v, <2>w, <2>x, <2>y, ExceptSeq
  <2>s. rows'[r] = v /\ \A j \in DOMAIN rows : j # r => rows'[j] = rows[j]
    BY <2>r, <2>w
  <2>1. RowsInv'
    BY <2>x, <2>z, <1>u DEF RowsInv, R
  <2>2. KeysInv'
    <3> SUFFICES ASSUME NEW e \in DOMAIN chan'
                 PROVE  \E k \in DOMAIN go : chan'[e].key = KeyOf[cmd.plan[k]]
      BY <1>u DEF KeysInv, Mine
    <3> QED
      BY <2>f, <1>h DEF KeysInv, Mine
  <2>3. ToldInv'
    <3> SUFFICES ASSUME NEW j \in DOMAIN go, Own(j), Ended(j)' PROVE Told(j)'
      BY <1>u DEF ToldInv, Own
    <3>1. Told(j) /\ Shown(j)' = Shown(j)
      BY <1>u, <1>h DEF ToldInv, Ended, Running, Shown
    <3>2. CASE \E e \in DOMAIN chan : LastEvent(j, e)
      <4>1. PICK e \in DOMAIN chan : LastEvent(j, e)
        BY <3>2
      <4>2. CASE e = 1
        <5>1. r = j
          BY <4>1, <4>2, <2>r DEF LastEvent, Mine, Own
        <5>2. rows'[j] = Shown(j)
          BY <5>1, <4>1, <4>2, <2>s DEF LastEvent, v
        <5>3. \A f \in DOMAIN chan' : chan'[f].key # KeyOf[cmd.plan[j]]
          BY <4>1, <4>2, <2>f DEF LastEvent, Mine
        <5> QED
          BY <5>2, <5>3, <3>1, <1>u DEF Told, Mine
      <4>3. CASE e # 1
        <5>1. e - 1 \in DOMAIN chan' /\ chan'[e - 1] = chan[e]
          BY <4>3, <2>f
        <5>2. \A f \in DOMAIN chan' : f > e - 1 => chan'[f].key # KeyOf[cmd.plan[j]]
          BY <4>1, <2>f DEF LastEvent, Mine
        <5>3. /\ chan'[e - 1].key = KeyOf[cmd.plan[j]]
              /\ applyAddRepoFetchEvent(chan'[e - 1]) = Shown(j)
          BY <4>1, <5>1 DEF LastEvent, Mine
        <5>4. \E g \in DOMAIN chan' :
                /\ chan'[g].key = KeyOf[cmd.plan[j]]
                /\ applyAddRepoFetchEvent(chan'[g]) = Shown(j)
                /\ \A f \in DOMAIN chan' : f > g => chan'[f].key # KeyOf[cmd.plan[j]]
          BY <5>1, <5>2, <5>3
        <5> QED
          BY <5>4, <3>1, <1>u DEF Told, LastEvent, Mine, applyAddRepoFetchEvent
      <4> QED
        BY <4>2, <4>3
    <3>3. CASE (\A e \in DOMAIN chan : ~Mine(j, e)) /\ rows[j] = Shown(j)
      <4>1. chan[1].key # KeyOf[cmd.plan[j]]
        BY <3>3, <2>f DEF Mine
      <4>2. rows'[j] = Shown(j)
        BY <4>1, <3>3, <2>r, <2>s
      <4>3. \A f \in DOMAIN chan' : chan'[f].key # KeyOf[cmd.plan[j]]
        BY <3>3, <2>f DEF Mine
      <4> QED
        BY <4>2, <4>3, <3>1, <1>u DEF Told, Mine
    <3> QED
      BY <3>1, <3>2, <3>3 DEF Told
  <2>4. DoneInv'
    BY <1>2, <1>p DEF DoneInv
  <2> QED
    BY <2>1, <2>2, <2>3, <2>4 DEF ShowInv
<1> QED
  BY <1>w, <1>1, <1>2

(***************************************************************************)
(* Every step keeps what the printer shows right.                          *)
(***************************************************************************)
LEMMA NextShowInv ==
    ASSUME FetchInv, ShowInv, [Next]_vars
    PROVE  ShowInv'
<1>1. CASE ReportSkip
  BY <1>1, ReportSkipShowInv
<1>2. CASE Input
  BY <1>2, InputShowInv
<1>3. CASE Drain
  BY <1>3, DrainShowInv
<1>4. CASE \E j \in DOMAIN go : Goroutine(j)
  BY <1>4, GoStartShowInv, GoFetchShowInv, GoReportShowInv DEF Goroutine
<1>5. CASE StartPrinter
  <2>1. /\ pc # "skip" /\ printer' # "done"
        /\ UNCHANGED <<cmd, go, chan, rows, closed>>
    BY <1>5 DEF StartPrinter
  <2> QED
    BY <2>1, ShowSame
<1>6. CASE WaitAndClose
  <2>1. /\ pc # "skip" /\ closed'
        /\ UNCHANGED <<cmd, go, chan, rows, printer>>
    BY <1>6 DEF WaitAndClose
  <2> QED
    BY <2>1, ShowSame
<1>7. CASE Join \/ PhaseB \/ PhaseBFetch \/ PhaseBEnds \/ Preflight
  <2>1. pc # "skip"
    BY <1>7 DEF Join, PhaseB, PhaseBFetch, PhaseBEnds, Preflight
  <2>2. UNCHANGED <<cmd, go, chan, rows, printer, closed>>
    BY <1>7 DEF Join, PhaseB, PhaseBFetch, PhaseBEnds, Preflight
  <2> QED
    BY <2>1, <2>2, ShowSame
<1>8. CASE PhaseBFails \/ PreflightFails \/ Apply \/ InputFails \/ Confirm
  <2>1. pc # "skip"
    BY <1>8 DEF PhaseBFails, PreflightFails, Apply, InputFails, Confirm
  <2>2. UNCHANGED <<cmd, go, chan, rows, printer, closed>>
    BY <1>8 DEF PhaseBFails, PreflightFails, Apply, InputFails, Confirm, Return
  <2> QED
    BY <2>1, <2>2, ShowSame
<1>9. CASE UNCHANGED vars \/ \E c \in Planned : Age(c) \/ OtherFetch(c)
  <2>1. UNCHANGED <<cmd, pc, i, go, chan, rows, printer, closed>>
    BY <1>9 DEF Age, OtherFetch, vars
  <2> QED
    BY <2>1, ShowSame
<1> QED
  BY <1>1, <1>2, <1>3, <1>4, <1>5, <1>6, <1>7, <1>8, <1>9 DEF Next, Main, User

(***************************************************************************)
(* However the sends of the goroutines interleave with each other, with    *)
(* the command and with the printer, the printer ends with the outcome of  *)
(* each prefetch on the screen: the report of a repository is the last of  *)
(* its key on the channel, or has been applied to its row                  *)
(* (printAddRepoFetchProgress, runWSAddRepo).                              *)
(***************************************************************************)
THEOREM LastShownCorrect == Spec => []LastShown
<1>1. Init => ShowInv
  BY InitShowInv
<1>2. FetchInv /\ ShowInv /\ [Next]_vars => ShowInv'
  BY NextShowInv
<1>3. FetchInv /\ ShowInv => LastShown
  <2> SUFFICES ASSUME FetchInv, ShowInv, printer = "done", NEW j \in DOMAIN go, Own(j)
               PROVE  rows[j] = Shown(j)
    BY DEF LastShown, Own
  <2>1. Len(chan) = 0 /\ closed
    BY DEF ShowInv, DoneInv
  <2>2. Quiet /\ pc \notin Early
    BY <2>1 DEF FetchInv, QuietInv
  <2>3. Ended(j)
    BY <2>2 DEF Quiet, Ended, Early
  <2>4. Told(j)
    BY <2>3 DEF ShowInv, ToldInv
  <2>5. chan \in Seq(Events)
    BY DEF FetchInv, Shape
  <2>6. DOMAIN chan = {}
    BY <2>1, <2>5, LenProperties
  <2> QED
    BY <2>4, <2>6 DEF Told
<1> QED
  BY <1>1, <1>2, <1>3, FetchCorrect, PTL DEF Spec
===============================================================================
