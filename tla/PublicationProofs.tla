-------------------------- MODULE PublicationProofs --------------------------
(***************************************************************************)
(* Proofs about Publication for every number of runs, re-runs and           *)
(* dispatches.                                                              *)
(***************************************************************************)
EXTENDS Publication, TLAPS

-----------------------------------------------------------------------------
(* The inductive invariant.                                                 *)

\* Runs start in the order of their numbers; an attempt that passed has
\* uploaded its report.
CIInv ==
    /\ origin \in [Runs -> Maybe(Origins)]
    /\ attempt \in [Runs -> Nat] /\ uploaded \in [Runs -> SUBSET Nat]
    /\ conclusion \in [Runs -> Maybe(Conclusions)]
    /\ reruns \in 0 .. MaxReruns /\ byHand \in 0 .. MaxByHand
    /\ \A r \in Runs :
          /\ attempt[r] <= reruns + 1
          /\ uploaded[r] \subseteq 1 .. attempt[r]
          /\ attempt[r] > 0 => origin[r] \in Origins /\ \A q \in 1 .. r - 1 : attempt[q] > 0
          /\ attempt[r] = 0 => origin[r] = None
    /\ passed \subseteq Runs \X Attempts
    /\ \A r \in Runs, a \in Attempts : <<r, a>> \in passed => a \in uploaded[r]

\* While the first attempt of a push is in progress no newer run of main's ref
\* has started, because it would have cancelled that attempt.
NewestPush == \A r, q \in Runs :
    /\ InProgress(r) /\ origin[r] = "push" /\ attempt[r] = 1
    /\ q > r /\ attempt[q] > 0
    => origin[q] \notin {"push", "dispatch"}

\* Attempt a of run r is a push that passed.
PassedPush(r, a) == origin[r] = "push" /\ <<r, a>> \in passed

GoodPublication(p) ==
    /\ p \in Publications
    /\ p.by = "event" => p.run \in Runs
    /\ p.by = "event" /\ p.wanted => PassedPush(p.run, p.attempt)

QueueInv ==
    /\ \A p \in {running, pending} : p # None => GoodPublication(p)
    /\ last \in Maybe(Publications) /\ lastFailed \in BOOLEAN

\* The report of attempt n may be what a publication for attempt a of run r found.
Found(r, a, n) ==
    /\ {a, n} \subseteq uploaded[r]
    /\ NewestFirst => n = a \/ (n > a /\ attempt[r] > a)

HolderInv ==
    /\ step \in {"start", "resolved", "prepared", "deploying", "done"}
    /\ (step = "done") = (running = None)
    /\ report \in {0} \cup Attempts
    /\ step \in {"resolved", "prepared", "deploying"} => running.run \in Runs /\ running.wanted
    /\ step \in {"prepared", "deploying"} =>
          /\ report \in Attempts
          /\ running.by = "event" => Found(running.run, running.attempt, report)

GoodDeployment(d) ==
    /\ d \in Deployments
    /\ d.by = "event" => PassedPush(d.run, d.attempt) /\ Found(d.run, d.attempt, d.report)

SiteInv == \A d \in {deployment, site} : d # None => GoodDeployment(d)

\* A publication for the first attempt of a push that passed.
OfPush(p) == ByItself(p) /\ p.wanted

\* What is served, deployed, published and queued is of ever newer pushes.
OrderInv ==
    /\ ByItself(site) /\ ByItself(deployment) => site.run <= deployment.run
    /\ \A d \in {site, deployment}, p \in {running, pending} :
          ByItself(d) /\ OfPush(p) => d.run <= p.run
    /\ OfPush(running) /\ OfPush(pending) => running.run <= pending.run

\* What the SARIF of run r may be filed under.
OwnTarget(r, ref, sha) ==
    /\ origin[r] \notin {"fork", "branch"} /\ ref = Ref(r, origin[r])
    /\ IF origin[r] = "pull" THEN sha \in MainCommits \X {r} ELSE sha = <<r>>

Ended(r, n) == n < attempt[r] \/ conclusion[r] # None

UploaderInv == uploader # None =>
    /\ uploader = [run |-> uploader.run, step |-> uploader.step, report |-> uploader.report,
                   target |-> uploader.target]
    /\ uploader.run \in Runs /\ attempt[uploader.run] > 0
    /\ uploader.step \in {"start", "downloaded", "verified"}
    /\ uploader.step # "start" => uploader.report \in uploaded[uploader.run]
    /\ uploader.step = "verified" =>
          /\ Ended(uploader.run, uploader.report)
          /\ OwnTarget(uploader.run, uploader.target[1], uploader.target[2])

AlertsInv == \A a \in alerts :
    /\ a.run \in Runs /\ a.attempt \in 1 .. attempt[a.run]
    /\ Ended(a.run, a.attempt) /\ OwnTarget(a.run, a.ref, a.sha)

IInv == CIInv /\ NewestPush /\ QueueInv /\ HolderInv /\ SiteInv /\ OrderInv
        /\ UploaderInv /\ AlertsInv

-----------------------------------------------------------------------------
(* Initially.                                                               *)

LEMMA Bounds == /\ MaxRuns \in Nat /\ MaxReruns \in Nat /\ MaxByHand \in Nat
                /\ None \notin Origins /\ None \notin Conclusions /\ None \notin Publications
                /\ Runs \subseteq Nat \ {0} /\ Attempts \subseteq Nat \ {0}
                /\ \A n \in Nat : n \in Attempts <=> n > 0 /\ n <= MaxReruns + 1
BY BoundAssumption, NoneAssumption DEF Runs, Attempts

LEMMA InitHolds == Init => IInv
<1> SUFFICES ASSUME Init PROVE IInv
  OBVIOUS
<1> USE Bounds DEF Init
<1>1. CIInv
  BY DEF CIInv, Maybe
<1>2. NewestPush
  BY DEF NewestPush, InProgress
<1>3. QueueInv /\ HolderInv /\ SiteInv
  BY DEF QueueInv, HolderInv, SiteInv, Maybe
<1>4. OrderInv
  BY DEF OrderInv, ByItself, OfPush
<1>5. UploaderInv /\ AlertsInv
  BY DEF UploaderInv, AlertsInv
<1> QED
  BY <1>1, <1>2, <1>3, <1>4, <1>5 DEF IInv

-----------------------------------------------------------------------------
(* PULSE CI.                                                                *)

\* What no step takes back.
Grows == \A r \in Runs :
    /\ attempt[r] <= attempt'[r] /\ uploaded[r] \subseteq uploaded'[r]
    /\ attempt[r] > 0 => origin'[r] = origin[r]
    /\ conclusion[r] # None => conclusion'[r] # None \/ attempt[r] < attempt'[r]
    /\ \A a : <<r, a>> \in passed => <<r, a>> \in passed'

\* A publication that the end of a run asks for.
OfAnEnd(p) ==
    /\ p \in Publications /\ p.by = "event" /\ p.run \in Runs
    /\ p.wanted => /\ origin[p.run] = "push" /\ InProgress(p.run)
                   /\ p.attempt = attempt[p.run] /\ <<p.run, p.attempt>> \in passed'

\* What a step of PULSE CI does to the workflows that follow it.
Followed ==
    /\ UNCHANGED <<running, step, report, deployment, site, byHand, alerts>>
    /\ \/ UNCHANGED <<pending, last, lastFailed>>
       \/ \E p : OfAnEnd(p) /\ Arrive(p)
    /\ \/ UNCHANGED uploader
       \/ \E r \in Runs : InProgress(r) /\ uploader' = Uploader(r)

LEMMA CompletedFollows ==
  ASSUME CIInv, NEW r \in Runs, InProgress(r), NEW c, Completed(r, c),
         c = "success" => <<r, attempt[r]>> \in passed'
  PROVE  /\ \/ UNCHANGED <<pending, last, lastFailed>>
            \/ \E p : OfAnEnd(p) /\ Arrive(p)
         /\ \/ UNCHANGED uploader
            \/ \E q \in Runs : InProgress(q) /\ uploader' = Uploader(q)
<1>1. PICK wanted \in BOOLEAN : wanted = Publishes(r, c)
  BY DEF Publishes
<1>2. wanted => origin[r] = "push" /\ c = "success"
  BY <1>1 DEF Publishes
<1>3. PICK p : /\ p = [run |-> r, attempt |-> attempt[r], by |-> "event",
                      wanted |-> wanted, cancels |-> FALSE]
               /\ Arrive(p) \/ UNCHANGED <<pending, last, lastFailed>>
  BY <1>1 DEF Completed, Publish
<1>4. attempt[r] \in Attempts
  BY Bounds DEF CIInv, InProgress
<1>5. /\ p \in Publications /\ p.run = r /\ p.attempt = attempt[r]
      /\ p.by = "event" /\ p.wanted = wanted
  BY <1>3, <1>4 DEF Publications
<1>6. OfAnEnd(p)
  BY <1>2, <1>5 DEF OfAnEnd
<1>7. UNCHANGED uploader \/ uploader' = Uploader(r)
  BY DEF Completed
<1> QED
  BY <1>3, <1>6, <1>7

LEMMA BeginFollows ==
  ASSUME CIInv, NEW r \in Runs, NEW o, Begin(r, o)
  PROVE  /\ \/ UNCHANGED <<pending, last, lastFailed>>
            \/ \E p : OfAnEnd(p) /\ Arrive(p)
         /\ \/ UNCHANGED uploader
            \/ \E q \in Runs : InProgress(q) /\ uploader' = Uploader(q)
<1>1. CASE Cancels(r, o) = {}
  BY <1>1 DEF Begin
<1>2. CASE Cancels(r, o) # {}
  <2>1. PICK q \in Cancels(r, o) : Completed(q, "cancelled")
    BY <1>2 DEF Begin
  <2>2. q \in Runs /\ InProgress(q)
    BY DEF Cancels
  <2> QED
    BY <2>1, <2>2, CompletedFollows
<1> QED
  BY <1>1, <1>2

\* What a run that begins does to the conclusions.
LEMMA BeginConcludes ==
  ASSUME CIInv, NEW r \in Runs, NEW o, Begin(r, o)
  PROVE  /\ conclusion' \in [Runs -> Maybe(Conclusions)]
         /\ conclusion'[r] = None
         /\ \A q \in Runs \ {r} :
               conclusion'[q] = IF InProgress(q) /\ Ref(q, origin[q]) = Ref(r, o)
                                THEN "cancelled" ELSE conclusion[q]
<1>1. conclusion' = [q \in Runs |-> CASE q = r -> None
                                      [] q \in Cancels(r, o) -> "cancelled"
                                      [] OTHER -> conclusion[q]]
  BY DEF Begin
<1>2. \A q \in Runs \ {r} : (q \in Cancels(r, o)) = (InProgress(q) /\ Ref(q, origin[q]) = Ref(r, o))
  BY DEF Cancels
<1>3. r \notin Cancels(r, o)
  BY DEF Cancels
<1>4. \A q \in Runs : conclusion'[q] = IF q = r THEN None ELSE
                                       IF q \in Cancels(r, o) THEN "cancelled" ELSE conclusion[q]
  BY <1>1, <1>3
<1>5. conclusion' \in [Runs -> Maybe(Conclusions)]
  BY <1>1, <1>3, <1>4 DEF CIInv, Maybe, Conclusions
<1> QED
  BY <1>2, <1>4, <1>5

LEMMA StartRunCI ==
  ASSUME CIInv, NewestPush, NEW r \in Runs, NEW o \in Origins, StartRun(r, o)
  PROVE  CIInv' /\ NewestPush' /\ Grows /\ Followed
<1> USE Bounds
<1>1. /\ conclusion' \in [Runs -> Maybe(Conclusions)]
      /\ conclusion'[r] = None
      /\ \A q \in Runs \ {r} :
            conclusion'[q] = IF InProgress(q) /\ Ref(q, origin[q]) = Ref(r, o)
                             THEN "cancelled" ELSE conclusion[q]
  BY BeginConcludes DEF StartRun
<1>2. /\ origin' = [origin EXCEPT ![r] = o] /\ attempt' = [attempt EXCEPT ![r] = 1]
      /\ attempt[r] = 0 /\ \A q \in 1 .. r - 1 : attempt[q] > 0
      /\ UNCHANGED <<uploaded, passed, reruns, byHand>>
  BY DEF StartRun
<1>3. /\ origin'[r] = o /\ attempt'[r] = 1
      /\ \A q \in Runs \ {r} : origin'[q] = origin[q] /\ attempt'[q] = attempt[q]
      /\ \A q \in Runs : attempt'[q] = attempt[q] \/ attempt'[q] = 1
  BY <1>2 DEF CIInv
<1>4. Grows
  BY <1>1, <1>2, <1>3 DEF Grows, CIInv, Conclusions
<1>5. CIInv'
  <2>1. origin' \in [Runs -> Maybe(Origins)] /\ attempt' \in [Runs -> Nat]
    BY <1>2 DEF CIInv, Maybe
  <2>2. ASSUME NEW q \in Runs
        PROVE  /\ attempt'[q] <= reruns' + 1
               /\ uploaded'[q] \subseteq 1 .. attempt'[q]
               /\ attempt'[q] = 0 => origin'[q] = None
    BY <1>2, <1>3 DEF CIInv
  <2>3. ASSUME NEW q \in Runs, attempt'[q] > 0
        PROVE  origin'[q] \in Origins /\ \A p \in 1 .. q - 1 : attempt'[p] > 0
    <3>1. origin'[q] \in Origins
      BY <1>2, <1>3, <2>3 DEF CIInv
    <3>2. \A p \in 1 .. q - 1 : p \in Runs /\ attempt[p] > 0
      <4>1. q = r \/ attempt[q] > 0
        BY <1>3, <2>3
      <4> QED
        BY <1>2, <4>1 DEF CIInv, Runs
    <3> QED
      BY <1>2, <1>3, <3>1, <3>2
  <2> QED
    BY <1>1, <1>2, <2>1, <2>2, <2>3 DEF CIInv
<1>6. NewestPush'
  <2> SUFFICES ASSUME NEW p \in Runs, NEW q \in Runs,
                      attempt'[p] = 1, conclusion'[p] = None, origin'[p] = "push",
                      q > p, attempt'[q] > 0, origin'[q] \in {"push", "dispatch"}
               PROVE  FALSE
    BY DEF NewestPush, InProgress
  <2>1. p # r
    \* A newer run would have started before r.
    <3> SUFFICES ASSUME p = r PROVE FALSE
      OBVIOUS
    <3>1. attempt[q] > 0
      BY <1>3
    <3>2. r \in 1 .. q - 1
      BY DEF Runs
    <3> QED
      BY <1>2, <3>1, <3>2 DEF CIInv
  <2>2. InProgress(p)
    BY <1>1, <1>3, <2>1, None # "cancelled" DEF InProgress, Conclusions
  <2>3. CASE q = r
    <3>1. Ref(p, origin[p]) = Ref(r, o)
      BY <1>3, <2>1, <2>3 DEF Ref
    <3> QED
      BY <1>1, <2>1, <2>2, <3>1 DEF Conclusions
  <2>4. CASE q # r
    BY <1>3, <2>1, <2>2, <2>4 DEF NewestPush
  <2> QED
    BY <2>3, <2>4
<1>7. Followed
  BY BeginFollows DEF StartRun, Followed
<1> QED
  BY <1>4, <1>5, <1>6, <1>7

LEMMA RerunCI ==
  ASSUME CIInv, NewestPush, NEW r \in Runs, Rerun(r)
  PROVE  CIInv' /\ NewestPush' /\ Grows /\ Followed
<1> USE Bounds
<1>1. /\ conclusion' \in [Runs -> Maybe(Conclusions)]
      /\ conclusion'[r] = None
      /\ \A q \in Runs \ {r} :
            conclusion'[q] = IF InProgress(q) /\ Ref(q, origin[q]) = Ref(r, origin[r])
                             THEN "cancelled" ELSE conclusion[q]
  BY BeginConcludes DEF Rerun
<1>2. /\ attempt' = [attempt EXCEPT ![r] = @ + 1] /\ attempt[r] > 0
      /\ reruns < MaxReruns /\ reruns' = reruns + 1
      /\ UNCHANGED <<origin, uploaded, passed, byHand>>
  BY DEF Rerun
<1>3. /\ attempt'[r] = attempt[r] + 1
      /\ \A q \in Runs \ {r} : attempt'[q] = attempt[q]
      /\ \A q \in Runs : attempt[q] \in Nat /\ (attempt'[q] > 0 <=> attempt[q] > 0)
      /\ attempt' \in [Runs -> Nat]
  BY <1>2 DEF CIInv
<1>4. Grows
  BY <1>1, <1>2, <1>3 DEF Grows, CIInv, Conclusions
<1>5. CIInv'
  <2>1. ASSUME NEW q \in Runs
        PROVE  /\ attempt'[q] <= reruns' + 1
               /\ uploaded'[q] \subseteq 1 .. attempt'[q]
               /\ attempt'[q] = 0 => origin'[q] = None
    BY <1>2, <1>3 DEF CIInv
  <2>2. ASSUME NEW q \in Runs, attempt'[q] > 0
        PROVE  origin'[q] \in Origins /\ \A p \in 1 .. q - 1 : attempt'[p] > 0
    <3>1. \A p \in 1 .. q - 1 : p \in Runs /\ attempt[p] > 0
      BY <1>3, <2>2 DEF CIInv, Runs
    <3> QED
      BY <1>2, <1>3, <2>2, <3>1 DEF CIInv
  <2> QED
    BY <1>1, <1>2, <1>3, <2>1, <2>2 DEF CIInv
<1>6. NewestPush'
  <2> SUFFICES ASSUME NEW p \in Runs, NEW q \in Runs,
                      attempt'[p] = 1, conclusion'[p] = None, origin'[p] = "push",
                      q > p, attempt'[q] > 0, origin'[q] \in {"push", "dispatch"}
               PROVE  FALSE
    BY DEF NewestPush, InProgress
  <2>1. p # r
    BY <1>2, <1>3
  <2>2. InProgress(p)
    BY <1>1, <1>3, <2>1 DEF InProgress, Conclusions
  <2> QED
    BY <1>2, <1>3, <2>1, <2>2 DEF NewestPush
<1>7. Followed
  BY BeginFollows DEF Rerun, Followed
<1> QED
  BY <1>4, <1>5, <1>6, <1>7

LEMMA UploadReportCI ==
  ASSUME CIInv, NewestPush, NEW r \in Runs, UploadReport(r)
  PROVE  CIInv' /\ NewestPush' /\ Grows /\ Followed
<1> USE Bounds DEF UploadReport, pagesVars, sarifVars
<1>1. /\ uploaded' \in [Runs -> SUBSET Nat] /\ uploaded'[r] = uploaded[r] \cup {attempt[r]}
      /\ \A q \in Runs \ {r} : uploaded'[q] = uploaded[q]
  BY DEF CIInv
<1>2. Grows
  BY <1>1 DEF Grows, CIInv
<1>3. CIInv'
  <2>1. \A q \in Runs : uploaded'[q] \subseteq 1 .. attempt[q] /\ uploaded[q] \subseteq uploaded'[q]
    BY <1>1 DEF CIInv, InProgress
  <2>2. \A q \in Runs, a \in Attempts : <<q, a>> \in passed => a \in uploaded'[q]
    BY <1>1, <2>1 DEF CIInv
  <2> QED
    BY <1>1, <2>1, <2>2 DEF CIInv
<1>4. NewestPush'
  BY DEF NewestPush, InProgress
<1>5. Followed
  BY DEF Followed
<1> QED
  BY <1>2, <1>3, <1>4, <1>5

LEMMA CompleteCI ==
  ASSUME CIInv, NewestPush, NEW r \in Runs, NEW c \in {"success", "failure"}, Complete(r, c)
  PROVE  CIInv' /\ NewestPush' /\ Grows /\ Followed
<1> USE Bounds
<1>1. /\ InProgress(r) /\ (c = "success" => attempt[r] \in uploaded[r])
      /\ passed' = (IF c = "success" THEN passed \cup {<<r, attempt[r]>>} ELSE passed)
      /\ UNCHANGED <<origin, attempt, uploaded, reruns, byHand>>
  BY DEF Complete, LeavesReport
<1>2. /\ conclusion' \in [Runs -> Maybe(Conclusions)] /\ conclusion'[r] = c /\ c # None
      /\ \A q \in Runs \ {r} : conclusion'[q] = conclusion[q]
  BY DEF Complete, CIInv, Maybe, Conclusions
<1>3. attempt[r] \in Attempts
  BY <1>1 DEF CIInv, InProgress
<1>4. Grows
  BY <1>1, <1>2 DEF Grows, CIInv
<1>5. CIInv'
  <2>1. passed' \subseteq Runs \X Attempts
    BY <1>1, <1>3 DEF CIInv
  <2>2. \A q \in Runs, a \in Attempts : <<q, a>> \in passed' => a \in uploaded[q]
    BY <1>1, <1>3 DEF CIInv
  <2> QED
    BY <1>1, <1>2, <2>1, <2>2 DEF CIInv
<1>6. NewestPush'
  BY <1>1, <1>2 DEF NewestPush, InProgress
<1>7. Followed
  BY <1>1, CompletedFollows DEF Complete, Followed
<1> QED
  BY <1>4, <1>5, <1>6, <1>7

LEMMA CIStep ==
  ASSUME CIInv, NewestPush, CINext
  PROVE  CIInv' /\ NewestPush' /\ Grows /\ Followed
BY StartRunCI, RerunCI, UploadReportCI, CompleteCI DEF CINext

LEMMA PassedPushKept ==
  ASSUME CIInv, Grows, NEW r \in Runs, NEW a, PassedPush(r, a)
  PROVE  PassedPush(r, a)'
<1>1. <<r, a>> \in passed /\ a \in Attempts
  BY DEF CIInv, PassedPush
<1>2. a \in 1 .. attempt[r] /\ a \in Nat /\ attempt[r] \in Nat
  BY <1>1, Bounds DEF CIInv
<1> QED
  BY <1>1, <1>2 DEF Grows, PassedPush

LEMMA GoodPublicationKept ==
  ASSUME CIInv, Grows
  PROVE  \A p : GoodPublication(p) => GoodPublication(p)'
<1> SUFFICES ASSUME NEW p, GoodPublication(p) PROVE GoodPublication(p)'
  OBVIOUS
<1>1. CASE p.by = "event" /\ p.wanted
  <2>1. p.run \in Runs /\ PassedPush(p.run, p.attempt)
    BY <1>1 DEF GoodPublication
  <2>2. PassedPush(p.run, p.attempt)'
    BY <2>1, PassedPushKept
  <2> QED
    BY <2>2 DEF GoodPublication
<1> QED
  BY <1>1 DEF GoodPublication

LEMMA FoundKept ==
  ASSUME CIInv, CIInv', Grows, NEW r \in Runs, NEW a \in {0} \cup Attempts,
         NEW n \in Attempts, Found(r, a, n)
  PROVE  Found(r, a, n)'
BY Bounds DEF CIInv, Grows, Found

LEMMA GoodDeploymentKept ==
  ASSUME CIInv, CIInv', Grows
  PROVE  \A d : GoodDeployment(d) => GoodDeployment(d)'
<1> SUFFICES ASSUME NEW d, GoodDeployment(d) PROVE GoodDeployment(d)'
  OBVIOUS
<1>1. d.run \in Runs /\ d.attempt \in {0} \cup Attempts /\ d.report \in Attempts
  BY DEF GoodDeployment, Deployments
<1>2. CASE d.by = "event"
  <2>1. PassedPush(d.run, d.attempt)'
    BY <1>1, <1>2, PassedPushKept DEF GoodDeployment
  <2>2. Found(d.run, d.attempt, d.report)'
    BY <1>1, <1>2, FoundKept DEF GoodDeployment
  <2> QED
    BY <2>1, <2>2 DEF GoodDeployment
<1> QED
  BY <1>2 DEF GoodDeployment

\* An attempt that has ended does not begin again, and what its SARIF may be
\* filed under is decided by then.
LEMMA SarifKept ==
  ASSUME CIInv, CIInv', Grows
  PROVE  /\ \A r \in Runs : \A n \in 1 .. attempt[r] : Ended(r, n) => Ended(r, n)'
         /\ \A r \in Runs : \A ref, sha :
               attempt[r] > 0 /\ OwnTarget(r, ref, sha) => OwnTarget(r, ref, sha)'
<1>1. \A r \in Runs : \A n \in 1 .. attempt[r] : Ended(r, n) => Ended(r, n)'
  BY DEF Grows, Ended, CIInv
<1>2. \A q \in MainCommits : q \in MainCommits'
  <2>1. \A r \in Runs : origin[r] = "push" => origin'[r] = "push"
    BY Bounds DEF Grows, CIInv, Origins
  <2> QED
    BY <2>1 DEF MainCommits
<1>3. ASSUME NEW r \in Runs, NEW ref, NEW sha, attempt[r] > 0, OwnTarget(r, ref, sha)
      PROVE  OwnTarget(r, ref, sha)'
  <2>1. origin'[r] = origin[r]
    BY <1>3 DEF Grows
  <2>2. sha \in MainCommits \X {r} => sha \in MainCommits' \X {r}
    BY <1>2
  <2>3. PICK o : o = origin[r] /\ o = origin'[r]
    BY <2>1
  <2>4. o \notin {"fork", "branch"} /\ ref = Ref(r, o)
        /\ IF o = "pull" THEN sha \in MainCommits' \X {r} ELSE sha = <<r>>
    BY <1>3, <2>2, <2>3 DEF OwnTarget
  <2> QED
    BY <2>3, <2>4 DEF OwnTarget
<1> QED
  BY <1>1, <1>3

\* The watched upload and the alerts of a step that leaves both alone.
LEMMA SarifUnchanged ==
  ASSUME CIInv, CIInv', Grows, UploaderInv, AlertsInv
  PROVE  /\ uploader' = uploader => UploaderInv'
         /\ alerts' = alerts => AlertsInv'
<1>1. ASSUME uploader' = uploader PROVE UploaderInv'
  <2> SUFFICES ASSUME uploader # None PROVE UploaderInv'
    BY <1>1 DEF UploaderInv
  <2> DEFINE r == uploader.run
  <2>1. /\ r \in Runs /\ attempt[r] > 0
        /\ uploader = [run |-> uploader.run, step |-> uploader.step,
                       report |-> uploader.report, target |-> uploader.target]
        /\ uploader.step \in {"start", "downloaded", "verified"}
    BY DEF UploaderInv
  <2>2. attempt'[r] > 0 /\ uploaded[r] \subseteq uploaded'[r] /\ uploaded[r] \subseteq 1 .. attempt[r]
    BY <2>1 DEF Grows, CIInv
  <2>3. uploader.step # "start" => uploader.report \in uploaded[r]
    BY DEF UploaderInv
  <2>4. uploader.step # "start" => uploader.report \in uploaded'[r]
    BY <2>2, <2>3
  <2>5. ASSUME uploader.step = "verified"
        PROVE  /\ Ended(r, uploader.report) /\ OwnTarget(r, uploader.target[1], uploader.target[2])
               /\ uploader.report \in 1 .. attempt[r]
    BY <2>2, <2>3, <2>5 DEF UploaderInv
  <2>6. PICK q, n, ref, sha : /\ q = r /\ n = uploader.report
                              /\ ref = uploader.target[1] /\ sha = uploader.target[2]
    OBVIOUS
  <2>7. uploader.step = "verified" => Ended(q, n)' /\ OwnTarget(q, ref, sha)'
    BY <2>1, <2>5, <2>6, SarifKept
  <2> QED
    BY <1>1, <2>1, <2>2, <2>4, <2>6, <2>7 DEF UploaderInv, Ended, OwnTarget
<1>2. ASSUME alerts' = alerts PROVE AlertsInv'
  <2> SUFFICES ASSUME NEW a \in alerts
               PROVE  /\ a.run \in Runs /\ a.attempt \in 1 .. attempt'[a.run]
                      /\ Ended(a.run, a.attempt)' /\ OwnTarget(a.run, a.ref, a.sha)'
    BY <1>2 DEF AlertsInv
  <2>1. /\ a.run \in Runs /\ a.attempt \in 1 .. attempt[a.run]
        /\ Ended(a.run, a.attempt) /\ OwnTarget(a.run, a.ref, a.sha)
    BY DEF AlertsInv
  <2>2. attempt[a.run] <= attempt'[a.run] /\ attempt[a.run] \in Nat /\ attempt'[a.run] \in Nat
    BY <2>1 DEF Grows, CIInv
  <2> QED
    BY <2>1, <2>2, SarifKept
<1> QED
  BY <1>1, <1>2

-----------------------------------------------------------------------------
(* The workflows that follow, while PULSE CI takes a step.                  *)

PagesInv == QueueInv /\ HolderInv /\ SiteInv /\ OrderInv

\* The last to arrive is newer than what was queued, deployed or served.
LEMMA NewestArrives ==
  ASSUME CIInv, NewestPush, NEW p, OfAnEnd(p), OfPush(p),
         NEW r \in Runs, PassedPush(r, 1)
  PROVE  r <= p.run
<1>1. p.run \in Runs /\ InProgress(p.run) /\ origin[p.run] = "push" /\ attempt[p.run] = 1
  BY DEF OfAnEnd, OfPush, ByItself
<1>2. attempt[r] > 0 /\ origin[r] = "push"
  <2>1. <<r, 1>> \in passed /\ 1 \in Attempts /\ origin[r] = "push"
    BY DEF PassedPush, CIInv
  <2> QED
    BY <2>1 DEF CIInv
<1>3. r \in Nat /\ p.run \in Nat
  BY <1>1, Bounds
<1> QED
  BY <1>1, <1>2, <1>3 DEF NewestPush

LEMMA PublicationOfPush ==
  \A p : p # None /\ GoodPublication(p) /\ OfPush(p) => p.run \in Runs /\ PassedPush(p.run, 1)
BY DEF GoodPublication, OfPush, ByItself

LEMMA DeploymentOfPush ==
  \A d : d # None /\ GoodDeployment(d) /\ ByItself(d) => d.run \in Runs /\ PassedPush(d.run, 1)
BY DEF GoodDeployment, Deployments, ByItself

LEMMA CIPages ==
  ASSUME CIInv, NewestPush, PagesInv, CIInv', Grows, Followed
  PROVE  PagesInv'
<1> USE Bounds
<1>1. /\ running' = running /\ step' = step /\ report' = report
      /\ deployment' = deployment /\ site' = site
  BY DEF Followed
<1>2. \/ UNCHANGED <<pending, last, lastFailed>>
      \/ \E p : OfAnEnd(p) /\ pending' = p /\ last' = p /\ lastFailed' = FALSE
  BY DEF Followed, Arrive, Waits
<1>3. ASSUME NEW p, OfAnEnd(p) PROVE GoodPublication(p)'
  <2>1. p.wanted => PassedPush(p.run, p.attempt)'
    <3>1. CASE p.wanted
      <4>1. p.run \in Runs /\ origin[p.run] = "push" /\ attempt[p.run] > 0
            /\ <<p.run, p.attempt>> \in passed'
        BY <1>3, <3>1 DEF OfAnEnd, InProgress
      <4> QED
        BY <4>1 DEF Grows, PassedPush
    <3> QED
      BY <3>1
  <2> QED
    BY <1>3, <2>1 DEF GoodPublication, OfAnEnd
<1>4. \A p : p # None /\ p \in {running, pending} => GoodPublication(p)'
  BY GoodPublicationKept DEF PagesInv, QueueInv
<1>5. QueueInv'
  <2>1. running # None => GoodPublication(running)'
    BY <1>1, <1>4 DEF GoodPublication, PassedPush
  <2>2. pending' # None => GoodPublication(pending)'
    <3>1. CASE pending' = pending
      BY <1>4, <3>1 DEF GoodPublication, PassedPush
    <3>2. CASE \E p : OfAnEnd(p) /\ pending' = p
      BY <1>3, <3>2 DEF GoodPublication, PassedPush
    <3> QED
      BY <1>2, <3>1, <3>2
  <2>3. last' \in Maybe(Publications) /\ lastFailed' \in BOOLEAN
    BY <1>2 DEF PagesInv, QueueInv, OfAnEnd, Maybe
  <2> QED
    BY <1>1, <2>1, <2>2, <2>3 DEF QueueInv, GoodPublication, PassedPush
<1>6. HolderInv'
  <2>1. ASSUME step \in {"prepared", "deploying"}, running.by = "event"
        PROVE  Found(running.run, running.attempt, report)'
    <3>1. GoodPublication(running) /\ running.run \in Runs /\ report \in Attempts
          /\ Found(running.run, running.attempt, report)
      BY <2>1 DEF PagesInv, HolderInv, QueueInv
    <3>2. running.attempt \in {0} \cup Attempts
      BY <3>1 DEF GoodPublication, Publications
    <3>3. PICK r, a, n : r = running.run /\ a = running.attempt /\ n = report
      OBVIOUS
    <3>4. Found(r, a, n)'
      BY <3>1, <3>2, <3>3, FoundKept
    <3> QED
      BY <1>1, <3>3, <3>4 DEF Found
  <2> QED
    BY <1>1, <2>1 DEF PagesInv, HolderInv, Found
<1>7. SiteInv'
  <2>1. \A d : d # None /\ d \in {deployment, site} => GoodDeployment(d)'
    BY GoodDeploymentKept DEF PagesInv, SiteInv
  <2> QED
    BY <1>1, <2>1 DEF SiteInv, GoodDeployment, PassedPush, Found
<1>8. OrderInv'
  <2>1. CASE pending' = pending
    BY <1>1, <2>1 DEF PagesInv, OrderInv, ByItself, OfPush
  <2>2. ASSUME NEW p, OfAnEnd(p), pending' = p PROVE OrderInv'
    <3>1. ASSUME OfPush(p), NEW d \in {site, deployment}, ByItself(d)
          PROVE  d.run <= p.run
      <4>1. d # None /\ GoodDeployment(d)
        BY <3>1 DEF PagesInv, SiteInv, ByItself
      <4>2. d.run \in Runs /\ PassedPush(d.run, 1)
        BY <3>1, <4>1, DeploymentOfPush
      <4> QED
        BY <2>2, <3>1, <4>2, NewestArrives
    <3>2. ASSUME OfPush(p), OfPush(running)
          PROVE  running.run <= p.run
      BY <2>2, <3>2, PublicationOfPush, NewestArrives DEF PagesInv, QueueInv, OfPush, ByItself
    <3>3. /\ ByItself(site) /\ ByItself(deployment) => site.run <= deployment.run
          /\ \A d \in {site, deployment} : ByItself(d) /\ OfPush(running) => d.run <= running.run
      BY DEF PagesInv, OrderInv
    <3> QED
      BY <1>1, <2>2, <3>1, <3>2, <3>3 DEF OrderInv, OfPush, ByItself
  <2> QED
    BY <1>2, <2>1, <2>2
<1> QED
  BY <1>5, <1>6, <1>7, <1>8 DEF PagesInv

LEMMA CISarif ==
  ASSUME CIInv, UploaderInv, AlertsInv, CIInv', Grows, Followed
  PROVE  UploaderInv' /\ AlertsInv'
<1>1. ASSUME NEW r \in Runs, InProgress(r), uploader' = Uploader(r)
      PROVE  UploaderInv'
  <2>1. uploader' = [run |-> r, step |-> "start", report |-> 0, target |-> None]
    BY <1>1 DEF Uploader
  <2>2. attempt'[r] > 0
    BY <1>1 DEF InProgress, Grows, CIInv
  <2> QED
    BY <2>1, <2>2 DEF UploaderInv
<1> QED
  BY <1>1, SarifUnchanged DEF Followed

-----------------------------------------------------------------------------
(* The publishing workflows, while PULSE CI rests.                          *)

LEMMA CIRests ==
  ASSUME CIInv, NewestPush, UNCHANGED ciVars, byHand' \in 0 .. MaxByHand
  PROVE  CIInv' /\ NewestPush' /\ Grows
<1>1. CIInv'
  BY DEF CIInv, ciVars
<1>2. NewestPush'
  BY DEF NewestPush, InProgress, ciVars
<1>3. Grows
  BY DEF Grows, CIInv, ciVars
<1> QED
  BY <1>1, <1>2, <1>3

\* The parts of PagesInv that look at PULSE CI, for a step that leaves it alone.
LEMMA PagesFrozen ==
  ASSUME UNCHANGED ciVars
  PROVE  /\ (\A p \in {running', pending'} : p # None => GoodPublication(p))
            /\ last' \in Maybe(Publications) /\ lastFailed' \in BOOLEAN
            => QueueInv'
         /\ (\A d \in {deployment', site'} : d # None => GoodDeployment(d)) => SiteInv'
         /\ \A r, a, n : Found(r, a, n) => Found(r, a, n)'
BY DEF QueueInv, SiteInv, GoodPublication, GoodDeployment, PassedPush, Found, ciVars

LEMMA EnterPages ==
  ASSUME PagesInv, Enter
  PROVE  PagesInv'
<1> USE DEF Enter, PagesInv
<1>1. QueueInv'
  <2>1. \A p \in {running', pending'} : p # None => GoodPublication(p)
    BY DEF QueueInv
  <2> QED
    BY <2>1, PagesFrozen DEF QueueInv
<1>2. HolderInv'
  BY DEF HolderInv
<1>3. SiteInv'
  BY PagesFrozen DEF SiteInv
<1>4. OrderInv'
  BY DEF OrderInv, OfPush, ByItself
<1> QED
  BY <1>1, <1>2, <1>3, <1>4

\* The group is given back.
LEMMA LeavePages ==
  ASSUME PagesInv, Leave, UNCHANGED <<pending, site, last, ciVars>>, lastFailed' \in BOOLEAN,
         deployment' \in {deployment, None}
  PROVE  PagesInv'
<1> USE DEF Leave, PagesInv
<1>1. QueueInv'
  <2>1. \A p \in {running', pending'} : p # None => GoodPublication(p)
    BY DEF QueueInv
  <2> QED
    BY <2>1, PagesFrozen DEF QueueInv
<1>2. HolderInv'
  BY DEF HolderInv
<1>3. SiteInv'
  <2>1. \A d \in {deployment', site'} : d # None => GoodDeployment(d)
    BY DEF SiteInv
  <2> QED
    BY <2>1, PagesFrozen
<1>4. OrderInv'
  BY DEF OrderInv, OfPush, ByItself
<1> QED
  BY <1>1, <1>2, <1>3, <1>4

LEMMA ResolvePages ==
  ASSUME PagesInv, Resolve
  PROVE  PagesInv'
<1> USE Bounds DEF PagesInv
<1>1. /\ step = "start" /\ running.wanted /\ step' = "resolved" /\ report' = report
      /\ UNCHANGED <<pending, deployment, site, last, lastFailed, ciVars>>
      /\ running # None /\ GoodPublication(running) /\ running \in Publications
  BY DEF Resolve, HolderInv, QueueInv, GoodPublication
<1>2. running.run \in Runs \cup {Latest} /\ Latest \notin Runs
  BY <1>1 DEF Publications, Latest
<1>3. /\ running' # None /\ GoodPublication(running') /\ running'.wanted /\ running'.run \in Runs
      /\ running' = running \/ ~OfPush(running')
  <2>1. CASE running.run # Latest
    BY <1>1, <1>2, <2>1 DEF Resolve
  <2>2. CASE running.run = Latest
    <3>1. PICK r \in Runs : running' = [running EXCEPT !.run = r]
      BY <2>2 DEF Resolve, LatestPassed
    <3>2. running.by # "event"
      BY <1>1, <1>2, <2>2 DEF GoodPublication
    <3>3. /\ running' \in Publications /\ running'.by = running.by
          /\ running'.wanted = running.wanted /\ running'.run = r
      BY <1>1, <3>1 DEF Publications
    <3> QED
      BY <1>1, <3>2, <3>3 DEF GoodPublication, OfPush, ByItself
  <2> QED
    BY <2>1, <2>2
<1>4. QueueInv'
  <2>1. \A p \in {running', pending'} : p # None => GoodPublication(p)
    BY <1>1, <1>3 DEF QueueInv
  <2> QED
    BY <1>1, <2>1, PagesFrozen DEF QueueInv
<1>5. HolderInv'
  BY <1>1, <1>3 DEF HolderInv
<1>6. SiteInv'
  BY <1>1, PagesFrozen DEF SiteInv
<1>7. OrderInv'
  BY <1>1, <1>3 DEF OrderInv, OfPush, ByItself
<1> QED
  BY <1>4, <1>5, <1>6, <1>7

LEMMA CancelDeploymentPages ==
  ASSUME PagesInv, CancelDeployment
  PROVE  PagesInv'
<1> USE Bounds DEF PagesInv
<1>1. CASE running.wanted
  <2>1. /\ running # None /\ step = "resolved" /\ step' = step /\ report' = report
        /\ running' = [running EXCEPT !.cancels = FALSE] /\ deployment' = None
        /\ UNCHANGED <<pending, site, last, lastFailed, ciVars>>
        /\ GoodPublication(running) /\ running \in Publications
    BY <1>1 DEF CancelDeployment, QueueInv, GoodPublication
  <2>2. /\ running' \in Publications /\ running'.by = running.by /\ running'.run = running.run
        /\ running'.attempt = running.attempt /\ running'.wanted
    BY <1>1, <2>1 DEF Publications
  <2>3. running' # None /\ GoodPublication(running') /\ (OfPush(running') => OfPush(running))
    BY <1>1, <2>1, <2>2 DEF GoodPublication, OfPush, ByItself
  <2>4. QueueInv'
    <3>1. \A p \in {running', pending'} : p # None => GoodPublication(p)
      BY <2>1, <2>3 DEF QueueInv
    <3> QED
      BY <2>1, <3>1, PagesFrozen DEF QueueInv
  <2>5. HolderInv'
    BY <2>1, <2>2, <2>3 DEF HolderInv
  <2>6. SiteInv'
    <3>1. \A d \in {deployment', site'} : d # None => GoodDeployment(d)
      BY <2>1 DEF SiteInv
    <3> QED
      BY <2>1, <3>1, PagesFrozen
  <2>7. OrderInv'
    <3>1. OfPush(running') => OfPush(running) /\ running'.run = running.run
      BY <2>2, <2>3
    <3>2. ~ByItself(deployment') /\ site' = site /\ pending' = pending
      BY <2>1 DEF ByItself
    <3> QED
      BY <3>1, <3>2 DEF OrderInv, OfPush, ByItself
  <2> QED
    BY <2>4, <2>5, <2>6, <2>7
<1>2. CASE ~running.wanted
  BY <1>2, LeavePages DEF CancelDeployment, QueueInv
<1> QED
  BY <1>1, <1>2

LEMMA DownloadReportPages ==
  ASSUME CIInv, PagesInv, DownloadReport
  PROVE  PagesInv'
<1> USE Bounds DEF PagesInv
<1>1. /\ step = "resolved" /\ report' \in Downloads(running.run) /\ step' = "prepared"
      /\ UNCHANGED <<running, pending, deployment, site, last, lastFailed, ciVars>>
  BY DEF DownloadReport
<1>2. running # None /\ running.run \in Runs /\ running.wanted /\ GoodPublication(running)
  BY <1>1 DEF HolderInv, QueueInv
<1>3. /\ report' \in uploaded[running.run]
      /\ NewestFirst => \A b \in uploaded[running.run] : b <= report'
  BY <1>1 DEF Downloads
<1>4. /\ uploaded[running.run] \subseteq 1 .. attempt[running.run] /\ attempt[running.run] \in Nat
      /\ report' \in Attempts
  <2>1. /\ uploaded[running.run] \subseteq 1 .. attempt[running.run] /\ attempt[running.run] \in Nat
        /\ attempt[running.run] <= reruns + 1 /\ reruns \in 0 .. MaxReruns
    BY <1>2 DEF CIInv
  <2> QED
    BY <1>3, <2>1
<1>5. running.by = "event" => Found(running.run, running.attempt, report')
  \* What passed has uploaded; the newest report is that or of a newer attempt.
  <2> SUFFICES ASSUME running.by = "event"
               PROVE  Found(running.run, running.attempt, report')
    OBVIOUS
  <2>1. <<running.run, running.attempt>> \in passed
    BY <1>2 DEF GoodPublication, PassedPush
  <2>2. running.attempt \in Attempts
    BY <2>1 DEF CIInv
  <2>3. running.attempt \in uploaded[running.run]
    BY <1>2, <2>1, <2>2 DEF CIInv
  <2>4. ASSUME NewestFirst
        PROVE  report' = running.attempt
               \/ (report' > running.attempt /\ attempt[running.run] > running.attempt)
    <3>1. PICK a, n, m : a = running.attempt /\ n = report' /\ m = attempt[running.run]
      OBVIOUS
    <3>2. a \in Nat /\ n \in Nat /\ m \in Nat /\ a <= n /\ n <= m
      BY <1>3, <1>4, <2>3, <2>4, <3>1
    <3> QED
      BY <3>1, <3>2
  <2> QED
    BY <1>3, <2>3, <2>4 DEF Found
<1>6. HolderInv'
  <2>1. running.by = "event" => Found(running.run, running.attempt, report')
    BY <1>1, <1>5
  <2> QED
    BY <1>1, <1>2, <1>4, <2>1 DEF HolderInv, Found, ciVars
<1>7. QueueInv'
  <2>1. \A p \in {running', pending'} : p # None => GoodPublication(p)
    BY <1>1 DEF QueueInv
  <2> QED
    BY <1>1, <2>1, PagesFrozen DEF QueueInv
<1>8. SiteInv'
  <2>1. \A d \in {deployment', site'} : d # None => GoodDeployment(d)
    BY <1>1 DEF SiteInv
  <2> QED
    BY <1>1, <2>1, PagesFrozen
<1>9. OrderInv'
  BY <1>1 DEF OrderInv, OfPush, ByItself
<1> QED
  BY <1>6, <1>7, <1>8, <1>9

LEMMA CreateDeploymentPages ==
  ASSUME PagesInv, CreateDeployment
  PROVE  PagesInv'
<1> USE Bounds DEF PagesInv
<1>1. /\ step = "prepared" /\ deployment = None /\ step' = "deploying"
      /\ deployment' = [run |-> running.run, attempt |-> running.attempt,
                        by |-> running.by, report |-> report]
      /\ UNCHANGED <<running, pending, report, site, last, lastFailed, ciVars>>
  BY DEF CreateDeployment, PagesFree
<1>2. /\ running # None /\ running.run \in Runs /\ running.wanted /\ report \in Attempts
      /\ running.by = "event" => Found(running.run, running.attempt, report)
      /\ GoodPublication(running)
  BY <1>1 DEF HolderInv, QueueInv
<1>3. deployment' \in Deployments
  BY <1>1, <1>2 DEF GoodPublication, Publications, Deployments
<1>4. /\ deployment'.run = running.run /\ deployment'.attempt = running.attempt
      /\ deployment'.by = running.by /\ deployment'.report = report
  BY <1>1
<1>5. GoodDeployment(deployment')
  BY <1>2, <1>3, <1>4 DEF GoodDeployment, GoodPublication
<1>6. SiteInv'
  <2>1. \A d \in {deployment', site'} : d # None => GoodDeployment(d)
    BY <1>1, <1>5 DEF SiteInv
  <2> QED
    BY <1>1, <2>1, PagesFrozen
<1>7. QueueInv'
  <2>1. \A p \in {running', pending'} : p # None => GoodPublication(p)
    BY <1>1 DEF QueueInv
  <2> QED
    BY <1>1, <2>1, PagesFrozen DEF QueueInv
<1>8. HolderInv'
  BY <1>1, <1>2 DEF HolderInv, Found, ciVars
<1>9. OrderInv'
  <2>1. ByItself(deployment') => OfPush(running) /\ deployment'.run = running.run
    BY <1>2, <1>4 DEF ByItself, OfPush
  <2>2. running.run \in Nat
    BY <1>2
  <2> QED
    BY <1>1, <2>1, <2>2 DEF OrderInv, OfPush, ByItself
<1> QED
  BY <1>6, <1>7, <1>8, <1>9

LEMMA PublisherPages ==
  ASSUME CIInv, PagesInv, PublisherStep
  PROVE  PagesInv'
<1>1. CASE Enter
  BY <1>1, EnterPages
<1>2. CASE Skip
  BY <1>2, LeavePages DEF Skip, PagesInv, QueueInv
<1>3. CASE Resolve
  BY <1>3, ResolvePages
<1>4. CASE CancelDeployment
  BY <1>4, CancelDeploymentPages
<1>5. CASE DownloadReport
  BY <1>5, DownloadReportPages
<1>6. CASE CreateDeployment
  BY <1>6, CreateDeploymentPages
<1>7. CASE Deployed
  BY <1>7, LeavePages DEF Deployed, PagesInv, QueueInv
<1>8. CASE FailPublication
  <2>1. lastFailed' \in BOOLEAN
    BY <1>8 DEF FailPublication, PagesInv, QueueInv
  <2>2. deployment' \in {deployment, None}
    BY <1>8 DEF FailPublication
  <2> QED
    BY <1>8, <2>1, <2>2, LeavePages DEF FailPublication
<1> QED
  BY <1>1, <1>2, <1>3, <1>4, <1>5, <1>6, <1>7, <1>8 DEF PublisherStep

LEMMA PagesFinishPages ==
  ASSUME PagesInv, PagesFinish
  PROVE  PagesInv'
<1> USE DEF PagesInv, PagesFinish
<1>1. QueueInv'
  <2>1. \A p \in {running', pending'} : p # None => GoodPublication(p)
    BY DEF QueueInv
  <2> QED
    BY <2>1, PagesFrozen DEF QueueInv
<1>2. HolderInv'
  BY DEF HolderInv, Found, ciVars
<1>3. SiteInv'
  <2>1. \A d \in {deployment', site'} : d # None => GoodDeployment(d)
    BY DEF SiteInv
  <2> QED
    BY <2>1, PagesFrozen
<1>4. OrderInv'
  BY DEF OrderInv, OfPush, ByItself
<1> QED
  BY <1>1, <1>2, <1>3, <1>4

LEMMA ByHandPages ==
  ASSUME CIInv, PagesInv, ByHand
  PROVE  PagesInv'
<1> USE Bounds DEF PagesInv
<1>1. UNCHANGED <<running, step, report, deployment, site, ciVars>>
  BY DEF ByHand
<1>2. PICK r \in Runs \cup {Latest}, wanted \in BOOLEAN, cancels \in BOOLEAN :
          Arrive(Publish(r, "hand", wanted, cancels))
  BY DEF ByHand
<1>3. PICK p : p = [run |-> r, attempt |-> 0, by |-> "hand", wanted |-> wanted, cancels |-> cancels]
  OBVIOUS
<1>4. pending' = p /\ last' = p /\ lastFailed' = FALSE
  BY <1>2, <1>3 DEF Arrive, Waits, Publish
<1>5. p \in Publications /\ p.by = "hand"
  BY <1>3 DEF Publications
<1>6. GoodPublication(p) /\ ~OfPush(p)
  BY <1>5 DEF GoodPublication, OfPush, ByItself
<1>7. QueueInv'
  <2>1. \A q \in {running', pending'} : q # None => GoodPublication(q)
    BY <1>1, <1>4, <1>6 DEF QueueInv
  <2>2. last' \in Maybe(Publications) /\ lastFailed' \in BOOLEAN
    BY <1>4, <1>5 DEF Maybe
  <2> QED
    BY <1>1, <2>1, <2>2, PagesFrozen
<1>8. HolderInv'
  BY <1>1 DEF HolderInv, Found, ciVars
<1>9. SiteInv'
  <2>1. \A d \in {deployment', site'} : d # None => GoodDeployment(d)
    BY <1>1 DEF SiteInv
  <2> QED
    BY <1>1, <2>1, PagesFrozen
<1>10. OrderInv'
  BY <1>1, <1>4, <1>6 DEF OrderInv, OfPush, ByItself
<1> QED
  BY <1>7, <1>8, <1>9, <1>10

-----------------------------------------------------------------------------
(* upload_sarif.yml.                                                        *)

\* The steps of an upload before it is filed.
LEMMA SarifSteps ==
  ASSUME CIInv, UploaderInv, AlertsInv, SarifDownload \/ SarifGivesUp
  PROVE  UploaderInv' /\ AlertsInv'
<1> USE Bounds
<1>1. UNCHANGED <<alerts, ciVars>>
  BY DEF SarifDownload, SarifGivesUp
<1>2. AlertsInv'
  BY <1>1 DEF AlertsInv, Ended, OwnTarget, MainCommits, ciVars
<1>3. UploaderInv'
  <2>1. CASE uploader' = None
    BY <2>1 DEF UploaderInv
  <2>2. CASE uploader' # None
    <3>1. uploader # None
          /\ \E a \in Downloads(uploader.run) :
                uploader' = [uploader EXCEPT !.step = "downloaded", !.report = a]
      BY <2>2 DEF SarifDownload, SarifGivesUp, EndUploader
    <3>2. /\ uploader.run \in Runs /\ attempt[uploader.run] > 0
          /\ uploader = [run |-> uploader.run, step |-> uploader.step,
                         report |-> uploader.report, target |-> uploader.target]
      BY <3>1 DEF UploaderInv
    <3>3. PICK a \in uploaded[uploader.run] :
             uploader' = [uploader EXCEPT !.step = "downloaded", !.report = a]
      BY <3>1 DEF Downloads
    <3>4. uploader' = [run |-> uploader.run, step |-> "downloaded",
                       report |-> a, target |-> uploader.target]
      BY <3>2, <3>3
    <3> QED
      BY <1>1, <3>2, <3>3, <3>4 DEF UploaderInv, ciVars
  <2> QED
    BY <2>1, <2>2
<1> QED
  BY <1>2, <1>3

\* What the metadata are bound to is what the run is of, whatever they say.
LEMMA BindingIsOwn ==
  ASSUME CIInv, NEW r \in Runs, attempt[r] > 0,
         NEW meta, NEW snapshot \in Snapshots(r),
         NEW target \in Binding(r, meta, snapshot) \ {None}
  PROVE  OwnTarget(r, target[1], target[2])
<1> DEFINE o == origin[r]
<1>1. o \in Origins
  BY DEF CIInv
<1>2. CASE o = "pull"
  <2>1. /\ snapshot # None /\ meta.ref = <<"pull", r>>
        /\ target = <<meta.ref, <<snapshot.base, r>>>>
    BY <1>2 DEF Binding, Event, Fork
  <2>2. snapshot.base \in MainCommits
    BY <2>1 DEF Snapshots
  <2>3. Ref(r, o) = <<"pull", r>>
    BY <1>2 DEF Ref
  <2> QED
    BY <1>2, <2>1, <2>2, <2>3 DEF OwnTarget
<1>3. CASE o = "fork"
  BY <1>3 DEF Binding, Event, Fork
<1>4. CASE o = "branch"
  BY <1>4 DEF Binding, Event
<1>5. CASE o \in {"push", "tag", "dispatch"}
  <2>1. Event(o) # "pull_request"
    BY <1>5 DEF Event
  <2>2. target = <<Ref(r, o), <<r>>>>
    BY <1>5, <2>1 DEF Binding
  <2> QED
    BY <1>5, <2>2 DEF OwnTarget
<1> QED
  BY <1>1, <1>2, <1>3, <1>4, <1>5 DEF Origins

LEMMA SarifVerifyStep ==
  ASSUME CIInv, UploaderInv, AlertsInv, SarifVerify
  PROVE  UploaderInv' /\ AlertsInv'
<1> DEFINE r == uploader.run
<1>1. UNCHANGED <<alerts, ciVars>> /\ uploader # None /\ uploader.step = "downloaded" /\ Settled(r)
  BY DEF SarifVerify
<1>2. AlertsInv'
  BY <1>1 DEF AlertsInv, Ended, OwnTarget, MainCommits, ciVars
<1>3. /\ r \in Runs /\ attempt[r] > 0 /\ uploader.report \in uploaded[r]
      /\ uploader = [run |-> uploader.run, step |-> uploader.step,
                     report |-> uploader.report, target |-> uploader.target]
  BY <1>1 DEF UploaderInv
<1>4. PICK target : /\ uploader' = [uploader EXCEPT !.step = "verified", !.target = target]
                    /\ OwnTarget(r, target[1], target[2])
  <2>1. PICK meta \in Metadata(r), snapshot \in Snapshots(r) :
           \E target \in Binding(r, meta, snapshot) \ {None} :
              uploader' = [uploader EXCEPT !.step = "verified", !.target = target]
    BY DEF SarifVerify
  <2> QED
    BY <1>3, <2>1, BindingIsOwn
<1>5. Ended(r, uploader.report)
  BY <1>1, <1>3 DEF Ended, Settled, InProgress
<1>6. uploader' = [run |-> r, step |-> "verified", report |-> uploader.report, target |-> target]
  BY <1>3, <1>4
<1>7. UploaderInv'
  <2>1. PICK n : n = uploader.report
    OBVIOUS
  <2>2. PICK q : q = r
    OBVIOUS
  <2>3. uploader' = [run |-> q, step |-> "verified", report |-> n, target |-> target]
    BY <1>6, <2>1, <2>2
  <2>4. Ended(q, n)' /\ OwnTarget(q, target[1], target[2])'
    BY <1>1, <1>4, <1>5, <2>1, <2>2 DEF Ended, OwnTarget, MainCommits, ciVars
  <2>5. q \in Runs /\ attempt'[q] > 0 /\ n \in uploaded'[q]
    BY <1>1, <1>3, <2>1, <2>2 DEF ciVars
  <2>6. /\ uploader'.run = q /\ uploader'.step = "verified"
        /\ uploader'.report = n /\ uploader'.target = target
    BY <2>3
  <2> HIDE DEF r
  <2> QED
    BY <2>3, <2>4, <2>5, <2>6 DEF UploaderInv, Ended, OwnTarget
<1> QED
  BY <1>2, <1>7

LEMMA SarifUploadStep ==
  ASSUME CIInv, UploaderInv, AlertsInv, SarifUpload
  PROVE  UploaderInv' /\ AlertsInv'
<1>1. UNCHANGED ciVars /\ uploader # None /\ uploader.step = "verified" /\ uploader' = None
  BY DEF SarifUpload, EndUploader
<1>2. PICK a : /\ a = [ref |-> uploader.target[1], sha |-> uploader.target[2],
                       run |-> uploader.run, attempt |-> uploader.report]
               /\ alerts' \subseteq alerts \cup {a}
  BY DEF SarifUpload
<1>3. /\ a.run \in Runs /\ a.attempt \in uploaded[a.run]
      /\ Ended(a.run, a.attempt) /\ OwnTarget(a.run, a.ref, a.sha)
  BY <1>1, <1>2 DEF UploaderInv
<1>4. a.attempt \in 1 .. attempt[a.run]
  BY <1>3 DEF CIInv
<1>5. \A b \in alerts' : /\ b.run \in Runs /\ b.attempt \in 1 .. attempt[b.run]
                         /\ Ended(b.run, b.attempt) /\ OwnTarget(b.run, b.ref, b.sha)
  BY <1>2, <1>3, <1>4 DEF AlertsInv
<1>6. AlertsInv'
  BY <1>1, <1>5 DEF AlertsInv, Ended, OwnTarget, MainCommits, ciVars
<1> QED
  BY <1>1, <1>6 DEF UploaderInv

-----------------------------------------------------------------------------
(* The invariant holds, and what follows from it.                           *)

LEMMA IInvParts == IInv <=> CIInv /\ NewestPush /\ PagesInv /\ UploaderInv /\ AlertsInv
BY DEF IInv, PagesInv

LEMMA StepHolds ==
  ASSUME IInv, [Next]_vars
  PROVE  IInv'
<1> SUFFICES ASSUME CIInv, NewestPush, PagesInv, UploaderInv, AlertsInv
             PROVE  CIInv' /\ NewestPush' /\ PagesInv' /\ UploaderInv' /\ AlertsInv'
  BY IInvParts DEF IInv, PagesInv
<1>1. CASE CINext
  BY <1>1, CIStep, CIPages, CISarif
<1>2. CASE PublisherStep \/ PagesFinish
  <2>1. UNCHANGED <<ciVars, byHand, sarifVars>>
    BY <1>2 DEF PublisherStep, Enter, Skip, Resolve, CancelDeployment, DownloadReport,
                CreateDeployment, Deployed, FailPublication, PagesFinish
  <2>2. CIInv' /\ NewestPush' /\ Grows
    BY <2>1, CIRests DEF CIInv
  <2>3. PagesInv'
    BY <1>2, PublisherPages, PagesFinishPages
  <2> QED
    BY <2>1, <2>2, <2>3, SarifUnchanged DEF sarifVars
<1>3. CASE ByHand
  <2>1. UNCHANGED <<ciVars, sarifVars>>
    BY <1>3 DEF ByHand
  <2>2. byHand' \in 0 .. MaxByHand
    BY <1>3, Bounds DEF ByHand, CIInv
  <2>3. CIInv' /\ NewestPush' /\ Grows
    BY <2>1, <2>2, CIRests
  <2> QED
    BY <1>3, <2>1, <2>3, ByHandPages, SarifUnchanged DEF sarifVars
<1>4. CASE SarifNext
  <2>1. UNCHANGED <<ciVars, pagesVars>>
    BY <1>4 DEF SarifNext, SarifDownload, SarifVerify, SarifGivesUp, SarifUpload
  <2>2. CIInv' /\ NewestPush' /\ Grows
    BY <2>1, CIRests DEF CIInv, pagesVars
  <2>3. PagesInv'
    BY <2>1, PagesFrozen
       DEF PagesInv, QueueInv, HolderInv, SiteInv, OrderInv, OfPush, ByItself, pagesVars
  <2>4. UploaderInv' /\ AlertsInv'
    BY <1>4, SarifSteps, SarifVerifyStep, SarifUploadStep DEF SarifNext
  <2> QED
    BY <2>2, <2>3, <2>4
<1>5. CASE UNCHANGED vars
  <2>1. UNCHANGED <<ciVars, pagesVars, sarifVars>>
    BY <1>5 DEF vars
  <2>2. CIInv' /\ NewestPush' /\ Grows
    BY <2>1, CIRests DEF CIInv, pagesVars
  <2>3. PagesInv'
    BY <2>1, PagesFrozen
       DEF PagesInv, QueueInv, HolderInv, SiteInv, OrderInv, OfPush, ByItself, pagesVars
  <2> QED
    BY <2>1, <2>2, <2>3, SarifUnchanged DEF sarifVars
<1> QED
  BY <1>1, <1>2, <1>3, <1>4, <1>5 DEF Next

\* Every state of every behaviour satisfies the inductive invariant.
THEOREM Invariance == Spec => []IInv
<1>1. Init => IInv
  BY InitHolds
<1>2. IInv /\ [Next]_vars => IInv'
  BY StepHolds
<1> QED
  BY <1>1, <1>2, PTL DEF Spec

\* The variables keep their shape: of a run of any origin, re-run any number of
\* times, no report is of an attempt that was not made.
THEOREM TypeCorrect == Spec => []TypeOK
<1>1. IInv => TypeOK
  <2> SUFFICES ASSUME IInv PROVE TypeOK
    OBVIOUS
  <2> USE Bounds DEF IInv
  <2>1. ASSUME NEW r \in Runs
        PROVE  /\ origin[r] \in Maybe(Origins) /\ attempt[r] \in {0} \cup Attempts
               /\ conclusion[r] \in Maybe(Conclusions) /\ uploaded[r] \subseteq 1 .. attempt[r]
    <3>1. /\ attempt[r] \in Nat /\ uploaded[r] \subseteq 1 .. attempt[r]
          /\ attempt[r] <= reruns + 1 /\ reruns \in 0 .. MaxReruns
          /\ origin[r] \in Maybe(Origins) /\ conclusion[r] \in Maybe(Conclusions)
      BY DEF CIInv
    <3> QED
      BY <3>1
  <2>2. passed \in SUBSET (Runs \X Attempts) /\ byHand \in 0 .. MaxByHand
    BY DEF CIInv
  <2>3. {running, pending, last} \subseteq Maybe(Publications) /\ lastFailed \in BOOLEAN
    BY DEF QueueInv, GoodPublication, Maybe
  <2>4. {deployment, site} \subseteq Maybe(Deployments)
    BY DEF SiteInv, GoodDeployment, Maybe
  <2> QED
    BY <2>1, <2>2, <2>3, <2>4 DEF TypeOK, HolderInv, UploaderInv
<1> QED
  BY <1>1, Invariance, PTL

\* What the site shows without anybody's doing was asked for by a push to main
\* whose attempt passed, whichever artifact the download returned: deploy.if lets
\* only such publications go on.
THEOREM SiteShowsPassedPush == Spec => []SiteShowsAPassedPush
<1>1. IInv => SiteShowsAPassedPush
  BY DEF IInv, SiteInv, GoodDeployment, PassedPush, SiteShowsAPassedPush
<1> QED
  BY <1>1, Invariance, PTL

\* Whichever artifact the download returned, it is one of the run that asked, and
\* the attempt that passed had left its own: pulse_ci.yml does not succeed without
\* its upload.
THEOREM SiteShowsOwnReport == Spec => []SiteShowsItsReport
<1>1. IInv => SiteShowsItsReport
  BY DEF IInv, SiteInv, GoodDeployment, Found, SiteShowsItsReport
<1> QED
  BY <1>1, Invariance, PTL

\* If NewestFirst, the site shows the report of the attempt that passed or, of a
\* run that has been re-run since, a later one's; otherwise this promises nothing.
THEOREM NewestArtifactIsNoOlder == Spec => []SiteShowsNoOlderReport
<1>1. IInv => SiteShowsNoOlderReport
  BY DEF IInv, SiteInv, GoodDeployment, Found, SiteShowsNoOlderReport
<1> QED
  BY <1>1, Invariance, PTL

\* The queue, the deployments left behind and the order in which runs end do not
\* take the site back to an older push.
THEOREM SiteMovesForward == Spec => SiteNeverGoesBack
<1>1. IInv /\ [Next]_vars
      => [ByItself(site) /\ ByItself(site') => site'.run >= site.run]_vars
  <2> SUFFICES ASSUME IInv, Next, ByItself(site), ByItself(site')
               PROVE  site'.run >= site.run
    BY DEF vars
  <2>1. site.run \in Nat
    BY Bounds DEF IInv, SiteInv, GoodDeployment, Deployments, ByItself
  <2>2. CASE PagesFinish
    <3>1. site' = deployment /\ deployment # None
      BY <2>2 DEF PagesFinish
    <3>2. deployment.run \in Nat
      BY <3>1, Bounds DEF IInv, SiteInv, GoodDeployment, Deployments
    <3>3. site.run <= deployment.run
      BY <3>1 DEF IInv, OrderInv
    <3> QED
      BY <2>1, <3>1, <3>2, <3>3
  <2>3. CASE ~PagesFinish
    <3>1. site' = site
      BY <2>3 DEF Next, CINext, StartRun, Rerun, UploadReport, Complete, PublisherStep, Enter,
                  Skip, Resolve, CancelDeployment, DownloadReport, CreateDeployment, Deployed,
                  FailPublication, ByHand, SarifNext, SarifDownload, SarifVerify, SarifGivesUp,
                  SarifUpload, pagesVars
    <3> QED
      BY <2>1, <3>1
  <2> QED
    BY <2>2, <2>3
<1> QED
  BY <1>1, Invariance, PTL DEF Spec, SiteNeverGoesBack

\* upload_sarif.yml, which binds to a run and not to an attempt, files nothing of
\* an attempt that is still running.
THEOREM AlertsAreOfEndedAttempts == Spec => []AlertsOfEndedAttempts
<1>1. IInv => AlertsOfEndedAttempts
  BY DEF IInv, AlertsInv, Ended, AlertsOfEndedAttempts
<1> QED
  BY <1>1, Invariance, PTL

\* Whatever the metadata in an artifact say, alerts are filed under the ref and
\* the commit of their own run, and of forks and branches none are.
THEOREM AlertsAreOfTheirOwnRef == Spec => []AlertsOfOwnRef
<1>1. IInv => AlertsOfOwnRef
  BY DEF IInv, AlertsInv, OwnTarget, AlertsOfOwnRef
<1> QED
  BY <1>1, Invariance, PTL

=============================================================================
