--------------------------------- MODULE Drops --------------------------------
(***************************************************************************)
(* The daily reference drops in MinIO and their publishers: `follow`, the  *)
(* service that publishes each day's drop when the simulated clock reaches *)
(* its publish time, and the commands `publish` and `revise` that add      *)
(* versions by hand (ADR-0008).                                            *)
(*                                                                         *)
(* A version is a folder of objects uploaded one by one, the manifest      *)
(* last; it exists as soon as one object does and is complete once the     *)
(* manifest does.  An upload may fail after any object, and a publisher    *)
(* may be killed there.  `follow` remembers in memory which days it has    *)
(* handled and, after a restart, finds out from the store.                 *)
(*                                                                         *)
(* Data: what is in a drop is how many tariff revisions its rates have     *)
(* been through (0: the default schedule).  What is wrong inside a         *)
(* corrupted drop is not a matter of how it is published.                  *)
(***************************************************************************)
EXTENDS Integers, FiniteSetsExt

CONSTANTS
  NumDays,      \* simulated days 1..NumDays
  MaxVersions,  \* bound: version folders of one day
  NumFiles,     \* data files of a drop
  Commands,     \* slots for `publish` and `revise` commands
  MaxErrors,    \* bound: publications that fail or are killed
  MaxRestarts,  \* bound: restarts of `follow`
  OnePublisher  \* is one date never published by two at the same time?

ASSUME BoundsAssumption ==
  /\ NumDays \in Nat /\ MaxVersions \in Nat \ {0} /\ NumFiles \in Nat \ {0}
  /\ MaxErrors \in Nat /\ MaxRestarts \in Nat

ASSUME PublishersAssumption == "follow" \notin Commands /\ OnePublisher \in BOOLEAN

VARIABLES
  today,        \* the simulated date
  plan,         \* plan_day: what is drawn for each day
  store,        \* the version folders of every day
  truth,        \* days whose version 1 has a ground-truth document
  writer,       \* the publication each publisher is in
  start,        \* the first day `follow` looks at since it was started
  handled,      \* the days it remembers
  failed,       \* days it has logged "publication failed; will retry" for
  interrupted,  \* days a publication has left a version without manifest
  errors, restarts  \* count what MaxErrors and MaxRestarts bound

counts == <<errors, restarts>>
vars == <<today, plan, store, truth, writer, start, handled, failed, interrupted, counts>>

Days       == 1..NumDays
Versions   == 1..MaxVersions
Files      == 1..NumFiles
Publishers == {"follow"} \cup Commands

NotThere == -1
Version  == [files : [Files -> Nat \cup {NotThere}], complete : BOOLEAN,
             supersedes : 0..MaxVersions, rates : Nat]
NoVersion == [files |-> [f \in Files |-> NotThere], complete |-> FALSE,
              supersedes |-> 0, rates |-> 0]

\* supersedes and rates are what the manifest will say, files counts uploads.
Writer == [pc : {"idle", "choose", "supersede", "upload", "manifest", "truth"},
           day : 0..NumDays, version : 0..MaxVersions, supersedes : 0..MaxVersions,
           rates : Nat, uploads : 0..NumFiles]
NoWriter == [pc |-> "idle", day |-> 0, version |-> 0, supersedes |-> 0,
             rates |-> 0, uploads |-> 0]

Init ==
  /\ today = 1 /\ plan \in [Days -> {"normal", "late", "missing"}]
  /\ store = [d \in Days |-> [v \in Versions |-> NoVersion]]
  /\ truth = {}
  /\ writer = [w \in Publishers |-> NoWriter]
  /\ start = 1 /\ handled = {} /\ failed = {} /\ interrupted = {}
  /\ errors = 0 /\ restarts = 0

-----------------------------------------------------------------------------
(* What the store shows.                                                   *)

\* versions: every folder that holds an object, complete or not.
HasFolder(d, v) ==
  store[d][v].complete \/ \E f \in Files : store[d][v].files[f] # NotThere
Folders(d)  == {v \in Versions : HasFolder(d, v)}
Complete(d) == {v \in Versions : store[d][v].complete}

Latest(vs) == IF vs = {} THEN 0 ELSE Max(vs)
LatestComplete(d) == Latest(Complete(d))

AlreadyHandled(d) == Folders(d) # {} \/ d \in truth

-----------------------------------------------------------------------------
(* Publishing a version.                                                   *)

Free(w, d) ==
  /\ writer[w].pc = "idle"
  /\ OnePublisher => \A u \in Publishers : writer[u].pc = "idle" \/ writer[u].day # d

Publish(w, d, rates) ==
  writer' = [writer EXCEPT ![w] = [NoWriter EXCEPT !.pc = "choose", !.day = d,
                                                   !.rates = rates]]

\* Mutant of ChooseVersion: off by one, once there is a folder.
ChooseLatest(w) ==
  /\ writer[w].pc = "choose"
  /\ writer' = [writer EXCEPT ![w].pc = "supersede",
                              ![w].version = Max({1, Latest(Folders(writer[w].day))})]
  /\ UNCHANGED <<today, plan, store, truth, start, handled, failed, interrupted, counts>>

ChooseVersion(w) ==
  /\ writer[w].pc = "choose"
  /\ Latest(Folders(writer[w].day)) < MaxVersions
  /\ writer' = [writer EXCEPT ![w].pc = "supersede",
                              ![w].version = Latest(Folders(writer[w].day)) + 1]
  /\ UNCHANGED <<today, plan, store, truth, start, handled, failed, interrupted, counts>>

\* Mutant of ReadSuperseded: the folder before this one, complete or not.
SupersedePrevious(w) ==
  /\ writer[w].pc = "supersede"
  /\ writer' = [writer EXCEPT ![w].pc = "upload", ![w].supersedes = writer[w].version - 1]
  /\ UNCHANGED <<today, plan, store, truth, start, handled, failed, interrupted, counts>>

ReadSuperseded(w) ==
  /\ writer[w].pc = "supersede"
  /\ writer' = [writer EXCEPT ![w].pc = "upload",
                              ![w].supersedes = LatestComplete(writer[w].day)]
  /\ UNCHANGED <<today, plan, store, truth, start, handled, failed, interrupted, counts>>

Put(w, version) ==
  store' = [store EXCEPT ![writer[w].day][writer[w].version] = version]

Target(w) == store[writer[w].day][writer[w].version]

\* Mutant of UploadFile: one object too many.
UploadOneMore(w) ==
  /\ writer[w].pc = "upload"
  /\ LET n == writer[w].uploads + 1 IN
     /\ Put(w, [Target(w) EXCEPT !.files[n] = writer[w].rates])
     /\ writer' = [writer EXCEPT ![w].uploads = n,
                                 ![w].pc = IF n > NumFiles THEN "manifest" ELSE @]
  /\ UNCHANGED <<today, plan, truth, start, handled, failed, interrupted, counts>>

UploadFile(w) ==
  /\ writer[w].pc = "upload"
  /\ LET n == writer[w].uploads + 1 IN
     /\ Put(w, [Target(w) EXCEPT !.files[n] = writer[w].rates])
     /\ writer' = [writer EXCEPT ![w].uploads = n,
                                 ![w].pc = IF n = NumFiles THEN "manifest" ELSE @]
  /\ UNCHANGED <<today, plan, truth, start, handled, failed, interrupted, counts>>

\* Mutant of UploadManifest: it does not wait for the data files.
ManifestAnyTime(w) ==
  /\ writer[w].pc \in {"upload", "manifest"}
  /\ Put(w, [Target(w) EXCEPT !.complete = TRUE, !.rates = writer[w].rates,
                              !.supersedes = writer[w].supersedes])
  /\ writer' = [writer EXCEPT ![w].pc = "truth"]
  /\ UNCHANGED <<today, plan, truth, start, handled, failed, interrupted, counts>>

UploadManifest(w) ==
  /\ writer[w].pc = "manifest"
  /\ Put(w, [Target(w) EXCEPT !.complete = TRUE, !.rates = writer[w].rates,
                              !.supersedes = writer[w].supersedes])
  /\ writer' = [writer EXCEPT ![w].pc = "truth"]
  /\ UNCHANGED <<today, plan, truth, start, handled, failed, interrupted, counts>>

\* The last step; `follow` then remembers the day.
WriteGroundTruth(w) ==
  /\ writer[w].pc = "truth"
  /\ truth' = IF writer[w].version = 1 THEN truth \cup {writer[w].day} ELSE truth
  /\ writer' = [writer EXCEPT ![w] = NoWriter]
  /\ handled' = IF w = "follow" THEN handled \cup {writer[w].day} ELSE handled
  /\ UNCHANGED <<today, plan, store, start, failed, interrupted, counts>>

PublishStep(w) ==
  \/ ChooseVersion(w) \/ ReadSuperseded(w) \/ UploadFile(w)
  \/ UploadManifest(w) \/ WriteGroundTruth(w)

\* What a publisher that stops here leaves behind.
LeavesBehind(w) ==
  IF writer[w].uploads > 0 /\ writer[w].pc \in {"upload", "manifest"}
  THEN interrupted \cup {writer[w].day} ELSE interrupted

\* Mutant of PublicationFails: the exception ends the publication for good.
FailureIsFinal(w) ==
  /\ writer[w].pc \notin {"idle", "truth"}
  /\ errors < MaxErrors
  /\ errors' = errors + 1
  /\ failed' = failed \cup {writer[w].day}
  /\ handled' = handled \cup {writer[w].day}
  /\ writer' = [writer EXCEPT ![w] = NoWriter]
  /\ UNCHANGED <<today, plan, store, truth, start, interrupted, restarts>>

\* An exception, caught by the loop of `follow`; a command just ends.
PublicationFails(w) ==
  /\ writer[w].pc # "idle"
  /\ errors < MaxErrors
  /\ errors' = errors + 1
  /\ failed' = IF w = "follow" THEN failed \cup {writer[w].day} ELSE failed
  /\ interrupted' = LeavesBehind(w)
  /\ writer' = [writer EXCEPT ![w] = NoWriter]
  /\ UNCHANGED <<today, plan, store, truth, start, handled, restarts>>

-----------------------------------------------------------------------------
(* The publishers.                                                         *)

\* A late drop lands on the day after its own.
PublishTimeCome(d) == IF plan[d] = "late" THEN today > d ELSE today >= d

Looks(d) ==
  /\ writer["follow"].pc = "idle"
  /\ d \in start..today /\ d \notin handled

SeeHandled(d) ==
  /\ Looks(d) /\ AlreadyHandled(d)
  /\ handled' = handled \cup {d}
  /\ UNCHANGED <<today, plan, store, truth, writer, start, failed, interrupted, counts>>

ToExecute(d) == Looks(d) /\ ~AlreadyHandled(d) /\ PublishTimeCome(d)

Withhold(d) ==
  /\ ToExecute(d) /\ plan[d] = "missing"
  /\ truth' = truth \cup {d}
  /\ handled' = handled \cup {d}
  /\ UNCHANGED <<today, plan, store, writer, start, failed, interrupted, counts>>

StartPublishing(d) ==
  /\ ToExecute(d) /\ plan[d] # "missing"
  /\ Free("follow", d)
  /\ Publish("follow", d, 0)
  /\ UNCHANGED <<today, plan, store, truth, start, handled, failed, interrupted, counts>>

\* A poll that finds nothing to do.
IdlePoll ==
  /\ writer["follow"].pc = "idle"
  /\ \A d \in Days : ~(Looks(d) /\ (AlreadyHandled(d) \/ PublishTimeCome(d)))
  /\ UNCHANGED vars

Poll ==
  \/ IdlePoll
  \/ \E d \in Days : SeeHandled(d) \/ Withhold(d) \/ StartPublishing(d)

CommandPublish(c, d) ==
  /\ Free(c, d)
  /\ Latest(Folders(d)) < MaxVersions
  /\ Publish(c, d, 0)
  /\ UNCHANGED <<today, plan, store, truth, start, handled, failed, interrupted, counts>>

\* Mutant of CommandRevise: revises the newest folder that has a schedule.
ReviseNewest(c, d) ==
  /\ Free(c, d)
  /\ LatestComplete(d) # 0 /\ Latest(Folders(d)) < MaxVersions
  /\ Publish(c, d, store[d][Latest(Folders(d))].files[1] + 1)
  /\ UNCHANGED <<today, plan, store, truth, start, handled, failed, interrupted, counts>>

\* revise: changes the rates of the latest complete version.
CommandRevise(c, d) ==
  /\ Free(c, d)
  /\ LatestComplete(d) # 0 /\ Latest(Folders(d)) < MaxVersions
  /\ Publish(c, d, store[d][LatestComplete(d)].files[1] + 1)
  /\ UNCHANGED <<today, plan, store, truth, start, handled, failed, interrupted, counts>>

ClockAdvances ==
  /\ today <= NumDays
  /\ today' = today + 1
  /\ UNCHANGED <<plan, store, truth, writer, start, handled, failed, interrupted, counts>>

\* The container restarts `follow` without --from-date: it starts at today.
Restart ==
  /\ restarts < MaxRestarts
  /\ restarts' = restarts + 1
  /\ start' = today /\ handled' = {}
  /\ interrupted' = LeavesBehind("follow")
  /\ writer' = [writer EXCEPT !["follow"] = NoWriter]
  /\ UNCHANGED <<today, plan, store, truth, failed, errors>>

Next ==
  \/ ClockAdvances \/ Poll \/ Restart
  \/ \E c \in Commands, d \in Days : CommandPublish(c, d) \/ CommandRevise(c, d)
  \/ \E w \in Publishers : PublishStep(w) \/ PublicationFails(w)

Spec == Init /\ [][Next]_vars

\* `follow` polls every second; a publication goes on until it ends or fails.
FairSpec ==
  /\ Spec
  /\ WF_vars(Poll) /\ \A w \in Publishers : WF_vars(PublishStep(w))

-----------------------------------------------------------------------------
(* Properties.                                                             *)

TypeOK ==
  /\ today \in 1..(NumDays + 1) /\ start \in 1..(NumDays + 1)
  /\ plan \in [Days -> {"normal", "late", "missing"}]
  /\ store \in [Days -> [Versions -> Version]]
  /\ writer \in [Publishers -> Writer]
  /\ truth \subseteq Days /\ handled \subseteq Days
  /\ failed \subseteq Days /\ interrupted \subseteq Days

\* "A half-uploaded drop can never be read": a version with a manifest has
\* every file the manifest describes, whichever upload failed on the way.
CompleteIsWhole ==
  \A d \in Days, v \in Versions :
    store[d][v].complete => \A f \in Files : store[d][v].files[f] = store[d][v].rates

\* "Published drops are never overwritten": no retry, restart, republication
\* or revision touches an object of a complete version.
PublishedStays ==
  [][\A d \in Days, v \in Versions :
       store[d][v].complete => store'[d][v] = store[d][v]]_vars

\* A manifest names the version that was in force before it: the latest
\* complete one, past any folder a failed publication left in between.
SupersedesWhatWasServed ==
  \A d \in Days, v \in Versions :
    store[d][v].complete =>
      store[d][v].supersedes = Latest({u \in Complete(d) : u < v})

\* Tariff revisions add up: a revised drop carries one revision more than the
\* version it supersedes, none is lost and none applied twice.
RevisionsAddUp ==
  \A d \in Days, v \in Versions :
    store[d][v].complete /\ store[d][v].rates # 0 =>
      \E u \in Complete(d) : /\ u = store[d][v].supersedes
                             /\ store[d][v].rates = store[d][u].rates + 1

\* A day's drop is published once its time has come, however often a
\* publication of it fails or `follow` is restarted, unless a publication that
\* was interrupted has left a folder for it or the restart was on a later day.
PlannedDayIsPublished ==
  \A d \in Days :
    PublishTimeCome(d) /\ plan[d] # "missing"
      ~> Complete(d) # {} \/ d \in interrupted \/ d < start

\* "drop publication failed; will retry".
FailedPublicationIsRetried ==
  \A d \in Days : d \in failed ~> Complete(d) # {}
=============================================================================
