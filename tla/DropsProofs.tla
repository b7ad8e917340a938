------------------------------ MODULE DropsProofs -----------------------------
(***************************************************************************)
(* The drops under the assumption of ADR-0008, that two publishers never   *)
(* write the same date at once: any number of days, versions, files and    *)
(* failures, and any commands next to `follow`.                            *)
(***************************************************************************)
EXTENDS Drops, FiniteSetTheorems, TLAPS

\* A bounded set of positive numbers has a greatest element, which Max returns.
\* The sets of the elements above each element are well-founded under strict
\* inclusion, and a minimal one is empty.
LEMMA MaxIsGreatest ==
  ASSUME NEW N \in Nat, NEW S \in SUBSET (1..N), S # {}
  PROVE  Max(S) \in S /\ \A x \in S : x <= Max(S)
<1> DEFINE Above(x) == {y \in S : y > x}
           T == {Above(x) : x \in S}
<1>1. IsFiniteSet(S)
  BY FS_BoundedSetOfNaturals
<1>2. IsWellFoundedOn(StrictSubsetOrdering(S), FiniteSubsetsOf(S))
  BY <1>1, FS_StrictSubsetOrderingWellFounded
<1>3. T \subseteq FiniteSubsetsOf(S)
  <2>1. SUFFICES ASSUME NEW x \in S PROVE Above(x) \in FiniteSubsetsOf(S)
    OBVIOUS
  <2>2. Above(x) \subseteq S
    OBVIOUS
  <2>3. IsFiniteSet(Above(x))
    BY <1>1, <2>2, FS_Subset
  <2> QED
    BY <2>2, <2>3 DEF FiniteSubsetsOf
<1>4. PICK A \in T : \A B \in T : <<B, A>> \notin StrictSubsetOrdering(S)
  <2>1. T # {}
    OBVIOUS
  <2> HIDE DEF T
  <2> QED
    BY <1>2, <1>3, <2>1, WFMin
<1>5. PICK x \in S : A = Above(x)
  BY <1>4
<1>6. A = {}
  <2>1. SUFFICES ASSUME NEW y \in A PROVE FALSE
    OBVIOUS
  <2>2. Above(y) \subseteq A /\ y \notin Above(y)
    <3>1. y \in S /\ y > x
      BY <2>1, <1>5
    <3>2. ~(y > y) /\ \A z \in S : z > y => z > x
      <4>1. x \in Int /\ y \in Int /\ \A z \in S : z \in Int
        BY <3>1
      <4> QED
        BY <3>1, <4>1
    <3> QED
      BY <3>1, <3>2, <1>5
  <2>3. <<Above(y), A>> \in StrictSubsetOrdering(S)
    <3>1. Above(y) \in SUBSET S /\ A \in SUBSET S /\ Above(y) # A
      BY <2>1, <2>2, <1>5
    <3>2. <<Above(y), A>> \in (SUBSET S) \X (SUBSET S)
      BY <3>1
    <3> QED
      BY <3>1, <3>2, <2>2 DEF StrictSubsetOrdering
  <2>4. Above(y) \in T
    BY <2>1, <1>5
  <2> QED
    BY <2>3, <2>4, <1>4
<1>7. \A y \in S : x >= y
  BY <1>5, <1>6
<1> QED
  BY <1>7 DEF Max

-----------------------------------------------------------------------------
(* The inductive invariant.                                                *)

\* Where a publication stands fits what it has chosen and uploaded.
WriterOK(w) ==
  /\ writer[w].pc # "idle" => writer[w].day \in Days
  /\ writer[w].pc \in {"supersede", "upload", "manifest", "truth"}
       => writer[w].version \in Versions
  /\ writer[w].pc \in {"choose", "supersede"} => writer[w].uploads = 0
  /\ writer[w].pc = "upload" => writer[w].uploads < NumFiles
  /\ writer[w].pc = "manifest" => writer[w].uploads = NumFiles

Types == TypeOK /\ \A w \in Publishers : WriterOK(w)

Exclusive ==
  \A w, u \in Publishers :
    w # u /\ writer[w].pc # "idle" /\ writer[u].pc # "idle"
      => writer[w].day # writer[u].day

\* A publication under way writes a version above all the complete ones, and
\* what it has uploaded is there.
Fresh(w) ==
  writer[w].pc \in {"supersede", "upload", "manifest"} =>
    \A v \in Complete(writer[w].day) : v < writer[w].version

Uploaded(w) ==
  writer[w].pc \in {"upload", "manifest"} =>
    /\ writer[w].supersedes = LatestComplete(writer[w].day)
    /\ \A f \in Files : f <= writer[w].uploads => Target(w).files[f] = writer[w].rates

\* What it revises stays the latest complete version until it is through.
Revising(w) ==
  writer[w].pc \in {"choose", "supersede", "upload", "manifest"} /\ writer[w].rates # 0 =>
    \E u \in Complete(writer[w].day) :
      u = LatestComplete(writer[w].day) /\ writer[w].rates = store[writer[w].day][u].rates + 1

Safe(w)  == Fresh(w) /\ Uploaded(w) /\ Revising(w)
StoreInv == CompleteIsWhole /\ SupersedesWhatWasServed /\ RevisionsAddUp

DropsInv == Types /\ Exclusive /\ (\A w \in Publishers : Safe(w)) /\ StoreInv

-----------------------------------------------------------------------------
(* Types.                                                                  *)

LEMMA LatestIsGreatest ==
  ASSUME NEW S \in SUBSET Versions
  PROVE  /\ Latest(S) \in 0..MaxVersions
         /\ S # {} => Latest(S) \in S
         /\ \A v \in S : v <= Latest(S)
<1>1. CASE S = {}
  BY <1>1, BoundsAssumption DEF Latest
<1>2. CASE S # {}
  <2>1. Max(S) \in S /\ \A v \in S : v <= Max(S)
    BY <1>2, MaxIsGreatest, BoundsAssumption DEF Versions
  <2> QED
    <3>1. Latest(S) = Max(S)
      BY <1>2 DEF Latest
    <3>2. Max(S) \in 0..MaxVersions
      <4>1. Max(S) \in Versions
        BY <2>1
      <4> HIDE DEF Max
      <4> QED
        BY <4>1, BoundsAssumption DEF Versions
    <3> QED
      BY <2>1, <3>1, <3>2
<1> QED
  BY <1>1, <1>2

\* Updates of a publication that keep it one.
LEMMA WriterUpdate ==
  ASSUME NEW r \in Writer, NEW pc \in {"supersede", "upload", "manifest"}
  PROVE  /\ \A v \in Versions : [r EXCEPT !.pc = pc, !.version = v] \in Writer
         /\ \A n \in Files : [r EXCEPT !.uploads = n, !.pc = pc] \in Writer
<1>1. \A v \in Versions : v \in 0..MaxVersions
  BY BoundsAssumption DEF Versions
<1>2. \A n \in Files : n \in 0..NumFiles
  BY BoundsAssumption DEF Files
<1> QED
  BY <1>1, <1>2 DEF Writer

LEMMA TypesInit == Init => Types
<1> SUFFICES ASSUME Init PROVE Types
  OBVIOUS
<1>1. NoVersion \in Version /\ NoWriter \in Writer
  BY BoundsAssumption DEF NoVersion, Version, NoWriter, Writer, NotThere
<1>2. TypeOK
  BY <1>1, BoundsAssumption DEF Init, TypeOK
<1> QED
  BY <1>2 DEF Init, Types, WriterOK, NoWriter

LEMMA TypesStep == Types /\ [Next]_vars => Types'
<1> SUFFICES ASSUME Types, [Next]_vars PROVE Types'
  OBVIOUS
<1> USE BoundsAssumption DEF Types
<1>0. /\ NoWriter \in Writer
      /\ \A d \in Days : /\ Latest(Folders(d)) \in 0..MaxVersions
                         /\ LatestComplete(d) \in 0..MaxVersions
  BY LatestIsGreatest DEF NoWriter, Writer, Folders, Complete, LatestComplete
<1>1. CASE ClockAdvances
  BY <1>1 DEF ClockAdvances, TypeOK, WriterOK
<1>2. ASSUME NEW d \in Days, SeeHandled(d) \/ Withhold(d) PROVE Types'
  BY <1>2 DEF SeeHandled, Withhold, TypeOK, WriterOK
<1>3. ASSUME NEW w \in Publishers, NEW d \in Days, NEW r \in Nat, Publish(w, d, r),
             UNCHANGED <<today, plan, store, truth, start, handled, failed, interrupted, counts>>
      PROVE  Types'
  <2>1. [NoWriter EXCEPT !.pc = "choose", !.day = d, !.rates = r] \in Writer
    <3>1. d \in 0..NumDays /\ r \in Nat
      BY <1>3 DEF Days
    <3> QED
      BY <1>0, <3>1 DEF Writer
  <2>2. writer' \in [Publishers -> Writer]
    BY <1>3, <2>1 DEF Publish, TypeOK
  <2>3. \A u \in Publishers : WriterOK(u)'
    BY <1>3 DEF Publish, TypeOK, WriterOK, NoWriter
  <2> QED
    BY <1>3, <2>2, <2>3 DEF TypeOK
<1>4. ASSUME NEW w \in Publishers, writer' = [writer EXCEPT ![w] = NoWriter],
             UNCHANGED <<plan, store, today>>, truth' \subseteq Days, handled' \subseteq Days,
             failed' \subseteq Days, interrupted' \subseteq Days, start' \in 1..(NumDays + 1)
      PROVE  Types'
  <2>1. writer' \in [Publishers -> Writer]
    BY <1>0, <1>4 DEF TypeOK
  <2>2. \A u \in Publishers : WriterOK(u)'
    BY <1>4 DEF TypeOK, WriterOK, NoWriter
  <2> QED
    BY <1>4, <2>1, <2>2 DEF TypeOK
<1>5. ASSUME NEW w \in Publishers, PublishStep(w) PROVE Types'
  <2> USE DEF TypeOK
  <2>d. writer[w] \in Writer /\ (writer[w].pc # "idle" => writer[w].day \in Days)
    BY DEF WriterOK
  <2>1. CASE ChooseVersion(w)
    <3>1. Latest(Folders(writer[w].day)) + 1 \in Versions
      BY <1>0, <2>d, <2>1 DEF ChooseVersion, Versions
    <3>2. writer' \in [Publishers -> Writer]
      <4>1. [writer[w] EXCEPT !.pc = "supersede",
                              !.version = Latest(Folders(writer[w].day)) + 1] \in Writer
        BY <3>1, <2>d, WriterUpdate
      <4> QED
        BY <2>1, <4>1 DEF ChooseVersion
    <3>3. \A u \in Publishers : WriterOK(u)'
      BY <2>1, <3>1, <2>d DEF ChooseVersion, WriterOK, Writer
    <3> QED
      BY <2>1, <3>2, <3>3 DEF ChooseVersion
  <2>2. CASE ReadSuperseded(w)
    <3>1. writer' \in [Publishers -> Writer]
      BY <1>0, <2>2, <2>d DEF ReadSuperseded, Writer
    <3>2. \A u \in Publishers : WriterOK(u)'
      BY <2>2, <2>d DEF ReadSuperseded, WriterOK, Writer
    <3> QED
      BY <2>2, <3>1, <3>2 DEF ReadSuperseded
  <2>3. CASE UploadFile(w)
    <3> DEFINE n == writer[w].uploads + 1
    <3>1. n \in Files /\ writer[w].version \in Versions
      BY <2>3, <2>d DEF UploadFile, WriterOK, Writer, Files
    <3>2. [Target(w) EXCEPT !.files[n] = writer[w].rates] \in Version
      <4>1. Target(w) \in Version
        BY <2>3, <2>d, <3>1 DEF UploadFile, Target
      <4>2. writer[w].rates \in Nat
        BY <2>d DEF Writer
      <4>3. [Target(w).files EXCEPT ![n] = writer[w].rates] \in [Files -> Nat \cup {NotThere}]
        BY <3>1, <4>1, <4>2 DEF Version
      <4> QED
        BY <4>1, <4>3 DEF Version
    <3>3. store' \in [Days -> [Versions -> Version]]
      BY <2>3, <2>d, <3>1, <3>2 DEF UploadFile, Put
    <3>4. writer' \in [Publishers -> Writer]
      <4>1. [writer[w] EXCEPT !.uploads = n, !.pc = IF n = NumFiles THEN "manifest" ELSE @]
              \in Writer
        <5>1. CASE n = NumFiles
          BY <2>d, <3>1, <5>1, WriterUpdate
        <5>2. CASE n # NumFiles
          <6>1. [writer[w] EXCEPT !.uploads = n, !.pc = "upload"] \in Writer
            BY <2>d, <3>1, WriterUpdate
          <6> QED
            BY <2>3, <5>2, <6>1 DEF UploadFile
        <5> QED
          BY <5>1, <5>2
      <4> QED
        BY <2>3, <4>1 DEF UploadFile
    <3>5. \A u \in Publishers : WriterOK(u)'
      BY SMTT(30), <2>3, <2>d, <3>1 DEF UploadFile, WriterOK, Writer, Files
    <3> QED
      BY <2>3, <3>3, <3>4, <3>5 DEF UploadFile
  <2>4. CASE UploadManifest(w)
    <3>1. writer[w].version \in Versions
      BY <2>4 DEF UploadManifest, WriterOK
    <3>2. [Target(w) EXCEPT !.complete = TRUE, !.rates = writer[w].rates,
                            !.supersedes = writer[w].supersedes] \in Version
      <4>1. Target(w) \in Version
        BY <2>4, <2>d, <3>1 DEF UploadManifest, Target
      <4>2. writer[w].rates \in Nat /\ writer[w].supersedes \in 0..MaxVersions
        BY <2>d DEF Writer
      <4> QED
        BY <4>1, <4>2 DEF Version
    <3>3. store' \in [Days -> [Versions -> Version]]
      BY <2>4, <2>d, <3>1, <3>2 DEF UploadManifest, Put
    <3>4. writer' \in [Publishers -> Writer]
      BY <2>4, <2>d DEF UploadManifest, Writer
    <3>5. \A u \in Publishers : WriterOK(u)'
      BY <2>4, <2>d DEF UploadManifest, WriterOK, Writer
    <3> QED
      BY <2>4, <3>3, <3>4, <3>5 DEF UploadManifest
  <2>5. CASE WriteGroundTruth(w)
    <3>1. truth' \subseteq Days /\ handled' \subseteq Days
      BY <2>5, <2>d DEF WriteGroundTruth
    <3> QED
      BY <1>4, <2>5, <3>1 DEF WriteGroundTruth
  <2> QED
    BY <1>5, <2>1, <2>2, <2>3, <2>4, <2>5 DEF PublishStep
<1>6. ASSUME NEW w \in Publishers, PublicationFails(w) PROVE Types'
  <2>1. LeavesBehind(w) \subseteq Days
    BY DEF LeavesBehind, TypeOK, WriterOK
  <2>2. failed' \subseteq Days
    BY <1>6 DEF PublicationFails, TypeOK, WriterOK
  <2> QED
    BY <1>4, <1>6, <2>1, <2>2 DEF PublicationFails, TypeOK
<1>7. CASE Restart
  <2>1. "follow" \in Publishers
    BY DEF Publishers
  <2>2. LeavesBehind("follow") \subseteq Days
    BY <2>1 DEF LeavesBehind, TypeOK, WriterOK
  <2> QED
    BY <1>4, <1>7, <2>1, <2>2 DEF Restart, TypeOK
<1>8. ASSUME NEW d \in Days, StartPublishing(d) PROVE Types'
  <2>1. "follow" \in Publishers
    BY DEF Publishers
  <2> QED
    BY <1>3, <1>8, <2>1 DEF StartPublishing
<1>9. ASSUME NEW c \in Commands, NEW d \in Days, CommandPublish(c, d) \/ CommandRevise(c, d)
      PROVE  Types'
  <2>1. c \in Publishers
    BY DEF Publishers
  <2>2. CASE CommandPublish(c, d)
    BY <1>3, <2>1, <2>2 DEF CommandPublish
  <2>3. CASE CommandRevise(c, d)
    <3>1. store[d][LatestComplete(d)].files[1] + 1 \in Nat
      <4>1. LatestComplete(d) \in Versions /\ 1 \in Files
        BY <1>0, <2>3 DEF CommandRevise, Versions, Files
      <4>2. store[d][LatestComplete(d)].files[1] \in Nat \cup {NotThere}
        BY <4>1 DEF TypeOK, Version
      <4> QED
        BY <4>2 DEF NotThere
    <3> QED
      BY <1>3, <2>1, <2>3, <3>1 DEF CommandRevise
  <2> QED
    BY <1>9, <2>2, <2>3
<1>10. CASE IdlePoll \/ UNCHANGED vars
  BY <1>10 DEF IdlePoll, vars, counts, TypeOK, WriterOK
<1> QED
  BY <1>1, <1>2, <1>5, <1>6, <1>7, <1>8, <1>9, <1>10 DEF Next, Poll

\* Every variable keeps to its type: no publication, however it ends, writes
\* outside the folders of a day.
THEOREM DropsTypeCorrect == Spec => []TypeOK
<1>1. Types => TypeOK
  BY DEF Types
<1> QED
  BY <1>1, TypesInit, TypesStep, PTL DEF Spec

-----------------------------------------------------------------------------
(* Safety.                                                                 *)

\* What is known of a publication stays true as long as neither it nor the
\* folders of its day change.
LEMMA SafeKept ==
  ASSUME NEW u \in Publishers, Safe(u), writer'[u] = writer[u],
         writer[u].pc # "idle" => store'[writer[u].day] = store[writer[u].day]
  PROVE  Safe(u)'
<1>1. CASE writer[u].pc = "idle"
  BY <1>1 DEF Safe, Fresh, Uploaded, Revising
<1>2. CASE writer[u].pc # "idle"
  <2>1. /\ Complete(writer[u].day)' = Complete(writer[u].day)
        /\ LatestComplete(writer[u].day)' = LatestComplete(writer[u].day)
        /\ Target(u)' = Target(u)
    BY <1>2 DEF Complete, LatestComplete, Target
  <2> QED
    BY <1>2, <2>1 DEF Safe, Fresh, Uploaded, Revising
<1> QED
  BY <1>1, <1>2

LEMMA StoreKept ==
  ASSUME StoreInv, store' = store
  PROVE  StoreInv'
BY DEF StoreInv, CompleteIsWhole, SupersedesWhatWasServed, RevisionsAddUp, Complete

\* A publication that ends, or is given up, leaves the others alone.
LEMMA EndKeeps ==
  ASSUME DropsInv, Types', NEW w \in Publishers, store' = store,
         writer' = [writer EXCEPT ![w] = NoWriter]
  PROVE  DropsInv'
<1>1. writer \in [Publishers -> Writer]
  BY DEF DropsInv, Types, TypeOK
<1>2. Exclusive'
  BY <1>1 DEF DropsInv, Exclusive, NoWriter
<1>3. ASSUME NEW u \in Publishers PROVE Safe(u)'
  <2>1. CASE u = w
    BY <1>1, <2>1 DEF Safe, Fresh, Uploaded, Revising, NoWriter
  <2>2. CASE u # w
    BY <1>1, <2>2, SafeKept DEF DropsInv
  <2> QED
    BY <2>1, <2>2
<1> QED
  BY <1>2, <1>3, StoreKept DEF DropsInv

\* So does one that starts on a date nobody else is publishing; a revision
\* starts from the latest complete version.
LEMMA StartKeeps ==
  ASSUME DropsInv, Types', OnePublisher, NEW w \in Publishers, NEW d \in Days,
         NEW r \in Nat, Free(w, d), Publish(w, d, r), store' = store,
         r # 0 => \E u \in Complete(d) : u = LatestComplete(d) /\ r = store[d][u].rates + 1
  PROVE  DropsInv'
<1>1. writer \in [Publishers -> Writer]
  BY DEF DropsInv, Types, TypeOK
<1>2. /\ writer'[w] = [NoWriter EXCEPT !.pc = "choose", !.day = d, !.rates = r]
      /\ \A u \in Publishers \ {w} : writer'[u] = writer[u]
  BY <1>1 DEF Publish
<1>3. Exclusive'
  <2>1. writer'[w].day = d
    BY <1>2 DEF NoWriter
  <2>2. \A u \in Publishers \ {w} : writer'[u].pc = "idle" \/ writer'[u].day # d
    BY <1>2 DEF Free
  <2> QED
    BY ZenonT(30), <1>2, <2>1, <2>2 DEF DropsInv, Exclusive
<1>4. ASSUME NEW u \in Publishers PROVE Safe(u)'
  <2>1. CASE u = w
    <3>1. /\ writer'[w].pc = "choose" /\ writer'[w].day = d /\ writer'[w].rates = r
      BY <1>2 DEF NoWriter
    <3>2. Complete(d)' = Complete(d) /\ LatestComplete(d)' = LatestComplete(d)
      BY DEF Complete, LatestComplete
    <3> QED
      BY <2>1, <3>1, <3>2 DEF Safe, Fresh, Uploaded, Revising, Complete, LatestComplete
  <2>2. CASE u # w
    BY <1>2, <2>2, SafeKept DEF DropsInv
  <2> QED
    BY <2>1, <2>2
<1> QED
  BY <1>3, <1>4, StoreKept DEF DropsInv

\* One step of the publication w, writing to its own target or nowhere.
LEMMA StepKeeps ==
  ASSUME DropsInv, Types', NEW w \in Publishers, writer[w].pc # "idle",
         NEW next, writer' = [writer EXCEPT ![w] = next], next.day = writer[w].day,
         \A d \in Days \ {writer[w].day} : store'[d] = store[d],
         Safe(w)', StoreInv'
  PROVE  DropsInv'
<1>1. writer \in [Publishers -> Writer]
  BY DEF DropsInv, Types, TypeOK
<1>2. /\ writer'[w] = next
      /\ \A u \in Publishers \ {w} : writer'[u] = writer[u]
  BY <1>1
<1>3. Exclusive'
  BY <1>2 DEF DropsInv, Exclusive
<1>4. ASSUME NEW u \in Publishers \ {w} PROVE Safe(u)'
  <2>1. writer[u].pc # "idle" => writer[u].day \in Days \ {writer[w].day}
    BY DEF DropsInv, Exclusive, Types, WriterOK
  <2> QED
    BY <1>2, <2>1, SafeKept DEF DropsInv
<1> QED
  BY <1>3, <1>4 DEF DropsInv

LEMMA UploadKeeps ==
  ASSUME DropsInv, Types', NEW w \in Publishers, UploadFile(w)
  PROVE  DropsInv'
<1>a. /\ writer \in [Publishers -> Writer] /\ store \in [Days -> [Versions -> Version]]
      /\ writer[w] \in Writer /\ writer[w].pc = "upload" /\ writer[w].uploads < NumFiles
      /\ writer[w].day \in Days /\ writer[w].version \in Versions
  BY DEF DropsInv, Types, TypeOK, WriterOK, UploadFile
<1>b. writer[w].uploads + 1 \in Files
  BY <1>a, BoundsAssumption DEF Files, Writer
<1>c. PICK d \in Days, v \in Versions, n \in Files :
        d = writer[w].day /\ v = writer[w].version /\ n = writer[w].uploads + 1
  BY <1>a, <1>b
<1> DEFINE next == [writer[w] EXCEPT !.uploads = n,
                                     !.pc = IF n = NumFiles THEN "manifest" ELSE @]
<1>1. /\ writer \in [Publishers -> Writer] /\ store \in [Days -> [Versions -> Version]]
      /\ writer[w] \in Writer /\ writer[w].pc = "upload"
      /\ d = writer[w].day /\ v = writer[w].version /\ n = writer[w].uploads + 1
      /\ Target(w) \in Version /\ Target(w) = store[d][v]
  BY <1>a, <1>c DEF Target
<1>2. /\ writer' = [writer EXCEPT ![w] = next]
      /\ store' = [store EXCEPT ![d][v] = [Target(w) EXCEPT !.files[n] = writer[w].rates]]
  BY <1>1 DEF UploadFile, Put
<1>3. /\ next.day = d /\ next.version = v /\ next.uploads = n
      /\ next.rates = writer[w].rates /\ next.supersedes = writer[w].supersedes
      /\ writer'[w] = next
  BY <1>1, <1>2 DEF Writer
<1>4. /\ store'[d][v].complete = store[d][v].complete
      /\ store'[d][v].files = [store[d][v].files EXCEPT ![n] = writer[w].rates]
      /\ store'[d][v].rates = store[d][v].rates
      /\ store'[d][v].supersedes = store[d][v].supersedes
      /\ \A e \in Days, u \in Versions : <<e, u>> # <<d, v>> => store'[e][u] = store[e][u]
  BY <1>1, <1>2 DEF Target, Version
<1>5. \A e \in Days : Complete(e)' = Complete(e)
  BY SMTT(30), <1>1, <1>4 DEF Complete
<1>6. v \notin Complete(d)
  BY <1>1 DEF DropsInv, Safe, Fresh, Complete, Versions
<1>7. Safe(w)'
  <2>1. LatestComplete(d)' = LatestComplete(d)
    BY <1>1, <1>5 DEF LatestComplete
  <2>2. Fresh(w)'
    BY <1>1, <1>3, <1>5 DEF DropsInv, Safe, Fresh
  <2>3. Uploaded(w)'
    <3>1. Target(w)'.files = [Target(w).files EXCEPT ![n] = writer[w].rates]
      BY SMTT(60), <1>3, <1>4 DEF Target
    <3>2. \A f \in Files : f <= n => f = n \/ f <= writer[w].uploads
      <4>1. writer[w].uploads \in Int /\ \A f \in Files : f \in Int
        BY <1>1 DEF Files, Writer
      <4> QED
        BY <1>1, <4>1
    <3>3. \A f \in Files : f <= n => Target(w)'.files[f] = writer[w].rates
      BY <1>1, <3>1, <3>2 DEF DropsInv, Safe, Uploaded, Version
    <3> QED
      BY <1>1, <1>3, <2>1, <3>3 DEF DropsInv, Safe, Uploaded
  <2>4. Revising(w)'
    <3>1. ASSUME next.rates # 0
          PROVE  \E u \in Complete(d) : u = LatestComplete(d)
                   /\ writer[w].rates = store[d][u].rates + 1
      BY <1>1, <1>3, <3>1 DEF DropsInv, Safe, Revising
    <3>2. \A u \in Complete(d) : store'[d][u] = store[d][u]
      BY <1>1, <1>4, <1>6 DEF Complete
    <3> QED
      BY <1>1, <1>3, <1>5, <2>1, <3>1, <3>2 DEF Revising
  <2> QED
    BY <2>2, <2>3, <2>4 DEF Safe
<1>8. StoreInv'
  <2>1. \A e \in Days, u \in Versions : store'[e][u].complete =>
          store[e][u].complete /\ store'[e][u] = store[e][u]
    BY SMTT(60), <1>1, <1>4, <1>6 DEF Complete
  <2>2. CompleteIsWhole'
    BY <2>1 DEF DropsInv, StoreInv, CompleteIsWhole
  <2>3. SupersedesWhatWasServed'
    BY <1>5, <2>1 DEF DropsInv, StoreInv, SupersedesWhatWasServed
  <2>4. RevisionsAddUp'
    BY <1>5, <2>1 DEF DropsInv, StoreInv, RevisionsAddUp, Complete
  <2> QED
    BY <2>2, <2>3, <2>4 DEF StoreInv
<1>9. \A e \in Days \ {d} : store'[e] = store[e]
  BY <1>1, <1>2
<1> QED
  BY <1>1, <1>2, <1>3, <1>7, <1>8, <1>9, StepKeeps

\* The manifest completes a version above all the complete ones, so none of
\* them is superseded by anything else than before.
LEMMA ManifestKeeps ==
  ASSUME DropsInv, Types', NEW w \in Publishers, UploadManifest(w)
  PROVE  DropsInv'
<1>a. /\ writer \in [Publishers -> Writer] /\ store \in [Days -> [Versions -> Version]]
      /\ writer[w] \in Writer /\ writer[w].pc = "manifest" /\ writer[w].uploads = NumFiles
      /\ writer[w].day \in Days /\ writer[w].version \in Versions
  BY DEF DropsInv, Types, TypeOK, WriterOK, UploadManifest
<1>b. PICK d \in Days, v \in Versions : d = writer[w].day /\ v = writer[w].version
  BY <1>a
<1> DEFINE next == [writer[w] EXCEPT !.pc = "truth"]
<1>1. /\ writer \in [Publishers -> Writer] /\ store \in [Days -> [Versions -> Version]]
      /\ writer[w] \in Writer /\ writer[w].pc = "manifest"
      /\ d = writer[w].day /\ v = writer[w].version
      /\ Target(w) \in Version /\ Target(w) = store[d][v] /\ writer[w].uploads = NumFiles
  BY <1>a, <1>b DEF Target
<1>2. /\ writer' = [writer EXCEPT ![w] = next]
      /\ store' = [store EXCEPT ![d][v] =
                     [Target(w) EXCEPT !.complete = TRUE, !.rates = writer[w].rates,
                                       !.supersedes = writer[w].supersedes]]
  BY <1>1 DEF UploadManifest, Put
<1>3. next.day = d /\ next.pc = "truth" /\ writer'[w] = next
  BY <1>1, <1>2 DEF Writer
<1>4. /\ store'[d][v].complete
      /\ store'[d][v].files = store[d][v].files
      /\ store'[d][v].rates = writer[w].rates
      /\ store'[d][v].supersedes = writer[w].supersedes
      /\ \A e \in Days, u \in Versions : <<e, u>> # <<d, v>> => store'[e][u] = store[e][u]
  BY <1>1, <1>2 DEF Target, Version
<1>5. /\ Complete(d)' = Complete(d) \cup {v}
      /\ \A e \in Days \ {d} : Complete(e)' = Complete(e)
  BY <1>1, <1>4 DEF Complete
<1>6. \A u \in Complete(d) : u < v
  BY <1>1 DEF DropsInv, Safe, Fresh
<1>7. Safe(w)'
  BY <1>3 DEF Safe, Fresh, Uploaded, Revising
<1>8. StoreInv'
  <2>0. \A e \in Days, u \in Versions : <<e, u>> # <<d, v>> /\ store'[e][u].complete =>
          store[e][u].complete /\ store'[e][u] = store[e][u]
    BY <1>4
  <2>1. CompleteIsWhole'
    <3>1. \A f \in Files : store[d][v].files[f] = writer[w].rates
      BY <1>1, BoundsAssumption DEF DropsInv, Safe, Uploaded, Target, Files
    <3> QED
      BY <1>4, <2>0, <3>1 DEF DropsInv, StoreInv, CompleteIsWhole
  <2>2. SupersedesWhatWasServed'
    <3>1. ASSUME NEW e \in Days, NEW u \in Versions, <<e, u>> # <<d, v>>, store'[e][u].complete
          PROVE  store'[e][u].supersedes = Latest({x \in Complete(e)' : x < u})
      <4>1. store[e][u].complete /\ store'[e][u] = store[e][u]
        BY <2>0, <3>1
      <4>2. {x \in Complete(e)' : x < u} = {x \in Complete(e) : x < u}
        <5>1. CASE e # d
          BY <1>5, <5>1
        <5>2. CASE e = d
          <6>1. u < v /\ u \in Int /\ v \in Int
            BY <1>1, <1>6, <4>1, <5>2 DEF Complete, Versions
          <6> QED
            BY <1>5, <5>2, <6>1
        <5> QED
          BY <5>1, <5>2
      <4> QED
        BY <4>1, <4>2 DEF DropsInv, StoreInv, SupersedesWhatWasServed
    <3>2. writer[w].supersedes = Latest({x \in Complete(d)' : x < v})
      <4>1. {x \in Complete(d)' : x < v} = Complete(d)
        BY <1>1, <1>5, <1>6 DEF Versions
      <4> QED
        BY <1>1, <4>1 DEF DropsInv, Safe, Uploaded, LatestComplete
    <3> QED
      BY <1>4, <3>1, <3>2 DEF SupersedesWhatWasServed
  <2>3. RevisionsAddUp'
    <3>0. v \notin Complete(d)
      BY <1>1, <1>6 DEF Versions
    <3>1. ASSUME NEW e \in Days, NEW u \in Versions, <<e, u>> # <<d, v>>, store'[e][u].complete,
                 store'[e][u].rates # 0
          PROVE  \E x \in Complete(e)' : /\ x = store'[e][u].supersedes
                                         /\ store'[e][u].rates = store'[e][x].rates + 1
      <4>1. store[e][u].complete /\ store'[e][u] = store[e][u]
        BY <2>0, <3>1
      <4>2. PICK x \in Complete(e) : /\ x = store[e][u].supersedes
                                     /\ store[e][u].rates = store[e][x].rates + 1
        BY <3>1, <4>1 DEF DropsInv, StoreInv, RevisionsAddUp
      <4>3. x \in Complete(e)' /\ store'[e][x] = store[e][x]
        BY <1>4, <1>5, <3>0, <4>2 DEF Complete
      <4> QED
        BY <4>1, <4>2, <4>3
    <3>2. ASSUME writer[w].rates # 0
          PROVE  \E x \in Complete(d)' : /\ x = store'[d][v].supersedes
                                         /\ store'[d][v].rates = store'[d][x].rates + 1
      <4>1. PICK x \in Complete(d) : /\ x = LatestComplete(d)
                                     /\ writer[w].rates = store[d][x].rates + 1
        BY <1>1, <3>2 DEF DropsInv, Safe, Revising
      <4>2. x = writer[w].supersedes
        BY <1>1, <4>1 DEF DropsInv, Safe, Uploaded
      <4>3. x \in Complete(d)' /\ store'[d][x] = store[d][x]
        BY <1>1, <1>4, <1>5, <3>0, <4>1 DEF Complete
      <4> QED
        BY <1>4, <4>1, <4>2, <4>3
    <3> QED
      BY <1>4, <3>1, <3>2 DEF RevisionsAddUp
  <2> QED
    BY <2>1, <2>2, <2>3 DEF StoreInv
<1>9. \A e \in Days \ {d} : store'[e] = store[e]
  BY <1>1, <1>2
<1> QED
  BY <1>1, <1>2, <1>3, <1>7, <1>8, <1>9, StepKeeps

LEMMA DropsInvStep ==
  ASSUME OnePublisher
  PROVE  DropsInv /\ [Next]_vars => DropsInv'
<1> SUFFICES ASSUME DropsInv, [Next]_vars PROVE DropsInv'
  OBVIOUS
<1>0. Types'
  BY TypesStep DEF DropsInv
<1>f. "follow" \in Publishers /\ \A c \in Commands : c \in Publishers
  BY DEF Publishers
<1>1. ASSUME UNCHANGED <<store, writer>> PROVE DropsInv'
  <2>1. \A u \in Publishers : Safe(u)'
    BY <1>1, SafeKept DEF DropsInv
  <2> QED
    BY <1>0, <1>1, <2>1, StoreKept DEF DropsInv, Exclusive
<1>2. ASSUME NEW d \in Days, StartPublishing(d) PROVE DropsInv'
  BY <1>0, <1>2, <1>f, StartKeeps DEF StartPublishing
<1>3. ASSUME NEW c \in Commands, NEW d \in Days, CommandPublish(c, d) PROVE DropsInv'
  BY <1>0, <1>3, <1>f, StartKeeps DEF CommandPublish
<1>4. ASSUME NEW c \in Commands, NEW d \in Days, CommandRevise(c, d) PROVE DropsInv'
  <2>1. LatestComplete(d) \in Complete(d)
    BY <1>4, LatestIsGreatest DEF CommandRevise, LatestComplete, Complete, Latest
  <2>2. PICK v \in Complete(d) : v = LatestComplete(d)
    BY <2>1
  <2>3. store[d][v].files[1] = store[d][v].rates /\ store[d][v].rates \in Nat
    BY <2>2, BoundsAssumption
       DEF DropsInv, StoreInv, CompleteIsWhole, Complete, Types, TypeOK, Version, Files
  <2>4. PICK r \in Nat : r = store[d][v].rates + 1
    BY <2>3
  <2>5. Free(c, d) /\ Publish(c, d, r) /\ store' = store
    BY <1>4, <2>2, <2>3, <2>4 DEF CommandRevise
  <2> QED
    BY <1>0, <1>f, <2>2, <2>4, <2>5, StartKeeps
<1>5. ASSUME NEW w \in Publishers, ChooseVersion(w) PROVE DropsInv'
  <2> DEFINE next == [writer[w] EXCEPT !.pc = "supersede",
                                       !.version = Latest(Folders(writer[w].day)) + 1]
  <2>1. /\ writer[w] \in Writer /\ writer[w].pc = "choose" /\ writer[w].day \in Days
        /\ writer \in [Publishers -> Writer]
    BY <1>5 DEF ChooseVersion, DropsInv, Types, TypeOK, WriterOK
  <2>2. /\ writer' = [writer EXCEPT ![w] = next] /\ writer'[w] = next
        /\ next.day = writer[w].day /\ next.rates = writer[w].rates /\ next.pc = "supersede"
        /\ next.version = Latest(Folders(writer[w].day)) + 1
        /\ store' = store
    BY <1>5, <2>1 DEF ChooseVersion, Writer
  <2>3. \A v \in Complete(writer[w].day) : v < next.version
    <3>1. \A v \in Complete(writer[w].day) : v <= Latest(Folders(writer[w].day))
      BY LatestIsGreatest DEF Complete, Folders, HasFolder
    <3>2. Latest(Folders(writer[w].day)) \in 0..MaxVersions
      BY LatestIsGreatest DEF Folders
    <3> QED
      BY <2>2, <3>1, <3>2 DEF Complete, Versions
  <2>d. PICK d \in Days : d = writer[w].day
    BY <2>1
  <2>e. Complete(d)' = Complete(d) /\ LatestComplete(d)' = LatestComplete(d)
    BY <2>2 DEF Complete, LatestComplete
  <2>4. Safe(w)'
    <3>1. Fresh(w)'
      <4>1. \A v \in Complete(d) : v < writer'[w].version
        BY <2>2, <2>3, <2>d
      <4>2. writer'[w].day = d
        BY <2>2, <2>d
      <4> HIDE DEF next
      <4> QED
        BY <2>e, <4>1, <4>2 DEF Fresh
    <3>2. Uploaded(w)'
      BY <2>2 DEF Uploaded
    <3>3. Revising(w)'
      BY <2>1, <2>2, <2>d, <2>e DEF DropsInv, Safe, Revising
    <3> QED
      BY <3>1, <3>2, <3>3 DEF Safe
  <2> QED
    BY <1>0, <2>1, <2>2, <2>4, StoreKept, StepKeeps DEF DropsInv
<1>6. ASSUME NEW w \in Publishers, ReadSuperseded(w) PROVE DropsInv'
  <2> DEFINE next == [writer[w] EXCEPT !.pc = "upload",
                                       !.supersedes = LatestComplete(writer[w].day)]
  <2>1. /\ writer[w] \in Writer /\ writer[w].pc = "supersede" /\ writer[w].day \in Days
        /\ writer \in [Publishers -> Writer] /\ writer[w].uploads = 0
    BY <1>6 DEF ReadSuperseded, DropsInv, Types, TypeOK, WriterOK
  <2>2. /\ writer' = [writer EXCEPT ![w] = next] /\ writer'[w] = next
        /\ next.day = writer[w].day /\ next.rates = writer[w].rates /\ next.pc = "upload"
        /\ next.version = writer[w].version /\ next.uploads = 0
        /\ next.supersedes = LatestComplete(writer[w].day)
        /\ store' = store
    BY <1>6, <2>1 DEF ReadSuperseded, Writer
  <2>d. PICK d \in Days : d = writer[w].day
    BY <2>1
  <2>e. Complete(d)' = Complete(d) /\ LatestComplete(d)' = LatestComplete(d)
    BY <2>2 DEF Complete, LatestComplete
  <2>3. Fresh(w)' /\ Revising(w)'
    BY <2>1, <2>2, <2>d, <2>e DEF DropsInv, Safe, Fresh, Revising
  <2>4. Uploaded(w)'
    <3>1. \A f \in Files : ~(f <= 0)
      BY DEF Files
    <3> QED
      BY <2>2, <2>d, <2>e, <3>1 DEF Uploaded
  <2> QED
    BY <1>0, <2>1, <2>2, <2>3, <2>4, StoreKept, StepKeeps DEF DropsInv, Safe
<1>7. ASSUME NEW w \in Publishers, PublishStep(w) PROVE DropsInv'
  BY <1>0, <1>5, <1>6, <1>7, UploadKeeps, ManifestKeeps, EndKeeps
     DEF PublishStep, WriteGroundTruth
<1>8. ASSUME NEW w \in Publishers, PublicationFails(w) PROVE DropsInv'
  BY <1>0, <1>8, EndKeeps DEF PublicationFails
<1>9. CASE Restart
  BY <1>0, <1>9, <1>f, EndKeeps DEF Restart
<1>10. CASE ClockAdvances \/ IdlePoll \/ UNCHANGED vars
  BY <1>1, <1>10 DEF ClockAdvances, IdlePoll, vars
<1>11. ASSUME NEW d \in Days, SeeHandled(d) \/ Withhold(d) PROVE DropsInv'
  BY <1>1, <1>11 DEF SeeHandled, Withhold
<1> QED
  BY <1>2, <1>3, <1>4, <1>7, <1>8, <1>9, <1>10, <1>11 DEF Next, Poll

LEMMA DropsInvInit == Init => DropsInv
<1> SUFFICES ASSUME Init PROVE DropsInv
  OBVIOUS
<1>1. \A w \in Publishers : writer[w].pc = "idle"
  BY DEF Init, NoWriter
<1>2. \A d \in Days, v \in Versions : ~store[d][v].complete
  BY DEF Init, NoVersion
<1>3. Exclusive /\ \A w \in Publishers : Safe(w)
  BY <1>1 DEF Exclusive, Safe, Fresh, Uploaded, Revising
<1>4. StoreInv
  BY <1>2 DEF StoreInv, CompleteIsWhole, SupersedesWhatWasServed, RevisionsAddUp
<1> QED
  BY <1>3, <1>4, TypesInit DEF DropsInv

\* "A half-uploaded drop can never be read", whichever upload fails, for any
\* number of files.
THEOREM NeverHalfUploaded ==
  ASSUME OnePublisher
  PROVE  Spec => []CompleteIsWhole
<1>1. DropsInv => CompleteIsWhole
  BY DEF DropsInv, StoreInv
<1>2. DropsInv /\ [Next]_vars => DropsInv'
  BY DropsInvStep
<1> QED
  BY <1>1, <1>2, DropsInvInit, PTL DEF Spec

\* The manifests of a day chain its complete versions together, over any
\* folders that failed publications have left between them.
THEOREM VersionsAreChained ==
  ASSUME OnePublisher
  PROVE  Spec => []SupersedesWhatWasServed
<1>1. DropsInv => SupersedesWhatWasServed
  BY DEF DropsInv, StoreInv
<1>2. DropsInv /\ [Next]_vars => DropsInv'
  BY DropsInvStep
<1> QED
  BY <1>1, <1>2, DropsInvInit, PTL DEF Spec

\* No revision of a day's tariff is lost and none is applied twice.
THEOREM NoRevisionLost ==
  ASSUME OnePublisher
  PROVE  Spec => []RevisionsAddUp
<1>1. DropsInv => RevisionsAddUp
  BY DEF DropsInv, StoreInv
<1>2. DropsInv /\ [Next]_vars => DropsInv'
  BY DropsInvStep
<1> QED
  BY <1>1, <1>2, DropsInvInit, PTL DEF Spec

\* "Published drops are never overwritten": the only version a publication
\* writes to is above every complete one.
THEOREM NeverOverwritten ==
  ASSUME OnePublisher
  PROVE  Spec => PublishedStays
<1> DEFINE Stays == \A d \in Days, v \in Versions :
                      store[d][v].complete => store'[d][v] = store[d][v]
<1>1. DropsInv /\ [Next]_vars => Stays
  <2> SUFFICES ASSUME DropsInv, [Next]_vars PROVE Stays
    OBVIOUS
  <2>1. ASSUME store' = store PROVE Stays
    BY <2>1
  <2>2. ASSUME NEW w \in Publishers, UploadFile(w) \/ UploadManifest(w) PROVE Stays
    <3>1. writer[w].day \in Days /\ writer[w].version \in Versions
          /\ store \in [Days -> [Versions -> Version]]
      BY <2>2 DEF UploadFile, UploadManifest, DropsInv, Types, TypeOK, WriterOK
    <3>2. ~store[writer[w].day][writer[w].version].complete
      BY <2>2, <3>1 DEF UploadFile, UploadManifest, DropsInv, Safe, Fresh, Complete, Versions
    <3>3. \E x : store' = [store EXCEPT ![writer[w].day][writer[w].version] = x]
      BY <2>2 DEF UploadFile, UploadManifest, Put
    <3> QED
      BY <3>1, <3>2, <3>3
  <2> QED
    BY <2>1, <2>2
       DEF Next, Poll, PublishStep, ClockAdvances, IdlePoll, SeeHandled, Withhold,
           StartPublishing, Restart, CommandPublish, CommandRevise, ChooseVersion,
           ReadSuperseded, WriteGroundTruth, PublicationFails, vars
<1>2. DropsInv /\ [Next]_vars => DropsInv'
  BY DropsInvStep
<1> QED
  BY <1>1, <1>2, DropsInvInit, PTL DEF Spec, PublishedStays
=============================================================================
