-------------------------- MODULE Deployment_proofs --------------------------
(***************************************************************************)
(* Proofs about Deployment, for every number of credential versions and of    *)
(* attempts of a start.                                                       *)
(***************************************************************************)
EXTENDS Deployment, TLAPS

USE DEF vars, bootVars, svcVars, pocVars, Files, Serving, Absent, Partial, Versions, Nobody

HostStep ==
    \/ Boot \/ SkipCopy \/ CopyBegins \/ CopyEnds \/ CopyFails \/ ContainerDies
    \/ \E f \in Files : Upload(f)

SvcStep ==
    \/ StartBegins \/ ServiceNew \/ NewLists \/ NewReturns \/ SetupReturns \/ AttemptFails
    \/ GivenUp \/ StopBegins \/ ServiceStop \/ StopFindsNothing \/ StopFails \/ Reclaim

PocStep ==
    \/ PocStarts \/ PocSessions \/ PocNewReturns \/ PocNewRaises \/ PocExec \/ PocStop
    \/ PocKilled

LEMMA NextSplits == Next => HostStep \/ SvcStep \/ PocStep
  BY Zenon DEF Next, HostStep, SvcStep, PocStep

\* What a boot is to the script alone.
LEMMA BootBegins ==
    ASSUME Boot
    PROVE  /\ at = 0 /\ at' = 1 /\ mounted' = secret
           /\ disk' = IF persistent THEN disk ELSE [f \in Files |-> Absent]
           /\ UNCHANGED <<secret, persistent, copying>>
  BY Zenon DEF Boot

\* What the service and the proof of concept leave to the boot script.
LEMMA OthersKeepBoot == SvcStep \/ PocStep => UNCHANGED bootVars
  <1>1. SvcStep => UNCHANGED bootVars
    BY DEF SvcStep, StartBegins, ServiceNew, NewLists, NewReturns, SetupReturns, AttemptFails,
        GivenUp, StopBegins, ServiceStop, StopFindsNothing, StopFails, Reclaim, AfterStop, Goes
  <1>2. PocStep => UNCHANGED bootVars
    BY DEF PocStep, PocStarts, PocSessions, PocNewReturns, PocNewRaises, PocExec, PocStop,
        PocKilled
  <1> QED
    BY <1>1, <1>2

----------------------------------------------------------------------------
(* The container                                                            *)

BootTypes ==
    /\ secret \in [Files -> 0..MaxVersion] /\ mounted \in [Files -> 0..MaxVersion]
    /\ disk \in [Files -> 0..Partial]
    /\ persistent \in BOOLEAN /\ copying \in BOOLEAN
    /\ at \in 0..Serving
    /\ copying = TRUE => at \in Files

\* The files behind the script's position are there; and an ephemeral disk holds
\* nothing yet from that position on, but for the file that `cp` is writing.
FileServed(f) == f < at /\ mounted[f] # Absent =>
    disk[f] # Absent /\ (disk[f] # mounted[f] => persistent)
FileEmpty(f) == ~persistent /\ (f > at \/ (f = at /\ ~copying)) =>
    at = 0 \/ disk[f] = Absent

BootInv == BootTypes /\ \A f \in Files : FileServed(f) /\ FileEmpty(f)

LEMMA VersionRanges ==
    /\ Absent \in 0..MaxVersion /\ Absent \in 0..Partial /\ Partial \in 0..Partial
    /\ {Absent} \cup Versions \subseteq 0..MaxVersion
    /\ 0..MaxVersion \subseteq 0..Partial
    /\ [Files -> 0..MaxVersion] \subseteq [Files -> 0..Partial]
  BY MaxVersionAssumption

LEMMA BootInit == Init => BootInv
  <1> SUFFICES ASSUME Init PROVE BootInv
    OBVIOUS
  <1>1. secret \in [Files -> 0..MaxVersion]
    BY VersionRanges DEF Init
  <1>2. /\ mounted = [f \in Files |-> Absent] /\ disk = [f \in Files |-> Absent]
        /\ at = 0 /\ persistent \in BOOLEAN /\ copying = FALSE
    BY DEF Init
  <1>3. mounted \in [Files -> 0..MaxVersion] /\ disk \in [Files -> 0..Partial]
    BY <1>2, VersionRanges
  <1> HIDE DEF Partial
  <1>4. BootTypes
    <2>1. copying \in BOOLEAN /\ copying # TRUE
      BY <1>2, Zenon
    <2>2. at \in 0..Serving /\ persistent \in BOOLEAN
      BY <1>2
    <2> QED
      BY <1>1, <1>3, <2>1, <2>2 DEF BootTypes
  <1> QED
    BY <1>2, <1>4 DEF BootInv, FileServed, FileEmpty

LEMMA BootTypeStep == BootTypes /\ [Next]_vars => BootTypes'
  <1> SUFFICES ASSUME BootTypes, [Next]_vars PROVE BootTypes'
    OBVIOUS
  <1> USE MaxVersionAssumption, VersionRanges DEF BootTypes
  <1> HIDE DEF Partial
  <1>1. CASE Boot
    <2>1. disk' \in [Files -> 0..Partial]
      BY <1>1, BootBegins
    <2> QED
      BY <1>1, <2>1, BootBegins
  <1>2. CASE SkipCopy
    BY <1>2 DEF SkipCopy
  <1>3. CASE CopyBegins
    BY <1>3 DEF CopyBegins
  <1>4. CASE CopyEnds
    <2>1. at \in Files /\ mounted[at] \in 0..Partial /\ at + 1 \in 0..Serving
      BY <1>4 DEF CopyEnds
    <2> QED
      BY <1>4, <2>1 DEF CopyEnds
  <1>5. CASE CopyFails
    <2>1. copying' \in BOOLEAN /\ copying' # TRUE
      BY <1>5, Zenon DEF CopyFails
    <2> QED
      BY <1>5, <2>1 DEF CopyFails, AfterFailedCopy
  <1>6. CASE ContainerDies
    <2>1. copying' \in BOOLEAN /\ copying' # TRUE
      BY <1>6, Zenon DEF ContainerDies
    <2> QED
      BY <1>6, <2>1 DEF ContainerDies
  <1>7. ASSUME NEW f \in Files, Upload(f) PROVE BootTypes'
    BY <1>7 DEF Upload
  <1>8. CASE SvcStep \/ PocStep
    BY <1>8, OthersKeepBoot
  <1>9. CASE UNCHANGED vars
    BY <1>9
  <1> QED
    BY <1>1, <1>2, <1>3, <1>4, <1>5, <1>6, <1>7, <1>8, <1>9, NextSplits DEF HostStep

LEMMA BootStep == BootInv /\ [Next]_vars => BootInv'
  <1> SUFFICES ASSUME BootInv, [Next]_vars, BootTypes', NEW f \in Files
               PROVE  FileServed(f)' /\ FileEmpty(f)'
    BY BootTypeStep DEF BootInv
  <1> USE DEF BootTypes, FileServed, FileEmpty
  <1>0. BootTypes /\ FileServed(f) /\ FileEmpty(f) /\ f \in {1, 2}
    BY DEF BootInv
  <1>1. CASE Boot
    BY <1>0, <1>1, BootBegins
  <1>2. CASE SkipCopy
    <2>1. CASE f = at
      BY <1>0, <1>2, <2>1 DEF SkipCopy, CopyDue
    <2>2. CASE f # at
      <3>1. (f < at' <=> f < at) /\ (f > at' \/ f = at' => f > at)
        BY <1>0, <1>2, <2>2 DEF SkipCopy
      <3> QED
        BY <1>0, <1>2, <3>1 DEF SkipCopy
    <2> QED
      BY <2>1, <2>2
  <1>3. CASE CopyBegins
    BY <1>0, <1>3 DEF CopyBegins, CopyDue
  <1>4. CASE CopyEnds
    <2>1. CASE f = at
      BY <1>0, <1>4, <2>1 DEF CopyEnds
    <2>2. CASE f # at
      <3>1. (f < at' <=> f < at) /\ (f > at' \/ f = at' => f > at) /\ disk'[f] = disk[f]
        BY <1>0, <1>4, <2>2 DEF CopyEnds
      <3> QED
        BY <1>0, <1>4, <3>1 DEF CopyEnds
    <2> QED
      BY <2>1, <2>2
  <1>5. CASE CopyFails
    BY <1>0, <1>5 DEF CopyFails, AfterFailedCopy
  <1>6. CASE ContainerDies
    BY <1>0, <1>6 DEF ContainerDies
  <1>7. ASSUME NEW g \in Files, Upload(g) PROVE FileServed(f)' /\ FileEmpty(f)'
    BY <1>0, <1>7 DEF Upload
  <1>8. CASE SvcStep \/ PocStep
    BY <1>0, <1>8, OthersKeepBoot
  <1>9. CASE UNCHANGED vars
    BY <1>0, <1>9
  <1> QED
    BY <1>1, <1>2, <1>3, <1>4, <1>5, <1>6, <1>7, <1>8, <1>9, NextSplits DEF HostStep

LEMMA BootHolds == Spec => []BootInv
  BY BootInit, BootStep, PTL DEF Spec

\* The server never starts before its credential is in place, whatever boots were
\* cut short before (docker-entrypoint.sh:10-22); and a file that is not this
\* container's own secret is left over on a disk.
THEOREM ServedWithCredential == Spec => []CredentialServed
  <1>1. BootInv => CredentialServed
    BY DEF BootInv, BootTypes, FileServed, CredentialServed
  <1> QED
    BY <1>1, BootHolds, PTL

----------------------------------------------------------------------------
(* The service                                                              *)

SvcTypes ==
    /\ slot \in {Nobody, "service", "poc"}
    /\ svc \in Places /\ attempt \in 1..MaxAttempts
    /\ cached \in BOOLEAN /\ unstopped \in BOOLEAN /\ strayed \in SUBSET Causes

\* A session whose name is on no list is being made, or has strayed.
Traced == slot = "service" => cached = TRUE \/ strayed # {} \/ svc = "assigned"

SvcInv == SvcTypes /\ Traced /\ EndLeavesNothing

\* The proof of concept is no session of the service.
LEMMA PocKeepsService ==
    ASSUME PocStep
    PROVE  UNCHANGED svcVars /\ (slot' = slot \/ slot' \in {"poc", Nobody})
  BY DEF PocStep, PocStarts, PocSessions, PocNewReturns, PocNewRaises, PocExec, PocStop,
      PocKilled

\* Each way a child can end leaves a session that is listed, or strayed.
LEMMA NewTraced ==
    ASSUME SvcTypes, Traced, NewBreaksOff
    PROVE  /\ strayed' \in SUBSET Causes
           /\ slot' = "service" => cached' = TRUE \/ strayed' # {}
           /\ cached' = cached /\ slot' = slot
  BY DEF SvcTypes, Traced, NewBreaksOff, Causes

LEMMA StopTraced ==
    ASSUME SvcTypes, Traced, StopBreaksOff, svc # "assigned"
    PROVE  /\ cached' \in BOOLEAN /\ strayed' \in SUBSET Causes
           /\ slot' \in {Nobody, "service", "poc"}
           /\ slot' = "service" => cached' = TRUE \/ strayed' # {}
  <1>1. cached' \in BOOLEAN /\ slot' \in {Nobody, "service", "poc"}
    BY DEF SvcTypes, StopBreaksOff
  <1>2. CASE slot' # "service"
    BY <1>1, <1>2 DEF StopBreaksOff
  <1>3. CASE slot' = "service" /\ cached = cached'
    <2>1. strayed' = strayed /\ slot = "service"
      BY <1>3 DEF StopBreaksOff, Nobody
    <2> QED
      BY <1>1, <1>3, <2>1 DEF SvcTypes, Traced
  <1>4. CASE slot' = "service" /\ cached # cached'
    BY <1>1, <1>4 DEF StopBreaksOff, SvcTypes, Causes
  <1> QED
    BY <1>2, <1>3, <1>4

LEMMA SvcInvStep == SvcInv /\ [Next]_vars => SvcInv'
  <1> SUFFICES ASSUME SvcInv, [Next]_vars PROVE SvcInv'
    OBVIOUS
  <1>0. SvcTypes /\ Traced /\ EndLeavesNothing
    BY DEF SvcInv
  <1> USE MaxAttemptsAssumption DEF SvcInv, SvcTypes, Traced, EndLeavesNothing, Places
  <1>1. CASE Boot
    <2>1. slot' = slot /\ svc' = svc /\ attempt' = attempt /\ unstopped' = unstopped
      BY <1>1 DEF Boot
    <2>2. CASE slot = "service" /\ ~persistent
      <3>1. strayed' = strayed \cup {"no disk"} /\ cached' = FALSE
        BY <1>1, <2>2, Zenon DEF Boot, CliHomeSurvives
      <3> QED
        BY <1>0, <2>1, <3>1 DEF Causes
    <2>3. CASE slot = "service" /\ persistent
      <3>1. strayed' = strayed
        BY <1>1, <2>3 DEF Boot
      <3>2. cached' = (cached /\ persistent)
        BY <1>1, Zenon DEF Boot, CliHomeSurvives
      <3> QED
        BY <1>0, <2>1, <2>3, <3>1, <3>2
    <2>4. CASE slot # "service"
      <3>1. strayed' = strayed
        BY <1>1, <2>4 DEF Boot
      <3>2. cached' \in BOOLEAN
        BY <1>1, Zenon DEF Boot
      <3> QED
        BY <1>0, <2>1, <2>4, <3>1, <3>2
    <2> QED
      BY <2>2, <2>3, <2>4
  <1>2. CASE SkipCopy \/ CopyBegins \/ CopyEnds \/ CopyFails
    BY <1>0, <1>2 DEF SkipCopy, CopyBegins, CopyEnds, CopyFails
  <1>3. CASE ContainerDies
    <2>1. svc' = "idle" /\ attempt' = 1 /\ unstopped' \in BOOLEAN
      BY <1>3, Zenon DEF ContainerDies
    <2>2. CASE svc \in {"cleanup", "stop"} /\ cached
      <3>1. StopBreaksOff
        BY <1>3, <2>2 DEF ContainerDies
      <3>2. /\ cached' \in BOOLEAN /\ strayed' \in SUBSET Causes
            /\ slot' \in {Nobody, "service", "poc"}
            /\ slot' = "service" => cached' = TRUE \/ strayed' # {}
        BY <1>0, <2>2, <3>1, StopTraced
      <3> QED
        BY <2>1, <3>2
    <2>3. CASE ~(svc \in {"cleanup", "stop"} /\ cached)
      <3>1. NewBreaksOff
        BY <1>3, <2>3 DEF ContainerDies
      <3>2. /\ strayed' \in SUBSET Causes /\ cached' = cached /\ slot' = slot
            /\ slot' = "service" => cached' = TRUE \/ strayed' # {}
        BY <1>0, <3>1, NewTraced
      <3> QED
        BY <1>0, <2>1, <3>2
    <2> QED
      BY <2>2, <2>3
  <1>4. ASSUME NEW f \in Files, Upload(f) PROVE SvcInv'
    BY <1>0, <1>4 DEF Upload
  <1>5. CASE StartBegins
    <2>1. svc \in {"idle", "failed", "stopped"} /\ svc' = "new" /\ attempt' = 1
      BY <1>5 DEF StartBegins, Goes
    <2>2. UNCHANGED <<slot, cached, strayed>> /\ unstopped' \in BOOLEAN
      BY <1>5, Zenon DEF StartBegins
    <2> QED
      BY <1>0, <2>1, <2>2
  <1>6. CASE ServiceNew \/ NewReturns \/ SetupReturns \/ GivenUp \/ StopBegins
    BY <1>0, <1>6 DEF ServiceNew, NewReturns, SetupReturns, GivenUp, StopBegins, Goes
  <1>7. CASE NewLists
    <2>1. svc' = "listed" /\ UNCHANGED <<slot, attempt, unstopped, strayed>>
      BY <1>7 DEF NewLists, Goes
    <2>2. cached' = TRUE /\ cached' \in BOOLEAN
      BY <1>7, Zenon DEF NewLists
    <2> QED
      BY <1>0, <2>1, <2>2
  <1>8. CASE AttemptFails
    <2>1. NewBreaksOff /\ svc' = "cleanup" /\ UNCHANGED <<attempt, unstopped>>
      BY <1>8 DEF AttemptFails, AfterFailure, Goes
    <2> QED
      BY <1>0, <2>1, NewTraced
  <1>9. ASSUME AfterStop
        PROVE  /\ svc \in {"cleanup", "stop"} /\ svc' \in {"stopped", "new", "failed"}
               /\ attempt' \in 1..MaxAttempts
    BY <1>0, <1>9 DEF AfterStop, Afterwards, Goes
  <1>10. CASE ServiceStop
    <2>1. AfterStop /\ slot' \in {Nobody, "poc"} /\ strayed' = {}
      BY <1>0, <1>10 DEF ServiceStop
    <2>2. cached' \in BOOLEAN /\ unstopped' \in BOOLEAN
      BY <1>10, Zenon DEF ServiceStop
    <2> QED
      BY <1>9, <2>1, <2>2
  <1>11. CASE StopFindsNothing
    <2>1. AfterStop /\ ~cached /\ UNCHANGED <<slot, cached, strayed>>
      BY <1>11 DEF StopFindsNothing
    <2>2. unstopped' \in BOOLEAN
      BY <1>11, Zenon DEF StopFindsNothing
    <2> QED
      BY <1>0, <1>9, <2>1, <2>2
  <1>12. CASE StopFails
    <2>1. AfterStop /\ StopBreaksOff
      BY <1>12 DEF StopFails
    <2>2. unstopped' /\ unstopped' \in BOOLEAN
      BY <1>12, Zenon DEF StopFails
    <2>3. svc # "assigned"
      BY <1>9, <2>1
    <2>4. /\ cached' \in BOOLEAN /\ strayed' \in SUBSET Causes
          /\ slot' \in {Nobody, "service", "poc"}
          /\ slot' = "service" => cached' = TRUE \/ strayed' # {}
      BY <1>0, <2>1, <2>3, StopTraced
    <2> QED
      BY <1>9, <2>1, <2>2, <2>4
  <1>13. CASE Reclaim
    BY <1>0, <1>13 DEF Reclaim
  <1>14. CASE PocStep
    BY <1>0, <1>14, PocKeepsService
  <1>15. CASE UNCHANGED vars
    BY <1>0, <1>15
  <1> QED
    BY <1>1, <1>2, <1>3, <1>4, <1>5, <1>6, <1>7, <1>8, <1>10, <1>11, <1>12, <1>13, <1>14, <1>15,
       NextSplits
    DEF HostStep, SvcStep

LEMMA SvcHolds == Spec => []SvcInv
  <1>1. Init => SvcInv
    <2> SUFFICES ASSUME Init PROVE SvcInv
      OBVIOUS
    <2>1. slot = Nobody /\ svc = "idle" /\ attempt = 1 /\ strayed = {}
      BY DEF Init
    <2>2. cached \in BOOLEAN /\ unstopped \in BOOLEAN
      BY Zenon DEF Init
    <2> QED
      BY <2>1, <2>2, MaxAttemptsAssumption
      DEF SvcInv, SvcTypes, Traced, EndLeavesNothing, Places
  <1> QED
    BY <1>1, SvcInvStep, PTL DEF Spec

\* However many containers, starts and workers a session has outlived, the next
\* start that fails or stop that ends has freed it, but for a name on no list or
\* a stop that failed (services/worker_manager.py:159-189, services/
\* colab_manager.py:81-115, 182-184).
THEOREM EndsLeaveNothing == Spec => []EndLeavesNothing
  <1>1. SvcInv => EndLeavesNothing
    BY DEF SvcInv
  <1> QED
    BY <1>1, SvcHolds, PTL

----------------------------------------------------------------------------
(* The proof of concept                                                     *)

\* Where its session can be, by how far it is.
PocInv ==
    /\ slot \in {Nobody, "service", "poc"}
    /\ poc \in {"idle", "sessions", "new", "exec", "stop", "ended"}
    /\ created \in BOOLEAN /\ warned \in BOOLEAN /\ cut \in BOOLEAN /\ code \in Codes
    /\ poc \in {"exec", "stop"} => created
    /\ poc \in {"idle", "sessions", "new"} => slot # "poc"
    /\ poc \in {"sessions", "new"} => ~created
    /\ poc = "ended" /\ slot = "poc" => warned \/ cut

LEMMA PocInvStep == PocInv /\ [Next]_vars => PocInv'
  <1> SUFFICES ASSUME PocInv, [Next]_vars PROVE PocInv'
    OBVIOUS
  <1> USE DEF PocInv, Codes
  <1>1. CASE HostStep \/ SvcStep
    <2>1. UNCHANGED pocVars
      BY <1>1
      DEF HostStep, Boot, SkipCopy, CopyBegins, CopyEnds, CopyFails, ContainerDies, Upload,
          SvcStep, StartBegins, ServiceNew, NewLists, NewReturns, SetupReturns, AttemptFails,
          GivenUp, StopBegins, ServiceStop, StopFindsNothing, StopFails, Reclaim, AfterStop, Goes
    <2>2. slot' \in {slot, "service", Nobody}
      BY <1>1
      DEF HostStep, Boot, SkipCopy, CopyBegins, CopyEnds, CopyFails, ContainerDies, Upload,
          SvcStep, StartBegins, ServiceNew, NewLists, NewReturns, SetupReturns, AttemptFails,
          GivenUp, StopBegins, ServiceStop, StopFindsNothing, StopFails, Reclaim,
          NewBreaksOff, StopBreaksOff
    <2> QED
      BY <2>1, <2>2
  <1>3. CASE PocStarts
    BY <1>3 DEF PocStarts
  <1>4. CASE PocSessions
    BY <1>4 DEF PocSessions, Leave
  <1>5. CASE PocNewReturns
    BY <1>5 DEF PocNewReturns, CreatedAfterNew, Leave
  <1>6. CASE PocNewRaises
    BY <1>6 DEF PocNewRaises, Leave
  <1>7. CASE PocExec
    BY <1>7 DEF PocExec, Leave
  <1>8. CASE PocStop
    BY <1>8 DEF PocStop
  <1>9. CASE PocKilled
    BY <1>9 DEF PocKilled
  <1>10. CASE UNCHANGED vars
    BY <1>10
  <1> QED
    BY <1>1, <1>3, <1>4, <1>5, <1>6, <1>7, <1>8, <1>9, <1>10, NextSplits DEF PocStep

LEMMA PocHolds == Spec => []PocInv
  <1>1. Init => PocInv
    BY DEF Init, PocInv, Codes
  <1> QED
    BY <1>1, PocInvStep, PTL DEF Spec

\* Whatever fails between `new` and `stop`, the finally of the proof of concept
\* ends its session or says that it could not (phase1_poc/run_poc.py:57-137).
THEOREM PocCleansUp == Spec => []PocLeavesNothing
  <1>1. PocInv => PocLeavesNothing
    BY DEF PocInv, PocLeavesNothing
  <1> QED
    BY <1>1, PocHolds, PTL

\* Every variable keeps to its type.
THEOREM DeployTypesCorrect == Spec => []DeployTypeOK
  <1>1. BootInv /\ SvcInv /\ PocInv => DeployTypeOK
    BY DEF BootInv, BootTypes, SvcInv, SvcTypes, PocInv, DeployTypeOK
  <1> QED
    BY <1>1, BootHolds, SvcHolds, PocHolds, PTL

=============================================================================
