----------------------------- MODULE MCComponents -----------------------------
(***************************************************************************)
(* The components that share no state with the jobs, the pool and the      *)
(* models, on small instances: what clients follow a job with (PcmStream,  *)
(* EventStream), the run record and the runtime generations of a host      *)
(* (CoreRun, RuntimeUpgrade), recordings and voices (Recordings),          *)
(* Alignment, the VieNeu Worker (WorkerDownload, WorkerSynthesis), the     *)
(* process groups of Workers (WorkerOwnership), the requests for audio     *)
(* (ArtifactReads) and those to a provider (ProviderRequest), the login    *)
(* service, the deletion of kept audio, the profiles of providers and the  *)
(* files that a download leaves (Promotion).  A behaviour is one of any of *)
(* them, chosen at its start; the others rest.                             *)
(***************************************************************************)
EXTENDS PcmStream, EventStream, CoreRun, RuntimeUpgrade, Recordings, Alignment,
        WorkerDownload, WorkerSynthesis, WorkerOwnership, ArtifactReads, ProviderRequest,
        LoginService, HistoryDeletion, Providers, Promotion

VARIABLE part

componentVars == <<part, pcmVars, eventVars, coreVars, upgradeVars, recordVars, alignVars,
                   downloadVars, synthVars, ownVars, readVars, providerVars,
                   serviceVars, historyVars, profileVars, promotionVars>>

Parts == {"pcm", "events", "core", "upgrade", "recordings", "alignment", "download", "synthesis",
          "ownership", "reads", "provider", "service", "history", "profiles", "promotion"}

\* All components but the named one rest.
RestOf(name) ==
  /\ UNCHANGED part
  /\ IF name = "pcm" THEN TRUE ELSE UNCHANGED pcmVars
  /\ IF name = "events" THEN TRUE ELSE UNCHANGED eventVars
  /\ IF name = "core" THEN TRUE ELSE UNCHANGED coreVars
  /\ IF name = "upgrade" THEN TRUE ELSE UNCHANGED upgradeVars
  /\ IF name = "recordings" THEN TRUE ELSE UNCHANGED recordVars
  /\ IF name = "alignment" THEN TRUE ELSE UNCHANGED alignVars
  /\ IF name = "download" THEN TRUE ELSE UNCHANGED downloadVars
  /\ IF name = "synthesis" THEN TRUE ELSE UNCHANGED synthVars
  /\ IF name = "ownership" THEN TRUE ELSE UNCHANGED ownVars
  /\ IF name = "reads" THEN TRUE ELSE UNCHANGED readVars
  /\ IF name = "provider" THEN TRUE ELSE UNCHANGED providerVars
  /\ IF name = "service" THEN TRUE ELSE UNCHANGED serviceVars
  /\ IF name = "history" THEN TRUE ELSE UNCHANGED historyVars
  /\ IF name = "profiles" THEN TRUE ELSE UNCHANGED profileVars
  /\ IF name = "promotion" THEN TRUE ELSE UNCHANGED promotionVars

Pcm(A)      == part = "pcm" /\ A /\ RestOf("pcm")
Synth(A)    == part = "synthesis" /\ A /\ RestOf("synthesis")
Provider(A) == part = "provider" /\ A /\ RestOf("provider")

\* What rests has one initial state.
ComponentsInit ==
  /\ part \in Parts
  /\ PcmInit /\ EventInit /\ CoreInit /\ UpgradeInit /\ RecordInit /\ AlignInit /\ DownloadInit
  /\ SynthInit /\ OwnInit /\ ReadInit /\ ProviderInit
  /\ ServiceInit /\ HistoryInit /\ ProfileInit /\ PromotionInit
  /\ part = "pcm" \/ ~keep
  /\ part = "recordings" \/ ~bound
  /\ part = "service" \/ platform = "linux"

ComponentsNext ==
  \/ Pcm(PcmNext)
  \/ part = "events" /\ EventNext /\ RestOf("events")
  \/ part = "core" /\ CoreNext /\ RestOf("core")
  \/ part = "upgrade" /\ UpgradeNext /\ RestOf("upgrade")
  \/ part = "recordings" /\ RecordNext /\ RestOf("recordings")
  \/ part = "alignment" /\ AlignNext /\ RestOf("alignment")
  \/ part = "download" /\ DownloadNext /\ RestOf("download")
  \/ Synth(SynthNext)
  \/ part = "ownership" /\ OwnNext /\ RestOf("ownership")
  \/ part = "reads" /\ ReadNext /\ RestOf("reads")
  \/ Provider(ProviderNext)
  \/ part = "service" /\ ServiceNext /\ RestOf("service")
  \/ part = "history" /\ HistoryNext /\ RestOf("history")
  \/ part = "profiles" /\ ProfileNext /\ RestOf("profiles")
  \/ part = "promotion" /\ PromotionNext /\ RestOf("promotion")

\* The loop of a job, of a Worker or of a lease that is given up goes on, the writer
\* writes, connected clients read from their queues.  One component moves in a
\* behaviour: a condition on steps of several is one on those of each.
ComponentsFairness ==
  /\ WF_componentVars(\/ Pcm(JobStep)
                      \/ Synth(GiveUpStep)
                      \/ Provider(\E o \in Calls : LoopStep(o)))
  /\ WF_componentVars(Pcm(Consume) \/ Synth(KillStep))
  /\ \A c \in Listeners : WF_componentVars(Pcm(ListenerStep(c)))

ComponentsSpec == ComponentsInit /\ [][ComponentsNext]_componentVars /\ ComponentsFairness

(* The variables of all have their types: no queue outgrows its bound.         *)
ComponentsTypeOK ==
  PcmTypeOK /\ EventTypeOK /\ CoreTypeOK /\ UpgradeTypeOK /\ RecordTypeOK /\ AlignTypeOK
  /\ DownloadTypeOK /\ SynthTypeOK /\ OwnTypeOK /\ ReadTypeOK /\ ProviderTypeOK
  /\ ServiceTypeOK /\ HistoryTypeOK /\ ProfileTypeOK /\ PromotionTypeOK

(* What Core publishes as a model is what was downloaded: downloads in one     *)
(* Worker do not mix, and the files are those that were verified.              *)
ModelsAreGenuine == DownloadsKeepApart /\ PublishedIsVerified

(* No Worker holds a job for ever: a lease that is given up ends although the  *)
(* SDK may never return, and so does a call to a provider that never answers.  *)
WorkersLetGo == LeaseEnds /\ ProviderCallEnds
=============================================================================
