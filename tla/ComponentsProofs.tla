--------------------------- MODULE ComponentsProofs ---------------------------
(***************************************************************************)
(* What the components promise holds where they rest and take turns too:   *)
(* a behaviour of all is one of each of them.                              *)
(***************************************************************************)
EXTENDS MCComponents, HostProofs, WorkerProofs, LibraryProofs, StreamProofs

(* Downloads move as their own specification says, or rest.                *)
LEMMA DownloadsAreAPart == ComponentsSpec => DownloadSpec
<1>1. ComponentsInit => DownloadInit
  BY DEF ComponentsInit
<1>2. [ComponentsNext]_componentVars => [DownloadNext]_downloadVars
  BY DEF ComponentsNext, componentVars, RestOf, Pcm, Synth, Provider
<1> QED
  BY <1>1, <1>2, PTL DEF ComponentsSpec, DownloadSpec

(* So does the promotion of a snapshot,                                   *)
LEMMA PromotionIsAPart == ComponentsSpec => PromotionSpec
<1>1. ComponentsInit => PromotionInit
  BY DEF ComponentsInit
<1>2. [ComponentsNext]_componentVars => [PromotionNext]_promotionVars
  BY DEF ComponentsNext, componentVars, RestOf, Pcm, Synth, Provider
<1> QED
  BY <1>1, <1>2, PTL DEF ComponentsSpec, PromotionSpec

(* the stream of a job,                                                    *)
LEMMA StreamIsAPart == ComponentsSpec => PcmSpec
<1>1. ComponentsInit => PcmInit
  BY DEF ComponentsInit
<1>2. [ComponentsNext]_componentVars => [PcmNext]_pcmVars
  BY DEF ComponentsNext, componentVars, RestOf, Pcm, Synth, Provider
<1> QED
  BY <1>1, <1>2, PTL DEF ComponentsSpec, PcmSpec

(* the log of events with its feeds,                                       *)
LEMMA EventsAreAPart == ComponentsSpec => EventSpec
<1>1. ComponentsInit => EventInit
  BY DEF ComponentsInit
<1>2. [ComponentsNext]_componentVars => [EventNext]_eventVars
  BY DEF ComponentsNext, componentVars, RestOf, Pcm, Synth, Provider
<1> QED
  BY <1>1, <1>2, PTL DEF ComponentsSpec, EventSpec

(* the run record,                                                         *)
LEMMA RunsAreAPart == ComponentsSpec => CoreRunSpec
<1>1. ComponentsInit => CoreInit
  BY DEF ComponentsInit
<1>2. [ComponentsNext]_componentVars => [CoreNext]_coreVars
  BY DEF ComponentsNext, componentVars, RestOf, Pcm, Synth, Provider
<1> QED
  BY <1>1, <1>2, PTL DEF ComponentsSpec, CoreRunSpec

(* the runtime generations,                                                *)
LEMMA UpgradesAreAPart == ComponentsSpec => UpgradeSpec
<1>1. ComponentsInit => UpgradeInit
  BY DEF ComponentsInit
<1>2. [ComponentsNext]_componentVars => [UpgradeNext]_upgradeVars
  BY DEF ComponentsNext, componentVars, RestOf, Pcm, Synth, Provider
<1> QED
  BY <1>1, <1>2, PTL DEF ComponentsSpec, UpgradeSpec

(* recordings and voices,                                                  *)
LEMMA RecordingsAreAPart == ComponentsSpec => RecordSpec
<1>1. ComponentsInit => RecordInit
  BY DEF ComponentsInit
<1>2. [ComponentsNext]_componentVars => [RecordNext]_recordVars
  BY DEF ComponentsNext, componentVars, RestOf, Pcm, Synth, Provider
<1> QED
  BY <1>1, <1>2, PTL DEF ComponentsSpec, RecordSpec

(* alignments,                                                             *)
LEMMA AlignmentsAreAPart == ComponentsSpec => AlignSpec
<1>1. ComponentsInit => AlignInit
  BY DEF ComponentsInit
<1>2. [ComponentsNext]_componentVars => [AlignNext]_alignVars
  BY DEF ComponentsNext, componentVars, RestOf, Pcm, Synth, Provider
<1> QED
  BY <1>1, <1>2, PTL DEF ComponentsSpec, AlignSpec

(* a lease and its Worker,                                                 *)
LEMMA LeasesAreAPart == ComponentsSpec => SynthInit /\ [][SynthNext]_synthVars
<1>1. ComponentsInit => SynthInit
  BY DEF ComponentsInit
<1>2. [ComponentsNext]_componentVars => [SynthNext]_synthVars
  BY DEF ComponentsNext, componentVars, RestOf, Pcm, Synth, Provider
<1> QED
  BY <1>1, <1>2, PTL DEF ComponentsSpec

(* process groups,                                                         *)
LEMMA OwnersAreAPart == ComponentsSpec => OwnSpec
<1>1. ComponentsInit => OwnInit
  BY DEF ComponentsInit
<1>2. [ComponentsNext]_componentVars => [OwnNext]_ownVars
  BY DEF ComponentsNext, componentVars, RestOf, Pcm, Synth, Provider
<1> QED
  BY <1>1, <1>2, PTL DEF ComponentsSpec, OwnSpec

(* the requests for audio,                                                 *)
LEMMA ReadsAreAPart == ComponentsSpec => ReadSpec
<1>1. ComponentsInit => ReadInit
  BY DEF ComponentsInit
<1>2. [ComponentsNext]_componentVars => [ReadNext]_readVars
  BY DEF ComponentsNext, componentVars, RestOf, Pcm, Synth, Provider
<1> QED
  BY <1>1, <1>2, PTL DEF ComponentsSpec, ReadSpec

(* the calls to a provider,                                                *)
LEMMA CallsAreAPart == ComponentsSpec => ProviderSpec
<1>1. ComponentsInit => ProviderInit
  BY DEF ComponentsInit
<1>2. [ComponentsNext]_componentVars => [ProviderNext]_providerVars
  BY DEF ComponentsNext, componentVars, RestOf, Pcm, Synth, Provider
<1> QED
  BY <1>1, <1>2, PTL DEF ComponentsSpec, ProviderSpec

(* the login service,                                                      *)
LEMMA ServiceIsAPart == ComponentsSpec => ServiceSpec
<1>1. ComponentsInit => ServiceInit
  BY DEF ComponentsInit
<1>2. [ComponentsNext]_componentVars => [ServiceNext]_serviceVars
  BY DEF ComponentsNext, componentVars, RestOf, Pcm, Synth, Provider
<1> QED
  BY <1>1, <1>2, PTL DEF ComponentsSpec, ServiceSpec

(* the deletion of kept audio                                              *)
LEMMA HistoryIsAPart == ComponentsSpec => HistorySpec
<1>1. ComponentsInit => HistoryInit
  BY DEF ComponentsInit
<1>2. [ComponentsNext]_componentVars => [HistoryNext]_historyVars
  BY DEF ComponentsNext, componentVars, RestOf, Pcm, Synth, Provider
<1> QED
  BY <1>1, <1>2, PTL DEF ComponentsSpec, HistorySpec

(* and the profiles of providers.                                          *)
LEMMA ProfilesAreAPart == ComponentsSpec => ProfileSpec
<1>1. ComponentsInit => ProfileInit
  BY DEF ComponentsInit
<1>2. [ComponentsNext]_componentVars => [ProfileNext]_profileVars
  BY DEF ComponentsNext, componentVars, RestOf, Pcm, Synth, Provider
<1> QED
  BY <1>1, <1>2, PTL DEF ComponentsSpec, ProfileSpec

(* What Core publishes as a model is what was downloaded: downloads in one *)
(* Worker do not mix and leave no scratch, and the files are those that    *)
(* were verified.                                                          *)
THEOREM PublishedModelsAreGenuine == ComponentsSpec => []ModelsAreGenuine
<1>1. ComponentsSpec => []DownloadsKeepApart
  BY DownloadsAreAPart, DownloadsAlwaysKeepApart, PTL
<1>2. ComponentsSpec => []PublishedIsVerified
  BY PromotionIsAPart, OnlyVerifiedIsPublished, PTL
<1>3. DownloadsKeepApart /\ PublishedIsVerified => ModelsAreGenuine
  BY DEF ModelsAreGenuine
<1> QED
  BY <1>1, <1>2, <1>3, PTL

(* The variables of all components have their types, for any size of each: *)
(* no queue, page, replay or cursor outgrows its bound.                    *)
THEOREM ComponentTypesHold == ComponentsSpec => []ComponentsTypeOK
<1>1. ComponentsSpec => [](PcmTypeOK /\ EventTypeOK /\ ProviderTypeOK /\ ServiceTypeOK)
  BY StreamIsAPart, EventsAreAPart, CallsAreAPart, ServiceIsAPart,
     PcmIsTyped, EventsAreTyped, ProviderIsTyped, ServiceIsTyped, PTL
<1>2. ComponentsSpec => []CoreTypeOK
  <2>1. CoreInv => CoreTypeOK
    BY DEF CoreInv
  <2> QED
    BY RunsAreAPart, CoreInvariant, <2>1, PTL
<1>3. ComponentsSpec => []UpgradeTypeOK
  <2>1. UpgradeInv => UpgradeTypeOK
    BY DEF UpgradeInv
  <2> QED
    BY UpgradesAreAPart, UpgradeInvariant, <2>1, PTL
<1>4. ComponentsSpec => []RecordTypeOK
  <2>1. RecordInv => RecordTypeOK
    BY DEF RecordInv
  <2> QED
    BY RecordingsAreAPart, RecordInvariant, <2>1, PTL
<1>5. ComponentsSpec => []AlignTypeOK
  <2>1. AlignInv => AlignTypeOK
    BY DEF AlignInv
  <2> QED
    BY AlignmentsAreAPart, AlignInvariant, <2>1, PTL
<1>6. ComponentsSpec => []DownloadTypeOK
  <2>1. DownloadInv => DownloadTypeOK
    BY DEF DownloadInv
  <2> QED
    BY DownloadsAreAPart, DownloadInvariant, <2>1, PTL
<1>7. ComponentsSpec => []SynthTypeOK
  <2>1. SynthInv => SynthTypeOK
    BY DEF SynthInv
  <2> QED
    BY LeasesAreAPart, SynthInvariant, <2>1, PTL
<1>8. ComponentsSpec => []OwnTypeOK
  <2>1. OwnInv => OwnTypeOK
    BY DEF OwnInv
  <2> QED
    BY OwnersAreAPart, OwnInvariant, <2>1, PTL
<1>9. ComponentsSpec => []ReadTypeOK
  <2>1. ReadInv => ReadTypeOK
    BY DEF ReadInv
  <2> QED
    BY ReadsAreAPart, ReadInvariant, <2>1, PTL
<1>10. ComponentsSpec => []HistoryTypeOK
  <2>1. HistoryInv => HistoryTypeOK
    BY DEF HistoryInv
  <2> QED
    BY HistoryIsAPart, HistoryInvariant, <2>1, PTL
<1>11. ComponentsSpec => []ProfileTypeOK
  <2>1. ProfileInv => ProfileTypeOK
    BY DEF ProfileInv
  <2> QED
    BY ProfilesAreAPart, ProfileInvariant, <2>1, PTL
<1>12. ComponentsSpec => []PromotionTypeOK
  <2>1. PromotionInv => PromotionTypeOK
    BY DEF PromotionInv
  <2> QED
    BY PromotionIsAPart, PromotionInvariant, <2>1, PTL
<1>13. /\ PcmTypeOK /\ EventTypeOK /\ ProviderTypeOK /\ ServiceTypeOK
       /\ CoreTypeOK /\ UpgradeTypeOK /\ RecordTypeOK /\ AlignTypeOK /\ DownloadTypeOK
       /\ SynthTypeOK /\ OwnTypeOK /\ ReadTypeOK /\ HistoryTypeOK /\ ProfileTypeOK
       /\ PromotionTypeOK
       => ComponentsTypeOK
  BY DEF ComponentsTypeOK
<1> QED
  BY <1>1, <1>2, <1>3, <1>4, <1>5, <1>6, <1>7, <1>8, <1>9, <1>10, <1>11, <1>12, <1>13, PTL

(* What each component promises, side by side with the others.             *)
THEOREM PartsKeepTheirPromises ==
  ComponentsSpec =>
    /\ [](/\ ChunksArriveInOrder /\ NothingSkipped /\ NoRequestIsForgotten
          /\ OwnerIsNamed /\ PointerNamesWhole /\ ServiceCanBeRemoved
          /\ RowsAgreeWithFiles /\ NoAlignmentIsLost /\ ReadsAreClean
          /\ RowsAndFilesGoTogether /\ ProfileOutlivesItsJobs
          /\ LeaseReturnsQuiet /\ GroupKeepsItsRecord)
    /\ SignalsMeetTheWorker
<1>1. ComponentsSpec => [](ChunksArriveInOrder /\ NothingSkipped /\ NoRequestIsForgotten)
  BY StreamIsAPart, EventsAreAPart, CallsAreAPart,
     ChunksAlwaysArriveInOrder, NoEventIsSkipped, RequestsAreRemembered, PTL
<1>2. ComponentsSpec => [](OwnerIsNamed /\ PointerNamesWhole /\ ServiceCanBeRemoved)
  BY RunsAreAPart, UpgradesAreAPart, ServiceIsAPart,
     CoreOwnerIsNamed, PointerAlwaysNamesWhole, LoginServiceCanBeRemoved, PTL
<1>3. ComponentsSpec => [](RowsAgreeWithFiles /\ NoAlignmentIsLost /\ ReadsAreClean)
  BY RecordingsAreAPart, AlignmentsAreAPart, ReadsAreAPart,
     RowsAndFilesAgree, NoAlignmentIsEverLost, ReadsAreAlwaysClean, PTL
<1>4. ComponentsSpec => [](RowsAndFilesGoTogether /\ ProfileOutlivesItsJobs)
  BY HistoryIsAPart, ProfilesAreAPart, HistoryRowsAndFiles, ProfilesOutliveTheirJobs, PTL
<1>5. ComponentsSpec => [](LeaseReturnsQuiet /\ GroupKeepsItsRecord)
  BY LeasesAreAPart, OwnersAreAPart, SynthInvariant, NobodyBusyIsQuiet,
     GroupsKeepTheirRecords, PTL
<1>6. ComponentsSpec => SignalsMeetTheWorker
  BY OwnersAreAPart, SignalsAlwaysMeetTheWorker, PTL
<1> QED
  BY <1>1, <1>2, <1>3, <1>4, <1>5, <1>6, PTL
=============================================================================
