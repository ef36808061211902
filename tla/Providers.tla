------------------------------ MODULE Providers ------------------------------
(***************************************************************************)
(* Profiles of remote providers, and the jobs and previews that use them.  *)
(* A profile is looked up when the work is asked for and again when its    *)
(* text is sent; in between the work waits for a lease or in the queue,    *)
(* and the profile may be edited or deleted.  No foreign key ties a job to *)
(* its profile: delete counts the active jobs in its own transaction.      *)
(***************************************************************************)
EXTENDS FiniteSets, Naturals

CONSTANTS
  Profiles,     \* ids a profile may get, one each
  Works,        \* jobs and previews that are asked for
  NoProfile

VARIABLES
  profile,      \* "none", "usable" (its variable has a key), "keyless" or "deleted"
  work,         \* kind, profile and state of each
  rooted,       \* jobs whose profile was there when their row came to be
  gone          \* work that found no profile when it was to send

profileVars == <<profile, work, rooted, gone>>

Saved  == {"usable", "keyless"}
Finished  == {"completed", "cancelled", "failed"}
Active == {"queued", "running", "sending", "finalizing"}

ProfileInit ==
  /\ profile = [v \in Profiles |-> "none"]
  /\ work = [w \in Works |-> [kind |-> "none", of |-> NoProfile, state |-> "none"]]
  /\ rooted = {} /\ gone = {}

Is(w, kind, state) == work[w].kind = kind /\ work[w].state = state
Turns(w, state)    == work' = [work EXCEPT ![w].state = state]
-----------------------------------------------------------------------------
(* The profiles. *)

CreateProfile(v) ==
  /\ profile[v] = "none"
  /\ \E now \in Saved : profile' = [profile EXCEPT ![v] = now]
  /\ UNCHANGED <<work, rooted, gone>>

\* PATCH, or the environment of the next Core: the variable may have a key or none.
UpdateProfile(v) ==
  /\ profile[v] \in Saved
  /\ \E now \in Saved \ {profile[v]} : profile' = [profile EXCEPT ![v] = now]
  /\ UNCHANGED <<work, rooted, gone>>

\* Seeded fault: a job that is being finalized no longer counts.
InUseWhileRunning(v) ==
  \E w \in Works : work[w].kind = "job" /\ work[w].of = v /\ work[w].state \in {"queued", "running", "sending"}

\* Every job row that has not ended counts; a preview has none.
InUse(v) == \E w \in Works : work[w].kind = "job" /\ work[w].of = v /\ work[w].state \in Active

DeleteProfile(v) ==
  /\ profile[v] \in Saved /\ ~InUse(v)
  /\ profile' = [profile EXCEPT ![v] = "deleted"]
  /\ UNCHANGED <<work, rooted, gone>>
-----------------------------------------------------------------------------
(* The work. *)

\* The model of the request names a profile, which must be there.
AskForSpeech(w, v) ==
  /\ work[w].kind = "none" /\ profile[v] \in Saved
  /\ \E kind \in {"job", "preview"} : work' = [work EXCEPT ![w] = [kind |-> kind, of |-> v, state |-> "asked"]]
  /\ UNCHANGED <<profile, rooted, gone>>

\* The lease was tried and returned: the row comes without another look at the profile.
InsertJob(w) ==
  /\ Is(w, "job", "asked") /\ Turns(w, "queued")
  /\ rooted' = IF profile[work[w].of] \in Saved THEN rooted \cup {w} ELSE rooted
  /\ UNCHANGED <<profile, gone>>

\* No Worker, no such voice, or the client went; a job finds no Worker or loads no model.
RefuseSpeech(w) ==
  /\ work[w].state = "asked" \/ Is(w, "job", "running")
  /\ Turns(w, "failed")
  /\ UNCHANGED <<profile, rooted, gone>>

\* The work goes on if its profile is as it must be, and notes that it found none.
GoesOn(w, wanted, state) ==
  LET now == profile[work[w].of] IN
  /\ Turns(w, IF now \in wanted THEN state ELSE "failed")
  /\ gone' = IF now \in Saved THEN gone ELSE gone \cup {w}

\* _get_model, before the job waits for a Worker.
RunProviderJob(w) ==
  /\ Is(w, "job", "queued") /\ GoesOn(w, Saved, "running")
  /\ UNCHANGED <<profile, rooted>>

\* _provider_config: one read of the row, then the variable that it names.
SendText(w) ==
  /\ Is(w, "job", "running") /\ GoesOn(w, {"usable"}, "sending")
  /\ UNCHANGED <<profile, rooted>>

SendPreview(w) ==
  /\ Is(w, "preview", "asked") /\ GoesOn(w, {"usable"}, "sending")
  /\ UNCHANGED <<profile, rooted>>

\* The answer is there, or the request failed.
Answered(w) ==
  /\ Is(w, "job", "sending")
  /\ \E state \in {"finalizing", "failed"} : Turns(w, state)
  /\ UNCHANGED <<profile, rooted, gone>>

PreviewEnds(w) ==
  /\ Is(w, "preview", "sending")
  /\ \E state \in {"completed", "failed"} : Turns(w, state)
  /\ UNCHANGED <<profile, rooted, gone>>

FinishJob(w) ==
  /\ Is(w, "job", "finalizing")
  /\ \E state \in {"completed", "failed"} : Turns(w, state)
  /\ UNCHANGED <<profile, rooted, gone>>

StopWork(w) ==
  /\ work[w].state \in {"queued", "running", "sending"} /\ Turns(w, "cancelled")
  /\ UNCHANGED <<profile, rooted, gone>>

\* Jobs that wait survive, what runs is failed by recovery, requests are gone.
RestartCore ==
  /\ work' = [w \in Works |->
       IF work[w].state \in {"asked", "running", "sending", "finalizing"}
       THEN [work[w] EXCEPT !.state = "failed"] ELSE work[w]]
  /\ UNCHANGED <<profile, rooted, gone>>

ProfileNext ==
  \/ \E v \in Profiles : CreateProfile(v) \/ UpdateProfile(v) \/ DeleteProfile(v)
  \/ \E w \in Works :
       \/ (\E v \in Profiles : AskForSpeech(w, v))
       \/ InsertJob(w) \/ RefuseSpeech(w) \/ RunProviderJob(w) \/ SendText(w) \/ SendPreview(w)
       \/ Answered(w) \/ PreviewEnds(w) \/ FinishJob(w) \/ StopWork(w)
  \/ RestartCore

ProfileSpec == ProfileInit /\ [][ProfileNext]_profileVars
-----------------------------------------------------------------------------
ProfileTypeOK ==
  /\ profile \in [Profiles -> Saved \cup {"none", "deleted"}]
  /\ work \in [Works -> [kind : {"none", "job", "preview"}, of : Profiles \cup {NoProfile},
                         state : {"none", "asked"} \cup Active \cup Finished]]
  /\ rooted \subseteq Works /\ gone \subseteq Works

(* A profile stays as long as a job with a row needs it: a job whose profile   *)
(* was there when its row was inserted has it until it ends, and never fails   *)
(* for the want of it; other jobs and previews may.                            *)
ProfileOutlivesItsJobs ==
  \A w \in rooted : /\ w \notin gone
                    /\ work[w].state \notin Finished => profile[work[w].of] \in Saved
=============================================================================
