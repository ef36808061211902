------------------------------ MODULE Promotion ------------------------------
(***************************************************************************)
(* What becomes of the files of a download once its stream has ended.      *)
(* verify compares the staging directory with the manifest of the Worker;  *)
(* activate copies it into a promotion directory, which it renames to the  *)
(* id of the model.  Other processes of the user may write to staging/ at  *)
(* any time, so what was verified need not be what is read again.  A file  *)
(* is copied piece by piece.                                               *)
(***************************************************************************)
EXTENDS Naturals

CONSTANTS
  Files,        \* names that may be in the staging directory
  Required,     \* those that the validated revision has
  PieceCount,   \* reads that a file takes
  MaxChanges    \* bound on the writes of others

ASSUME PromotionAssumption == Required \subseteq Files /\ PieceCount \in Nat /\ MaxChanges \in Nat

VARIABLES
  arrived,      \* the entry under each name of staging/: its kind, the pieces that
                \* differ from what the Worker wrote
  reported,     \* the manifest: its names, and those whose checksum is another
  promoter,     \* the step that verify or activate is at
  todo,         \* names that it has still to hash or to copy
  reading,      \* the file that is being copied, how it was when it was opened, the next piece,
                \* the pieces read that differ
  promoted,     \* the files of the promotion directory, then of the model
  published,    \* it has the id of the model
  changes

promotionVars == <<arrived, reported, promoter, todo, reading, promoted, published, changes>>

PieceSet == 1 .. PieceCount
Missing  == [kind |-> "absent", differs |-> {}]
Entries  == {Missing} \cup [kind : {"file", "link"}, differs : SUBSET PieceSet]
NoFile   == [of |-> {}, held |-> {}, next |-> 1, differs |-> {}]

PromotionInit ==
  /\ arrived = [f \in Files |-> Missing]
  /\ reported = [names |-> {}, wrong |-> {}]
  /\ promoter = "stream" /\ todo = {} /\ reading = NoFile
  /\ promoted = [f \in Files |-> Missing] /\ published = FALSE
  /\ changes = 0

\* The checksum that the manifest has of a file, as the pieces that differ.
Checksum(f) == IF f \in reported.wrong THEN PieceSet ELSE {}

\* The staging directory and what was copied are removed.
GiveUpPromotion ==
  /\ promoter' = "failed"
  /\ arrived' = [f \in Files |-> Missing] /\ promoted' = [f \in Files |-> Missing]
  /\ todo' = {} /\ reading' = NoFile
-----------------------------------------------------------------------------
\* The Worker has written files, and says which and what is in them.
ManifestArrives ==
  /\ promoter = "stream"
  /\ \E written, names \in SUBSET Files : \E wrong \in SUBSET names :
       /\ arrived' = [f \in Files |-> IF f \in written THEN [kind |-> "file", differs |-> {}]
                                                     ELSE Missing]
       /\ reported' = [names |-> names, wrong |-> wrong]
  /\ promoter' = "walk"
  /\ UNCHANGED <<todo, reading, promoted, published, changes>>

\* The manifest names the files that the validated revision requires.
NamesRequired == reported.names = Required

\* Those are there as regular files, and no others.
WalkStaging ==
  /\ promoter = "walk"
  /\ IF /\ NamesRequired
        /\ \A f \in Files : arrived[f].kind = (IF f \in Required THEN "file" ELSE "absent")
     THEN /\ promoter' = "hash" /\ todo' = Required
          /\ UNCHANGED <<arrived, reading, promoted>>
     ELSE GiveUpPromotion
  /\ UNCHANGED <<reported, published, changes>>

\* The file is opened by its name: a link that came meanwhile is followed.
HashFile(f) ==
  /\ promoter = "hash" /\ f \in todo
  /\ IF arrived[f].kind # "absent" /\ arrived[f].differs = Checksum(f)
     THEN /\ todo' = todo \ {f}
          /\ promoter' = IF todo = {f} THEN "verified" ELSE "hash"
          /\ UNCHANGED <<arrived, reading, promoted>>
     ELSE GiveUpPromotion
  /\ UNCHANGED <<reported, published, changes>>

\* The names of the moment are those that are copied.
ListStaging ==
  /\ promoter = "verified"
  /\ promoter' = "copy" /\ todo' = {f \in Files : arrived[f].kind # "absent"}
  /\ UNCHANGED <<arrived, reported, reading, promoted, published, changes>>

\* Only a regular file that the manifest names is opened.
OpenFile(f) ==
  /\ promoter = "copy" /\ reading = NoFile /\ f \in todo
  /\ IF f \in Required /\ arrived[f].kind = "file"
     THEN /\ reading' = [NoFile EXCEPT !.of = {f}, !.held = arrived[f].differs] /\ todo' = todo \ {f}
          /\ UNCHANGED <<arrived, promoter, promoted>>
     ELSE GiveUpPromotion
  /\ UNCHANGED <<reported, published, changes>>

\* A file that was replaced is read on as it was, one that is written as it is.
CopyPiece(f) ==
  /\ f \in reading.of /\ reading.next <= PieceCount
  /\ \E differs \in {reading.held, arrived[f].differs} :
       reading' = [reading EXCEPT !.next = @ + 1,
                                  !.differs = @ \cup (differs \cap {reading.next})]
  /\ UNCHANGED <<arrived, reported, promoter, todo, promoted, published, changes>>

\* Seeded fault: the copy is compared with what was read only.
CopyIsItself(f) == TRUE

CopyIsVerified(f) == reading.differs = Checksum(f)

FinishFile(f) ==
  /\ f \in reading.of /\ reading.next > PieceCount
  /\ IF CopyIsVerified(f)
     THEN /\ promoted' = [promoted EXCEPT ![f] = [kind |-> "file", differs |-> reading.differs]]
          /\ reading' = NoFile
          /\ UNCHANGED <<arrived, promoter, todo>>
     ELSE GiveUpPromotion
  /\ UNCHANGED <<reported, published, changes>>

\* All that was verified was copied; then the staging directory goes.
PublishModel ==
  /\ promoter = "copy" /\ reading = NoFile /\ todo = {}
  /\ IF \A f \in Required : promoted[f] # Missing
     THEN /\ promoter' = "published" /\ published' = TRUE
          /\ arrived' = [f \in Files |-> Missing]
          /\ UNCHANGED <<todo, reading, promoted>>
     ELSE GiveUpPromotion /\ UNCHANGED published
  /\ UNCHANGED <<reported, changes>>

\* A read, a write or the rename fails.
PromotionFails ==
  /\ promoter \notin {"stream", "published", "failed"} /\ GiveUpPromotion
  /\ UNCHANGED <<reported, published, changes>>

\* Another process replaces, writes, adds or removes a file.
OthersWrite(f) ==
  /\ promoter \notin {"stream", "published", "failed"} /\ changes < MaxChanges
  /\ \E entry \in Entries \ {arrived[f]} : arrived' = [arrived EXCEPT ![f] = entry]
  /\ changes' = changes + 1
  /\ UNCHANGED <<reported, promoter, todo, reading, promoted, published>>

PromotionNext ==
  \/ ManifestArrives \/ WalkStaging \/ ListStaging \/ PublishModel \/ PromotionFails
  \/ \E f \in Files : HashFile(f) \/ OpenFile(f) \/ CopyPiece(f) \/ FinishFile(f) \/ OthersWrite(f)

PromotionSpec == PromotionInit /\ [][PromotionNext]_promotionVars
-----------------------------------------------------------------------------
PromotionTypeOK ==
  /\ arrived \in [Files -> Entries] /\ promoted \in [Files -> Entries]
  /\ reported \in [names : SUBSET Files, wrong : SUBSET Files]
  /\ promoter \in {"stream", "walk", "hash", "verified", "copy", "published", "failed"}
  /\ todo \subseteq Files /\ published \in BOOLEAN /\ changes \in 0 .. MaxChanges
  /\ reading \in [of : SUBSET Files, held : SUBSET PieceSet, next : 1 .. PieceCount + 1,
                  differs : SUBSET PieceSet]

(* Whatever others write to the staging directory, a model that is published   *)
(* has exactly the files of its revision, each with the bytes whose checksum   *)
(* the manifest has; and one that is given up leaves nothing behind.           *)
PublishedIsVerified ==
  /\ published =>
       \A f \in Files : promoted[f] = IF f \in Required
                                      THEN [kind |-> "file", differs |-> Checksum(f)] ELSE Missing
  /\ promoter = "failed" =>
       ~published /\ \A f \in Files : promoted[f] = Missing /\ arrived[f] = Missing
=============================================================================
