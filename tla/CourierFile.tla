---------------------------- MODULE CourierFile -----------------------------
(***************************************************************************)
(* The file of a courier: the papers he uploads, the decisions staff take  *)
(* on them and the dates they give them, the suspension, and whether he    *)
(* says he is online.  review locks the profile and reads it again;        *)
(* replace_documents decides on the profile its view has read.             *)
(***************************************************************************)
EXTENDS Naturals

CONSTANT MaxVersion   \* bound on the uploads

ASSUME CourierFileAssumption == MaxVersion \in Nat

VARIABLES
  dossier,    \* CourierProfile.verification_status
  online,     \* CourierProfile.is_online
  version,    \* which papers are on file
  paperDate,  \* the expiry date staff gave them: "undated", "ahead", "past"
  upload,     \* the status an upload has read, or "none"
  judged,     \* history: the papers the last approval was given to
  crossed     \* history: a decision fell while an upload was under way

fileVars == <<dossier, online, version, paperDate, upload, judged, crossed>>

VERIFICATION_TRANSITIONS == [
  pending   |-> {"approved", "rejected"},
  approved  |-> {"pending", "suspended"},
  rejected  |-> {"pending"},
  suspended |-> {"approved", "rejected"}]
Statuses == DOMAIN VERIFICATION_TRANSITIONS

FileInit ==
  /\ dossier = "pending" /\ online = FALSE
  /\ version = 0 /\ paperDate = "undated"
  /\ upload = "none" /\ judged = 0 /\ crossed = FALSE

-----------------------------------------------------------------------------
(* The courier.  Being online is his to say, whatever the file.            *)

set_online ==
  /\ online' = ~online
  /\ UNCHANGED <<dossier, version, paperDate, upload, judged, crossed>>

BeginUpload ==
  /\ upload = "none" /\ version < MaxVersion
  /\ upload' = dossier
  /\ UNCHANGED <<dossier, online, version, paperDate, judged, crossed>>

REOPENS_REJECTED == {"rejected"}                 \* mutant: an approved file stays approved
ROUVRE_L_INSTRUCTION == {"approved", "rejected"}
replace_documents ==
  /\ upload # "none"
  /\ version' = version + 1 /\ paperDate' = "undated"
  /\ IF upload \in ROUVRE_L_INSTRUCTION
       THEN dossier' = "pending" /\ online' = FALSE
       ELSE UNCHANGED <<dossier, online>>
  /\ upload' = "none"
  /\ UNCHANGED <<judged, crossed>>

-----------------------------------------------------------------------------
(* Staff.  A decision that changes nothing still records its dates.        *)

review(target, date) ==
  /\ date = "undated" => paperDate = "undated"
  /\ ~(target = "approved" /\ date = "past")
  /\ paperDate' = date
  /\ \/ dossier = target /\ UNCHANGED <<dossier, online, judged>>
     \/ /\ target \in VERIFICATION_TRANSITIONS[dossier]
        /\ dossier' = target
        /\ online' = (online /\ target = "approved")
        /\ judged' = IF target = "approved" THEN version ELSE judged
  /\ crossed' = (crossed \/ upload # "none")
  /\ UNCHANGED <<version, upload>>

PaperExpires ==
  /\ paperDate = "ahead"
  /\ paperDate' = "past"
  /\ UNCHANGED <<dossier, online, version, upload, judged, crossed>>

-----------------------------------------------------------------------------
FileNext ==
  \/ set_online \/ BeginUpload \/ replace_documents
  \/ \E target \in Statuses, date \in {"undated", "ahead", "past"} : review(target, date)
  \/ PaperExpires

FileSpec == FileInit /\ [][FileNext]_fileVars

-----------------------------------------------------------------------------
FileTypeOK ==
  /\ dossier \in Statuses /\ online \in BOOLEAN
  /\ version \in 0..MaxVersion /\ judged \in 0..MaxVersion
  /\ paperDate \in {"undated", "ahead", "past"}
  /\ upload \in Statuses \cup {"none"} /\ crossed \in BOOLEAN

(* L5.  The papers of a courier who may take courses are those staff       *)
(* approved, through any sequence of uploads, refusals and suspensions -   *)
(* as long as no decision falls between the reading and the writing of an  *)
(* upload.                                                                 *)
ApprovedPapersWereJudged == ~crossed /\ dossier = "approved" => judged = version
=============================================================================
