--------------------------- MODULE MultipartUpload ---------------------------
(***************************************************************************)
(* What a client of the Glacier multipart protocol promises: one upload is *)
(* initiated, its parts are stored while it is open, and it ends by being  *)
(* completed with every part in place, or by being aborted.  An upload a   *)
(* client walks away from stays open.                                      *)
(***************************************************************************)
CONSTANT Part

VARIABLES upload,   \* none, open, completed or aborted
          stored    \* the parts the service holds

uploadVars == <<upload, stored>>

UploadTypeOK ==
    /\ upload \in {"none", "open", "completed", "aborted"}
    /\ stored \subseteq Part

UploadInit == upload = "none" /\ stored = {}

Initiate == upload = "none" /\ upload' = "open" /\ UNCHANGED stored

StorePart(p) == upload = "open" /\ stored' = stored \cup {p} /\ UNCHANGED upload

Complete == upload = "open" /\ stored = Part /\ upload' = "completed" /\ UNCHANGED stored

Abort == upload = "open" /\ upload' = "aborted" /\ UNCHANGED stored

UploadNext == Initiate \/ (\E p \in Part : StorePart(p)) \/ Complete \/ Abort

UploadSpec == UploadInit /\ [][UploadNext]_uploadVars
=============================================================================
