------------------------------- MODULE Uploads -------------------------------
(***************************************************************************)
(* files.service.ts, audio.service.ts and the upload of s3.service.ts.     *)
(*                                                                         *)
(* An upload stores an object under a new key, an audio is then            *)
(* transcribed, and the row that names the key is inserted last.  Objects  *)
(* are never deleted.                                                      *)
(***************************************************************************)
EXTENDS OwnedRows

VARIABLE objects \* rows' uuids, for the keys of the objects in the bucket

fvars == <<objects>>

FInit == objects = {i \in Stored : IsIn(i, "files") \/ IsIn(i, "audios")}

ReceiveUpload(q) ==
  /\ \/ \E i \in Ids, service \in {"files", "audios"} :
          Fresh(i) /\ Receive(q, Ask("create", service, Owner[i], i, Columns), "put")
     \/ \E i \in Ids, u \in Users :
          IsIn(i, "audios") /\ Receive(q, Ask("update", "audios", u, i, {"mark"}), "deactivate")
  /\ UNCHANGED <<copy, objects>>

\* Mutant of PutObject: the upload is not waited for.
PutObjectLater(q) ==
  /\ at[q] = "put"
  /\ copy' = [copy EXCEPT ![q] = Row(asks[q].service, None)]
  /\ \/ Goto(q, IF asks[q].service = "audios" THEN "transcribe" ELSE "insert")
     \/ Answer(q, "rejected")
  /\ Stays /\ UNCHANGED <<asks, objects>>

\* s3.service.ts uploadFile
PutObject(q) ==
  /\ at[q] = "put"
  /\ objects' = objects \cup {Target(q)}
  /\ copy' = [copy EXCEPT ![q] = Row(asks[q].service, None)]
  /\ Goto(q, IF asks[q].service = "audios" THEN "transcribe" ELSE "insert")
  /\ Stays /\ UNCHANGED asks

\* transcribeAudio never rejects; without success the text stays empty.
TranscribeAudio(q) ==
  /\ at[q] = "transcribe"
  /\ \E text \in {q, None} : copy' = [copy EXCEPT ![q].text = text]
  /\ Goto(q, "insert")
  /\ Stays /\ UNCHANGED <<asks, objects>>

InsertUpload(q) ==
  /\ asks[q].service \in {"files", "audios"}
  /\ InsertRow(q, copy[q], "done")
  /\ UNCHANGED objects

\* deleteAudio: an UPDATE, which does not mind that the row is gone.
DeactivateAudio(q) ==
  /\ at[q] = "deactivate"
  /\ IF Exists(Target(q))
     THEN /\ rows' = [rows EXCEPT ![Target(q)].mark = q]
          /\ Wrote(q, Target(q))
     ELSE UNCHANGED <<rows, landed, stale, raced>>
  /\ Answer(q, "done")
  /\ UNCHANGED <<users, faults, objects>>

UploadStep(q) ==
  \/ ReceiveUpload(q) \/ PutObject(q) \/ TranscribeAudio(q) \/ InsertUpload(q)
  \/ DeactivateAudio(q)

-----------------------------------------------------------------------------
\* A row names an object that is there, whatever failed on the way to it.
RowsHaveObjects ==
  \A i \in Ids : IsIn(i, "files") \/ IsIn(i, "audios") => i \in objects
=============================================================================
