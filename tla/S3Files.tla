------------------------------ MODULE S3Files ------------------------------
(***************************************************************************)
(* The workflows of component-aws-s3 on one key: saveStringToFile,         *)
(* deleteFile and writeFileViaURL, with the application's table (through   *)
(* the callbacks) and the bucket.  Steps are durable: a crash repeats the  *)
(* step in progress and no completed one, and recv keeps its deadline.     *)
(* The client that holds the presigned URL is external.                    *)
(***************************************************************************)
EXTENDS Naturals

CONSTANTS Expiration,     \* lifetime of the presigned post
          Extra,          \* what recv waits beyond it (60 seconds)
          MaxDay, MaxS3Faults

ASSUME S3Assumption ==
    /\ Expiration \in Nat /\ Extra \in Nat \ {0}
    /\ MaxDay \in Nat /\ MaxS3Faults \in Nat

VARIABLES
    op,          \* "save" or "upload": the workflow the application called
    pc,          \* its next step
    deleter,     \* the deleteFile workflow: "none", "table", "object", "done"
    table,       \* "absent", "pending", "active" or "deleted"
    object,      \* is the object in the bucket?
    url,         \* when the presigned post expires, 0 before it exists
    until,       \* when recv gives up
    finished,    \* has the client sent uploadfinish?
    day, s3Faults

s3Vars == <<op, pc, deleter, table, object, url, until, finished, day, s3Faults>>

S3Init ==
    /\ op \in {"save", "upload"}
    /\ pc = IF op = "save" THEN "put" ELSE "newPendingFile"
    /\ deleter = "none" /\ table = "absent" /\ object = FALSE
    /\ url = 0 /\ until = 0 /\ finished = FALSE
    /\ day = 1 /\ s3Faults = MaxS3Faults

Step3(from, to) == pc = from /\ pc' = to

(* saveStringToFile: put, then the table; a failed put is cleaned up. *)
PutObject ==
    /\ Step3("put", "newActiveFile")
    /\ object' = TRUE
    /\ UNCHANGED <<op, deleter, table, url, until, finished, day, s3Faults>>

(* The retries of the step are used up; the object may be there or not. *)
PutFails ==
    /\ s3Faults > 0 /\ s3Faults' = s3Faults - 1
    /\ Step3("put", "cleanup")
    /\ object' \in BOOLEAN
    /\ UNCHANGED <<op, deleter, table, url, until, finished, day>>

CleanUp ==
    /\ Step3("cleanup", "failed")
    /\ object' = FALSE
    /\ UNCHANGED <<op, deleter, table, url, until, finished, day, s3Faults>>

NewActiveFile ==
    /\ Step3("newActiveFile", "done")
    /\ table' = "active"
    /\ UNCHANGED <<op, deleter, object, url, until, finished, day, s3Faults>>

(* writeFileViaURL *)
NewPendingFile ==
    /\ Step3("newPendingFile", "presign")
    /\ table' = "pending"
    /\ UNCHANGED <<op, deleter, object, url, until, finished, day, s3Faults>>

(* createPresignedPost and setEvent: the client learns the URL. *)
Presign ==
    /\ Step3("presign", "recv")
    /\ url' = day + Expiration
    /\ UNCHANGED <<op, deleter, table, object, until, finished, day, s3Faults>>

PresignFails ==
    /\ s3Faults > 0 /\ s3Faults' = s3Faults - 1
    /\ Step3("presign", "failed")
    /\ UNCHANGED <<op, deleter, table, object, url, until, finished, day>>

(* Mutant of RecvTimeout: recv waits less than the URL lives. *)
RecvShort == Expiration - 1

RecvTimeout == Expiration + Extra

RecvStart ==
    /\ Step3("recv", "waiting")
    /\ until' = day + RecvTimeout
    /\ UNCHANGED <<op, deleter, table, object, url, finished, day, s3Faults>>

(* The message, or the deadline; a null answer starts deleteFile. *)
RecvAnswers ==
    /\ finished /\ Step3("waiting", "fileActivated")
    /\ UNCHANGED <<op, deleter, table, object, url, until, finished, day, s3Faults>>

RecvTimesOut ==
    /\ ~finished /\ day >= until
    /\ Step3("waiting", "failed")
    /\ deleter' = "table"
    /\ UNCHANGED <<op, table, object, url, until, finished, day, s3Faults>>

FileActivated ==
    /\ Step3("fileActivated", "done")
    /\ table' = "active"
    /\ UNCHANGED <<op, deleter, object, url, until, finished, day, s3Faults>>

(* The callback throws: the file is deleted as after a timeout. *)
ActivationFails ==
    /\ s3Faults > 0 /\ s3Faults' = s3Faults - 1
    /\ Step3("fileActivated", "failed")
    /\ deleter' = "table"
    /\ UNCHANGED <<op, table, object, url, until, finished, day>>

(* deleteFile, by the application or the failed upload: the table first. *)
FileDeleted ==
    /\ deleter = "table" \/ (pc = "done" /\ deleter = "none")
    /\ table' = "deleted" /\ deleter' = "object"
    /\ UNCHANGED <<op, pc, object, url, until, finished, day, s3Faults>>

DeleteObject ==
    /\ deleter = "object"
    /\ object' = FALSE /\ deleter' = "done"
    /\ UNCHANGED <<op, pc, table, url, until, finished, day, s3Faults>>

(* The client posts the file while the URL is valid, then says so. *)
ClientUploads ==
    /\ url # 0 /\ day < url
    /\ object' = TRUE
    /\ UNCHANGED <<op, pc, deleter, table, url, until, finished, day, s3Faults>>

ClientFinishes ==
    /\ object /\ op = "upload" /\ pc \in {"recv", "waiting"}
    /\ finished' = TRUE
    /\ UNCHANGED <<op, pc, deleter, table, object, url, until, day, s3Faults>>

NextDay ==
    /\ day < MaxDay /\ day' = day + 1
    /\ UNCHANGED <<op, pc, deleter, table, object, url, until, finished, s3Faults>>

S3Next ==
    \/ PutObject \/ PutFails \/ CleanUp \/ NewActiveFile
    \/ NewPendingFile \/ Presign \/ PresignFails \/ RecvStart \/ RecvAnswers \/ RecvTimesOut
    \/ FileActivated \/ ActivationFails \/ FileDeleted \/ DeleteObject
    \/ ClientUploads \/ ClientFinishes \/ NextDay

S3Spec == S3Init /\ [][S3Next]_s3Vars

-----------------------------------------------------------------------------
(* The bucket and the table agree: an active file has its object, and when   *)
(* recv has given up on an upload and the cleanup is over, no object is left *)
(* behind and none can still come, because the URL expires before the wait   *)
(* does.                                                                     *)
BucketMatchesTable ==
    /\ table = "active" => object
    /\ (deleter = "done" /\ ~finished) => ~object
=============================================================================
