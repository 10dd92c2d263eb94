------------------------------ MODULE TenantFiles ------------------------------
(* The export files of a cluster: what is on disk, which the checks read, and     *)
(* what table tenant_files says is.  An upload writes the file and then records   *)
(* it; a deletion unlinks the file and then drops the record; neither half is     *)
(* undone when the other does not follow.                                         *)
EXTENDS Database

CONSTANTS
    FileTypes,  \* FILE_TYPES
    HostNames   \* names under which host files are uploaded

VARIABLES
    files,  \* table tenant_files: [id, path]
    disk    \* the paths of the files in the tenant's folder

fileVars == <<files, disk>>

\* A metric type has one place; host files keep their names.
Destination(type, name) == IF type = "hosts" THEN <<type, name>> ELSE <<type, type>>

Paths == {Destination(type, name) : type \in FileTypes, name \in HostNames}

\* validate_bytes looks for services of a cluster without a name, and an export
\* from Cloudera Manager has none: services.json is refused with 422.
Validates(type) == type # "services"

UploadFile(t, type, name) ==
    /\ Validates(type)
    /\ Accept(t, [op |-> "upload_file", step |-> "store", path |-> Destination(type, name),
                  id |-> served + 1])
    /\ UNCHANGED fileVars

Store(t) ==
    /\ At(t, "upload_file", "store")
    /\ disk' = disk \cup {thread[t].path}
    /\ GoOn(t, "commit")
    /\ UNCHANGED files

CommitUpload(t) ==
    /\ At(t, "upload_file", "commit")
    /\ files' = files \cup {[id |-> thread[t].id, path |-> thread[t].path]}
    /\ Finish(t)
    /\ UNCHANGED disk

DeleteFile(t) ==
    /\ \E f \in files :
          Accept(t, [op |-> "delete_file", step |-> "unlink", path |-> f.path, id |-> f.id])
    /\ UNCHANGED fileVars

\* missing_ok: older records of a metric share the path of the newest.
Unlink(t) ==
    /\ At(t, "delete_file", "unlink")
    /\ disk' = disk \ {thread[t].path}
    /\ GoOn(t, "commit")
    /\ UNCHANGED files

\* Plausible bug: every record of the path goes with the file.
RecordsOfPath(q) == {f \in files : f.path = q.path}

RecordsDropped(q) == {f \in files : f.id = q.id}

CommitDeleteFile(t) ==
    /\ At(t, "delete_file", "commit")
    /\ files' = files \ RecordsDropped(thread[t])
    /\ Finish(t)
    /\ UNCHANGED disk

FilesNext ==
    \/ \E t \in Threads, type \in FileTypes, name \in HostNames : UploadFile(t, type, name)
    \/ \E t \in Threads :
          Store(t) \/ CommitUpload(t) \/ DeleteFile(t) \/ Unlink(t) \/ CommitDeleteFile(t)

\* The checks read what is on disk, and an administrator sees and deletes what is
\* on record.  So nothing the checks read is out of his reach: however uploads and
\* deletions of one path overlap, a file on disk has a record, or its upload is
\* about to write one, or the server died in the middle.
NoHiddenFile ==
    \A path \in disk :
        \/ \E f \in files : f.path = path
        \/ \E t \in Threads : At(t, "upload_file", "commit") /\ thread[t].path = path
        \/ restarts > 0
=============================================================================
