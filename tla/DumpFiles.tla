------------------------------ MODULE DumpFiles ------------------------------
(***************************************************************************)
(* Dump files in the data directory: src/file.  A download writes under    *)
(* the final name, so a file there is whole, partly written, or left over  *)
(* from a download that was cut short; only its checksum tells.  The name  *)
(* carries the entity type and the date and not the issue.  The download   *)
(* library writes to the file it created, wherever the name points by      *)
(* then, and checks and removes by name.                                   *)
(***************************************************************************)
CONSTANTS
    Path,       \* file names
    Content,    \* contents of whole files
    Downloader  \* who may be writing a file

VARIABLE disk  \* path -> what the name points to

Absent     == [kind |-> "absent"]
Partial(p) == [kind |-> "partial", by |-> p]
Whole(c)   == [kind |-> "whole", content |-> c]

FileType ==
    {Absent} \cup {Partial(p) : p \in Downloader} \cup {Whole(c) : c \in Content}

Delete(x) == disk' = [disk EXCEPT ![x] = Absent]

\* Mutation: a file that exists is taken as it is.
PresentIsEnough(x, c) == disk[x] # Absent

\* FetchAndCheckContext finds the file and its checksum matches.
Present(x, c) == disk[x] = Whole(c)

\* FetchAndCheckContext otherwise: the file there is deleted, the request is sent and a
\* new file is created.
BeginDownload(p, x) == disk' = [disk EXCEPT ![x] = Partial(p)]

\* The file under the name once p's transfer of content c has ended.
Transferred(p, x, c) == IF disk[x] = Partial(p) THEN Whole(c) ELSE disk[x]

\* The transfer ended and the checksum of the named file matches.
DownloadVerified(p, x, got, c) ==
    /\ Transferred(p, x, got) = Whole(c)
    /\ disk' = [disk EXCEPT ![x] = Whole(c)]

\* It does not match, or the transfer failed: execGrabReq removes the name.
DownloadRejected(p, x, got, c) ==
    /\ Transferred(p, x, got) # Whole(c)
    /\ Delete(x)
DownloadFailed(x) == Delete(x)
=============================================================================
