------------------------------- MODULE Upload -------------------------------
(***************************************************************************)
(* upload (src/src/upload.rs): a file goes to the bucket service part by   *)
(* part, in a session that is opened first and turned into an object last. *)
(*                                                                         *)
(* External: the bucket service (it puts a session's parts together in the *)
(* order of their numbers), the file.                                      *)
(***************************************************************************)
EXTENDS Naturals, Sequences

CONSTANTS
    Uploads,       \* invocations of the command
    Size,          \* bytes of the file, in units
    Chunk          \* what the read buffer holds of them

File == [i \in 1..Size |-> i]

ASSUME UploadAssumption == Size \in Nat /\ Chunk \in Nat \ {0}

VARIABLES
    sending, uploadEnd,  \* where each upload is, and how it ended
    read,          \* bytes read so far
    partNumber,    \* part_number of the next part
    parts,         \* the service: the parts of each session, by number
    object         \* the service: what each session became (<<>>: nothing)

uploadVars == <<sending, uploadEnd, read, partNumber, parts, object>>

UploadTypeOK ==
    /\ sending \in [Uploads -> {"idle", "open", "reading", "finalizing", "ended"}]
    /\ uploadEnd \in [Uploads -> {"none", "ok", "error"}]
    /\ read \in [Uploads -> 0..Size]
    /\ partNumber \in [Uploads -> 0..Size]
    /\ \A u \in Uploads : DOMAIN parts[u] \subseteq 0..Size
    /\ object \in [Uploads -> Seq(1..Size)]

UploadInit ==
    /\ sending = [u \in Uploads |-> "idle"]
    /\ uploadEnd = [u \in Uploads |-> "none"]
    /\ read = [u \in Uploads |-> 0]
    /\ partNumber = [u \in Uploads |-> 0]
    /\ parts = [u \in Uploads |-> [n \in {} |-> <<>>]]
    /\ object = [u \in Uploads |-> <<>>]

GoesTo(u, place) == sending' = [sending EXCEPT ![u] = place] /\ UNCHANGED uploadEnd
Ends(u, how) ==
    /\ sending' = [sending EXCEPT ![u] = "ended"]
    /\ uploadEnd' = [uploadEnd EXCEPT ![u] = how]

\* The token, the session (409: there is such an object, and no --overwrite).
StartUpload(u) ==
    /\ sending[u] = "idle"
    /\ GoesTo(u, "open") \/ Ends(u, "error")
    /\ UNCHANGED <<read, partNumber, parts, object>>

\* A file that does not open leaves a session behind.
OpenFile(u) ==
    /\ sending[u] = "open"
    /\ GoesTo(u, "reading") \/ Ends(u, "error")
    /\ UNCHANGED <<read, partNumber, parts, object>>

Stored(u, to, n) ==
    parts' = [parts EXCEPT ![u] = [m \in DOMAIN @ \cup {n} |->
                 IF m = n THEN SubSeq(File, read[u] + 1, to) ELSE @[m]]]

\* Mutant of SendPart: the number stays.
SendPartUnnumbered(u) ==
    /\ sending[u] = "reading" /\ read[u] < Size
    /\ \E to \in read[u] + 1 .. Size :
          /\ to - read[u] <= Chunk
          /\ Stored(u, to, partNumber[u])
          /\ read' = [read EXCEPT ![u] = to]
    /\ UNCHANGED <<sending, uploadEnd, partNumber, object>>

\* A read returns what it likes up to the buffer's size: the part is as long.
SendPart(u) ==
    /\ sending[u] = "reading" /\ read[u] < Size
    /\ \E to \in read[u] + 1 .. Size :
          /\ to - read[u] <= Chunk
          /\ Stored(u, to, partNumber[u])
          /\ read' = [read EXCEPT ![u] = to]
    /\ partNumber' = [partNumber EXCEPT ![u] = @ + 1]
    /\ UNCHANGED <<sending, uploadEnd, object>>

\* The read fails, the part is refused or its answer is lost.
PartFails(u) ==
    /\ sending[u] = "reading" /\ read[u] < Size
    /\ \E to \in read[u] + 1 .. Size :
          to - read[u] <= Chunk /\ (Stored(u, to, partNumber[u]) \/ UNCHANGED parts)
    /\ Ends(u, "error")
    /\ UNCHANGED <<read, partNumber, object>>

EndOfFile(u) ==
    /\ sending[u] = "reading" /\ read[u] = Size
    /\ GoesTo(u, "finalizing")
    /\ UNCHANGED <<read, partNumber, parts, object>>

Joined(u) ==
    LET f[n \in Nat] == IF n \in DOMAIN parts[u] THEN parts[u][n] \o f[n + 1] ELSE <<>>
    IN  f[0]

\* The answer may be lost: then there is an object, and an error is reported.
Finalize(u) ==
    /\ sending[u] = "finalizing"
    /\ \/ Ends(u, "ok") /\ object' = [object EXCEPT ![u] = Joined(u)]
       \/ Ends(u, "error") /\ object' = [object EXCEPT ![u] = Joined(u)]
       \/ Ends(u, "error") /\ UNCHANGED object
    /\ UNCHANGED <<read, partNumber, parts>>

UploadStep(u) ==
    \/ StartUpload(u) \/ OpenFile(u) \/ SendPart(u) \/ PartFails(u)
    \/ EndOfFile(u) \/ Finalize(u)

UploadNext == \E u \in Uploads : UploadStep(u)
UploadSpec == UploadInit /\ [][UploadNext]_uploadVars

-----------------------------------------------------------------------------
\* An object is the whole file whatever the lengths the reads returned and
\* wherever an upload broke off, and "Upload complete" is printed only if
\* there is one.
UploadIsWhole ==
    \A u \in Uploads :
        /\ object[u] \in {<<>>, File}
        /\ uploadEnd[u] = "ok" => object[u] = File

=============================================================================
