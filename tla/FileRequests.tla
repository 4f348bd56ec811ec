---------------------------- MODULE FileRequests ----------------------------
(***************************************************************************)
(* Requests that read files: each takes a FileSystem object out of         *)
(* FSPool, sets its target and the handler of its target's policy, serves  *)
(* the target, and puts the object back.  The objects are reused by later  *)
(* requests, of other users too.                                           *)
(*                                                                         *)
(* A download session is a copy of the file's row in the cache, under a    *)
(* random ticket; whoever has the ticket may fetch the file.  An archive   *)
(* session is a list of files and a copy of the user's row.  A source link *)
(* is a row that redirects to the file.                                    *)
(***************************************************************************)
EXTENDS Integers, Sequences, FiniteSets

CONSTANTS
    Docs,       \* files, each of a storage policy of its own
    FSObjects,  \* the FileSystem objects of the pool
    Jobs,       \* requests
    Tickets,    \* identifiers of download sessions
    MaxSourceLinks   \* bound on the source links of a file

ASSUME FileRequestsAssumption == MaxSourceLinks \in Nat \ {0} /\ Cardinality(FSObjects) >= Cardinality(Jobs)

VARIABLES
    slaveMode,  \* conf.SystemConfig.Mode = "slave"
    pool,       \* FileSystem objects that are in FSPool
    target,     \* FileTarget of each object
    handler,    \* Handler of each object: of a file's policy, of the user's, local, or none
    docs,       \* files whose row and content exist
    ticket,     \* the download sessions in the cache
    archive,    \* keys of the archive session in the cache
    sourceLinks,\* number of source links of each file
    job,
    onceServed, \* history: one-time downloads served for each ticket
    racedTickets, racedLinks  \* history: look-ups that overlapped

fileRequestVars == <<slaveMode, pool, target, handler, docs, ticket, archive, sourceLinks, job,
                     onceServed, racedTickets, racedLinks>>
sessions == <<slaveMode, docs, ticket, archive, sourceLinks, onceServed, racedTickets, racedLinks>>

NoJob == [pc |-> "idle", kind |-> "none", fs |-> {}, doc |-> {}, ticket |-> {}, once |-> FALSE]
(* A file by its identifier among the user's, or the file of a share: for a *)
(* preview, a thumbnail or a session.  By identifier among everybody's: a  *)
(* signed address.                                                         *)
ByID == {"preview", "session"}
ByIDs == {"get", "source"}

(* The types of the variables.                                             *)
FileRequestsTypeOK ==
    /\ pool \subseteq FSObjects /\ docs \subseteq Docs
    /\ \A f \in FSObjects : target[f] \in Seq(Docs)
    /\ \A t \in Tickets : ticket[t] \subseteq Docs /\ Cardinality(ticket[t]) <= 1
    /\ archive \subseteq {"items", "user"}
    /\ sourceLinks \in [Docs -> 0 .. MaxSourceLinks]
    /\ \A j \in Jobs : job[j].fs \subseteq FSObjects \ pool
    /\ \A j, k \in Jobs : j # k => job[j].fs \cap job[k].fs = {}

FileRequestsInit ==
    /\ slaveMode \in BOOLEAN
    /\ pool = FSObjects /\ target = [f \in FSObjects |-> <<>>] /\ handler = [f \in FSObjects |-> {}]
    /\ docs = Docs /\ ticket = [t \in Tickets |-> {}] /\ archive = {}
    /\ sourceLinks = [d \in Docs |-> 0]
    /\ job = [j \in Jobs |-> NoJob]
    /\ onceServed = [t \in Tickets |-> 0] /\ racedTickets = {} /\ racedLinks = {}

The(S) == CHOOSE x \in S : TRUE
FSOf(j) == The(job[j].fs)
Step(j, q) == job' = [job EXCEPT ![j] = q]

-----------------------------------------------------------------------------
(* The pool.                                                               *)

(* getEmptyFS hands out any object of the pool; the caller sets its first  *)
(* handler.                                                                *)
getEmptyFS(j, q, H) ==
    \E f \in pool :
        /\ pool' = pool \ {f} /\ handler' = [handler EXCEPT ![f] = H] /\ Step(j, [q EXCEPT !.fs = {f}])

(* NewFileSystem: the handler of the user's own policy.                    *)
NewFileSystem(j, q) == job[j].pc = "idle" /\ ~slaveMode /\ getEmptyFS(j, q, {"user"})

(* NewAnonymousFileSystem: no handler on the master, the local one on a    *)
(* slave.                                                                  *)
NewAnonymousFileSystem(j, q) ==
    job[j].pc = "idle" /\ getEmptyFS(j, q, IF slaveMode THEN {"local"} ELSE {})

(* NewFileSystemFromContext: a visitor has no user.                        *)
NewFileSystemFromContext(j, q) == NewFileSystem(j, q) \/ (~slaveMode /\ NewAnonymousFileSystem(j, q))

CleanTargetsNot(ts) == ts

CleanTargets(ts) == <<>>

(* Recycle, deferred by the handlers: reset the object and put it back.    *)
Recycle(j) ==
    /\ pool' = pool \cup job[j].fs /\ target' = [target EXCEPT ![FSOf(j)] = CleanTargets(@)]
    /\ handler' = [handler EXCEPT ![FSOf(j)] = {}]
    /\ Step(j, NoJob)

(* A request for d begins.                                                 *)
Asks(j, k, d) ==
    LET q == [NoJob EXCEPT !.pc = "target", !.kind = k, !.doc = {d}] IN
    /\ IF k \in ByID THEN NewFileSystemFromContext(j, q) ELSE ~slaveMode /\ NewAnonymousFileSystem(j, q)
    /\ UNCHANGED <<target, sessions>>

-----------------------------------------------------------------------------
(* The target and its handler.                                             *)

(* SetTargetFile sets the target of a clean object, and else appends.      *)
SetTargetFile(f, d) ==
    [target EXCEPT ![f] = IF @ = <<>> THEN <<d>> ELSE Append(@, d)]

(* The file of a share, whose row the middleware has loaded.               *)
SetTargetShared(j) ==
    LET q == job[j] IN
    /\ q.pc = "target" /\ q.kind = "preview" /\ q.doc \subseteq docs
    /\ target' = SetTargetFile(FSOf(j), The(q.doc)) /\ Step(j, [q EXCEPT !.pc = "set"])
    /\ UNCHANGED <<pool, handler, sessions>>

(* SetTargetFileByIDs: files by identifier, of any user.                   *)
SetTargetFileByIDs(j) ==
    LET q == job[j] IN
    /\ q.pc = "target" /\ q.kind \in ByIDs
    /\ \/ /\ q.doc \subseteq docs /\ target' = SetTargetFile(FSOf(j), The(q.doc))
          /\ Step(j, [q EXCEPT !.pc = "set"]) /\ UNCHANGED <<pool, handler>>
       \/ ~(q.doc \subseteq docs) /\ Recycle(j)
    /\ UNCHANGED sessions

(* DispatchHandler, after fs.Policy became that of d: its driver.          *)
DispatchHandler(f, d) == [handler EXCEPT ![f] = {d}]

(* resetPolicyToFirstFile: the handler of the policy of the first file of  *)
(* the target; a slave keeps its local handler.                            *)
resetPolicyToFirstFile(f, ts) == IF slaveMode THEN handler ELSE DispatchHandler(f, ts[1])

(* The object is looked up only if no target is set.                       *)
Looks(j) ==
    LET q == job[j]
        f == FSOf(j)
    IN
    /\ \/ /\ target[f] # <<>> \/ q.doc \subseteq docs
          /\ target' = IF target[f] = <<>> THEN [target EXCEPT ![f] = <<The(q.doc)>>] ELSE target
          /\ handler' = resetPolicyToFirstFile(f, target'[f])
          /\ Step(j, [q EXCEPT !.pc = "open"]) /\ UNCHANGED pool
       \/ target[f] = <<>> /\ ~(q.doc \subseteq docs) /\ Recycle(j)
    /\ UNCHANGED sessions

(* resetFileIDIfNotExist: by identifier.                                   *)
resetFileIDIfNotExist(j) ==
    /\ \/ job[j].pc = "target" /\ job[j].kind \in ByID
       \/ job[j].pc = "set" /\ job[j].kind \in {"preview", "get", "download"}
    /\ Looks(j)

(* ResetFileIfNotExist: by path below the root of a shared folder.         *)
ResetFileIfNotExist(j) == job[j].pc = "target" /\ job[j].kind = "preview" /\ Looks(j)

(* SignURL: the target is the file, the handler that of its policy.        *)
SignURL(j) ==
    LET q == job[j] IN
    /\ q.pc = "set" /\ q.kind = "source"
    /\ target' = [target EXCEPT ![FSOf(j)] = <<@[1]>>]
    /\ handler' = resetPolicyToFirstFile(FSOf(j), target'[FSOf(j)])
    /\ Step(j, [q EXCEPT !.pc = "open"])
    /\ UNCHANGED <<pool, sessions>>

-----------------------------------------------------------------------------
(* What a request does with its target: the first file of the list.        *)

(* GetContent opens the stored content, which a Delete may have removed.   *)
GetContent(j) == target[FSOf(j)][1] \in docs

(* The answer is sent, and the object goes back.                           *)
Sends(j, k) == job[j].pc = "open" /\ job[j].kind = k /\ Recycle(j) /\ UNCHANGED sessions

(* Preview: the content, a redirection to a signed address, or an error    *)
(* (a text that is too long, content that cannot be opened).               *)
Preview(j) == Sends(j, "preview")

PreviewContent(j) == Preview(j)

(* handleGetHeadPost (WebDAV): by path; the target is set before Preview.  *)
handleGetHeadPost(j, d) ==
    /\ d \in docs /\ NewFileSystem(j, [NoJob EXCEPT !.pc = "set", !.kind = "preview", !.doc = {d}])
    /\ target' = SetTargetFile(The(job'[j].fs), d)
    /\ UNCHANGED sessions

(* GetThumb: the thumbnail beside the content, made anew if it is missing. *)
GetThumb(j) == Sends(j, "preview")

(* The anonymous Download of a signed address.                             *)
AnonymousDownload(j) == Sends(j, "get")

(* The anonymous Source: a redirection to a signed address.                *)
Source(j) == Sends(j, "source")

(* ServeFile: a slave builds the row of its target from the address.       *)
ServeFile(j, d) ==
    /\ slaveMode /\ NewAnonymousFileSystem(j, [NoJob EXCEPT !.pc = "set", !.kind = "get", !.doc = {d}])
    /\ target' = [target EXCEPT ![The(job'[j].fs)] = <<d>>]
    /\ UNCHANGED sessions

(* The slave's Thumb, in the same way.                                     *)
SlaveThumb(j, d) ==
    /\ slaveMode /\ NewAnonymousFileSystem(j, [NoJob EXCEPT !.pc = "set", !.kind = "preview", !.doc = {d}])
    /\ target' = [target EXCEPT ![The(job'[j].fs)] = <<d>>]
    /\ UNCHANGED sessions

(* Source of the local driver, for a download: the row under a new ticket. *)
LocalSource(j, t) == [ticket EXCEPT ![t] = {target[FSOf(j)][1]}]

(* GetDownloadURL: the address that the driver's Source makes.             *)
GetDownloadURL(j, t) ==
    /\ job[j].pc = "open" /\ job[j].kind = "session"
    /\ ticket[t] = {} /\ onceServed[t] = 0 /\ \A k \in Jobs : job[k].ticket # {t}
    /\ ticket' = LocalSource(j, t)
    /\ Recycle(j)
    /\ UNCHANGED <<slaveMode, docs, archive, sourceLinks, onceServed, racedTickets, racedLinks>>

CreateDownloadSession(j, t) == GetDownloadURL(j, t)

(* CreateDocPreviewSession: the address is handed to a document viewer.    *)
CreateDocPreviewSession(j, t) == GetDownloadURL(j, t)

(* DownloadService.Download: look the ticket up, open the file, drop the   *)
(* ticket if the user's group has one-time downloads, send the content.    *)
Download(j, t, once) ==
    /\ \E d \in ticket[t] :
        /\ NewFileSystemFromContext(j, [NoJob EXCEPT !.pc = "set", !.kind = "download", !.doc = {d},
                                                     !.ticket = {t}, !.once = once])
        /\ target' = [target EXCEPT ![The(job'[j].fs)] = <<d>>]
    /\ racedTickets' = IF \E k \in Jobs : job[k].ticket = {t} THEN racedTickets \cup {t} ELSE racedTickets
    /\ UNCHANGED <<slaveMode, docs, ticket, archive, sourceLinks, onceServed, racedLinks>>

DropTicket(j) == IF job[j].once THEN [t \in Tickets |-> IF {t} = job[j].ticket THEN {} ELSE ticket[t]]
                 ELSE ticket

DownloadOpens(j) ==
    /\ job[j].pc = "open" /\ job[j].kind = "download"
    /\ \/ /\ GetContent(j) /\ ticket' = DropTicket(j) /\ Recycle(j)
          /\ onceServed' = [t \in Tickets |->
                onceServed[t] + IF {t} = job[j].ticket /\ job[j].once THEN 1 ELSE 0]
       \/ ~GetContent(j) /\ Recycle(j) /\ UNCHANGED <<ticket, onceServed>>
    /\ UNCHANGED <<slaveMode, docs, archive, sourceLinks, racedTickets, racedLinks>>

TicketExpires(t) ==
    /\ ticket[t] # {} /\ ticket' = [ticket EXCEPT ![t] = {}]
    /\ UNCHANGED <<slaveMode, pool, target, handler, docs, archive, sourceLinks, job,
                   onceServed, racedTickets, racedLinks>>

-----------------------------------------------------------------------------
(* Archives on the fly.                                                    *)

(* Archive keeps the items and the user under a new identifier; it expires *)
(* the key set first, first.                                               *)
Archive(j) ==
    /\ job[j].pc = "idle" /\ ~slaveMode /\ archive = {}
    /\ archive' = {"items", "user"}
    /\ UNCHANGED <<slaveMode, pool, target, handler, docs, ticket, sourceLinks, job,
                   onceServed, racedTickets, racedLinks>>

ArchiveExpires ==
    /\ archive # {} /\ archive' = IF "items" \in archive THEN {"user"} ELSE {}
    /\ UNCHANGED <<slaveMode, pool, target, handler, docs, ticket, sourceLinks, job,
                   onceServed, racedTickets, racedLinks>>

(* DownloadArchived: the user's key, then the items'.                      *)
DownloadArchived(j) ==
    /\ "user" \in archive /\ NewFileSystem(j, [NoJob EXCEPT !.pc = "items", !.kind = "archive"])
    /\ UNCHANGED <<target, sessions>>

ArchiveItems(j) ==
    /\ job[j].pc = "items"
    /\ \/ /\ "items" \in archive /\ Step(j, [job[j] EXCEPT !.pc = "zip"])
          /\ UNCHANGED <<pool, target, handler>>
       \/ "items" \notin archive /\ Recycle(j)
    /\ UNCHANGED sessions

(* doCompress: the handler of each file's policy in turn; a file that      *)
(* cannot be opened is left out.                                           *)
doCompress(j, d) ==
    /\ job[j].pc = "zip" /\ job[j].doc = {} /\ d \in docs
    /\ handler' = DispatchHandler(FSOf(j), d)
    /\ Step(j, [job[j] EXCEPT !.doc = {d}])
    /\ UNCHANGED <<pool, target, sessions>>

Compressed(j) ==
    /\ job[j].pc = "zip"
    /\ \/ Recycle(j)
       \/ job[j].doc # {} /\ Step(j, [job[j] EXCEPT !.doc = {}]) /\ UNCHANGED <<pool, target, handler>>
    /\ UNCHANGED sessions

-----------------------------------------------------------------------------
(* Source links.                                                           *)

(* Sources, in a group with redirected links: look for a row of the file.  *)
Sources(j, d) ==
    /\ d \in docs
    /\ NewFileSystem(j, [NoJob EXCEPT !.pc = "link", !.kind = "sources", !.doc = {d}])
    /\ UNCHANGED <<target, sessions>>

LinkFound(d) == sourceLinks[d] > 0

(* CreateOrGetSourceLink: query, and insert if there is none.              *)
CreateOrGetSourceLink(j) ==
    LET d == The(job[j].doc) IN
    /\ job[j].pc = "link"
    /\ \/ LinkFound(d) /\ Recycle(j) /\ UNCHANGED racedLinks
       \/ /\ ~LinkFound(d) /\ Step(j, [job[j] EXCEPT !.pc = "insert"])
          /\ racedLinks' = IF \E k \in Jobs : job[k].pc = "insert" /\ job[k].doc = {d}
                           THEN racedLinks \cup {d} ELSE racedLinks
          /\ UNCHANGED <<pool, target, handler>>
    /\ UNCHANGED <<slaveMode, docs, ticket, archive, sourceLinks, onceServed, racedTickets>>

InsertSourceLink(j) ==
    LET d == The(job[j].doc) IN
    /\ job[j].pc = "insert" /\ sourceLinks[d] < MaxSourceLinks
    /\ sourceLinks' = [sourceLinks EXCEPT ![d] = @ + 1]
    /\ Recycle(j)
    /\ UNCHANGED <<slaveMode, docs, ticket, archive, onceServed, racedTickets, racedLinks>>

(* ValidateSourceLink: a link of a file that exists is followed (the       *)
(* link's counter is left out).                                            *)
ValidateSourceLink(j, d) == LinkFound(d) /\ d \in docs /\ Asks(j, "source", d)

(* FileSystem.Delete of the file; its source links stay.                   *)
DocDeleted(d) ==
    /\ d \in docs /\ docs' = docs \ {d}
    /\ UNCHANGED <<slaveMode, pool, target, handler, ticket, archive, sourceLinks, job,
                   onceServed, racedTickets, racedLinks>>

FileRequestsNext ==
    \/ \E j \in Jobs :
        \/ \E d \in Docs :
            \/ \E k \in ByID \cup {"get"} : Asks(j, k, d)
            \/ ServeFile(j, d) \/ SlaveThumb(j, d) \/ handleGetHeadPost(j, d)
            \/ Sources(j, d) \/ ValidateSourceLink(j, d) \/ doCompress(j, d)
        \/ \E t \in Tickets :
            \/ CreateDownloadSession(j, t) \/ CreateDocPreviewSession(j, t)
            \/ \E b \in BOOLEAN : Download(j, t, b)
        \/ SetTargetShared(j) \/ SetTargetFileByIDs(j)
        \/ resetFileIDIfNotExist(j) \/ ResetFileIfNotExist(j) \/ SignURL(j)
        \/ PreviewContent(j) \/ GetThumb(j) \/ AnonymousDownload(j) \/ Source(j)
        \/ DownloadOpens(j) \/ CreateOrGetSourceLink(j) \/ InsertSourceLink(j)
        \/ Archive(j) \/ DownloadArchived(j) \/ ArchiveItems(j) \/ Compressed(j)
    \/ \E d \in Docs : DocDeleted(d)
    \/ \E t \in Tickets : TicketExpires(t)
    \/ ArchiveExpires

FileRequestsSpec == FileRequestsInit /\ [][FileRequestsNext]_fileRequestVars

-----------------------------------------------------------------------------
(* A request serves the file it asked for, and never one that an earlier   *)
(* user of its FileSystem object left behind, through the driver of that   *)
(* file's policy (FileSystem.reset, CleanTargets, SetTargetFile,           *)
(* resetFileIDIfNotExist, resetPolicyToFirstFile).                         *)
ServesOwnTarget ==
    \A j \in Jobs : job[j].pc = "open" =>
        /\ {target[FSOf(j)][1]} = job[j].doc
        /\ handler[FSOf(j)] = IF slaveMode THEN {"local"} ELSE job[j].doc

(* A one-time ticket is served once, unless a second download looked it up *)
(* before the first had dropped it (DownloadService.Download).             *)
OneTimeOnce == \A t \in Tickets : onceServed[t] > 1 => t \in racedTickets

(* A file has one source link, unless two requests looked for one at the   *)
(* same time (File.CreateOrGetSourceLink).                                 *)
OneLinkPerFile == \A d \in Docs : sourceLinks[d] > 1 => d \in racedLinks

(* What requests that share FileSystem objects, tickets and links keep:    *)
(* each serves its own target, once where it is meant to be once.          *)
FileRequestsInv ==
    /\ FileRequestsTypeOK /\ ServesOwnTarget /\ OneTimeOnce
    /\ OneLinkPerFile
=============================================================================
