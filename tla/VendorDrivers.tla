---------------------------- MODULE VendorDrivers ----------------------------
(***************************************************************************)
(* The storage drivers behind driver.Handler: List, Put, Delete and the    *)
(* links that Source, Thumb and Get work with, over one bucket.  One       *)
(* listing, one upload and one deletion may overlap; a vendor's reply can  *)
(* be an error or get lost.  Keys are numbered in the order in which the   *)
(* vendor lists them.                                                      *)
(***************************************************************************)
EXTENDS Integers, Sequences, FiniteSets, FiniteSetsExt, SequencesExt

CONSTANTS
    Drivers,        \* the kinds of driver to explore
    MaxKey,         \* number of keys of the bucket
    DirOf,          \* key -> first key of the directory it lies in, itself at the top
    PageSize,       \* entries the vendor returns at once (1000)
    GroupSize,      \* files OneDrive deletes at once (20)
    Routines,       \* goroutines of the Upyun driver's Delete (1 .. 4)
    Speeds,         \* speed limits of groups, 0 for none
    MinLimit, MaxLimit, \* the vendors' range (819200 .. 838860800)
    LinkTTL,        \* lifetime asked for a link
    CacheTTL,       \* onedrive_source_timeout
    VendorLinkLife, \* lifetime of a OneDrive download URL
    MaxNow,         \* bound: clock
    MaxVersion,     \* bound: uploads
    MaxOverlap,     \* bound: operations under way at once
    MaxReplyFaults  \* bound: requests that fail for good, or whose reply is lost

Keys == 1 .. MaxKey
Forever == -1

ASSUME VendorAssumption ==
    /\ MaxKey \in Nat /\ DirOf \in [Keys -> Keys]
    /\ PageSize \in Nat \ {0} /\ GroupSize \in Nat \ {0}
    /\ CacheTTL \in Nat /\ VendorLinkLife \in Nat /\ CacheTTL < VendorLinkLife
    /\ LinkTTL \in Nat \ {0} /\ Speeds \subseteq Nat
    /\ MinLimit \in Nat \ {0} /\ MaxLimit \in Nat /\ MinLimit <= MaxLimit
    /\ Drivers \subseteq {"oss", "cos", "s3", "qiniu", "upyun", "onedrive", "remote", "local"}

VARIABLES
    kind, private,  \* the policy: its driver, and whether the bucket is private
    focus,          \* what this behaviour is about: links, or the objects
    objects,        \* key -> version stored, 0 for none
    fileRows,       \* keys that a file record refers to
    dying,          \* keys whose deletion Upyun has accepted and not yet done
    listing, putting, deleting,
    link,           \* the last link handed out
    sourceCache,    \* key -> cached OneDrive URL
    now, version, replyFaults

vendorVars == <<kind, private, focus, objects, fileRows, dying, listing, putting, deleting,
                link, sourceCache, now, version, replyFaults>>

Idle == [on |-> FALSE]
NoLink == [key |-> 0, signed |-> FALSE, until |-> 0, given |-> 0, limit |-> 0]

VendorInit ==
    /\ kind \in Drivers /\ focus \in {"links", "objects"}
    /\ private \in (IF focus = "links" THEN BOOLEAN ELSE {TRUE})
    /\ \E S \in {Keys, Keys \ {1}} : objects = [k \in Keys |-> IF k \in S THEN 1 ELSE 0] /\ fileRows = S
    /\ dying = {} /\ listing = Idle /\ putting = Idle /\ deleting = Idle
    /\ link = NoLink /\ sourceCache = [k \in Keys |-> NoLink]
    /\ now = 0 /\ version = 1 /\ replyFaults = 0

Running == Cardinality({o \in {<<1, listing.on>>, <<2, putting.on>>, <<3, deleting.on>>} : o[2]})
ReplyFails == replyFaults < MaxReplyFaults /\ replyFaults' = replyFaults + 1
Present(o) == {k \in Keys : o[k] # 0}

(* A listing under way notes which keys have been there all the time.      *)
Store(o) ==
    /\ objects' = o
    /\ listing' = IF listing.on THEN [listing EXCEPT !.steady = @ \cap Present(o)] ELSE listing

-----------------------------------------------------------------------------
(* List.                                                                   *)

Entry(k, recursive) == IF recursive THEN k ELSE DirOf[k]
Entries(recursive) == {Entry(k, recursive) : k \in Present(objects)}
Lowest(S, n) == {k \in S : Cardinality({j \in S : j < k}) < n}
Collect(got, S) == [k \in Keys |-> IF k \in S THEN got[k] + 1 ELSE got[k]]

List(recursive) ==
    /\ ~listing.on /\ Running < MaxOverlap
    /\ listing' = [on |-> TRUE, recursive |-> recursive, marker |-> 0, pages |-> 0, failed |-> FALSE,
                   done |-> FALSE, got |-> [k \in Keys |-> 0], steady |-> Present(objects), folders |-> {0}]
    /\ UNCHANGED <<objects, fileRows, dying, putting, deleting, link, sourceCache, now, version, replyFaults>>

(* The next request of a paged listing: the entries after a marker.        *)
NextPage(marker) ==
    /\ listing.on /\ ~listing.done
    /\ LET after == {k \in Entries(listing.recursive) : k > marker}
           page == Lowest(after, PageSize)
       IN  /\ listing.pages < MaxKey + 1
           /\ listing' = [listing EXCEPT !.got = Collect(@, page),
                                         !.pages = @ + 1,
                                         !.marker = IF page = {} THEN @ ELSE Max(page),
                                         !.done = (page = after)]
    /\ UNCHANGED <<objects, fileRows, dying, putting, deleting, link, sourceCache, now, version, replyFaults>>

ossList == kind = "oss" /\ NextPage(listing.marker)
s3List == kind = "s3" /\ NextPage(listing.marker)
qiniuList == kind = "qiniu" /\ NextPage(listing.marker)
(* The COS driver reads the marker but never puts it into its request.     *)
cosList == kind = "cos" /\ NextPage(0)

(* The other drivers take everything in one call: the SDK's channel of     *)
(* Upyun, the slave's reply, filepath.Walk on a local disk (which reports  *)
(* the directories as well, and leaves out those it cannot read).          *)
AllAtOnce ==
    /\ listing.on /\ ~listing.done
    /\ listing' = [listing EXCEPT !.got = Collect(@, Entries(listing.recursive)), !.done = TRUE]
    /\ UNCHANGED <<objects, fileRows, dying, putting, deleting, link, sourceCache, now, version, replyFaults>>
upyunList == kind = "upyun" /\ AllAtOnce
remoteList == kind = "remote" /\ AllAtOnce
localList == kind = "local" /\ AllAtOnce

ListFails ==
    /\ listing.on /\ ~listing.done /\ kind # "onedrive" /\ ReplyFails
    /\ listing' = [listing EXCEPT !.failed = TRUE, !.done = TRUE]
    /\ UNCHANGED <<objects, fileRows, dying, putting, deleting, link, sourceCache, now, version>>

(* OneDrive: one request for each folder, 0 standing for the top, the      *)
(* folders of the reply being listed in turn; a folder whose request fails *)
(* is tried again ListRetry times and then left out without an error.      *)
InFolder(d) == {k \in Present(objects) : IF d = 0 THEN DirOf[k] = k /\ ~\E j \in Keys : j # k /\ DirOf[j] = k
                                                  ELSE DirOf[k] = d}
Subfolders == {d \in Keys : \E j \in Keys : j # d /\ DirOf[j] = d /\ (objects[j] # 0 \/ objects[d] # 0)}
ListChildren(d) ==
    /\ kind = "onedrive" /\ listing.on /\ ~listing.done /\ d \in listing.folders
    /\ LET seen == IF d = 0 /\ ~listing.recursive THEN InFolder(d) \cup Subfolders ELSE InFolder(d)
           todo == (listing.folders \ {d}) \cup (IF d = 0 /\ listing.recursive THEN Subfolders ELSE {})
       IN  listing' = [listing EXCEPT !.got = Collect(@, seen), !.folders = todo, !.done = (todo = {})]
    /\ UNCHANGED <<objects, fileRows, dying, putting, deleting, link, sourceCache, now, version, replyFaults>>

ListChildrenFails(d) ==
    /\ kind = "onedrive" /\ listing.on /\ ~listing.done /\ d \in listing.folders
    /\ ReplyFails
    /\ listing' = [listing EXCEPT !.folders = @ \ {d}, !.failed = TRUE, !.done = (listing.folders = {d})]
    /\ UNCHANGED <<objects, fileRows, dying, putting, deleting, link, sourceCache, now, version>>

ListReturns ==
    /\ listing.on /\ listing.done /\ listing' = Idle
    /\ UNCHANGED <<objects, fileRows, dying, putting, deleting, link, sourceCache, now, version, replyFaults>>

-----------------------------------------------------------------------------
(* Put.  A large upload opens a session with the vendor, sends its chunks  *)
(* and completes the session; what happens when the key is taken meanwhile *)
(* depends on the conflict rule that the driver sends along.               *)

(* Does the vendor refuse the upload when the key is taken?  The drivers   *)
(* of OSS, Qiniu and OneDrive and the slave pass the Overwrite mode on;    *)
(* COS, Upyun and S3 write in any case.                                    *)
ossForbidOverWrite(overwrite) == ~overwrite
qiniuScopeIsBucket(overwrite) == ~overwrite
onedriveConflictFail(overwrite) == ~overwrite
remoteRefuses(overwrite) == ~overwrite
cosRefuses(overwrite) == FALSE
upyunRefuses(overwrite) == FALSE
s3Refuses(overwrite) == FALSE
Refuses(overwrite) ==
    CASE kind = "oss" -> ossForbidOverWrite(overwrite)
      [] kind = "qiniu" -> qiniuScopeIsBucket(overwrite)
      [] kind = "onedrive" -> onedriveConflictFail(overwrite)
      [] kind = "remote" -> remoteRefuses(overwrite)
      [] kind = "cos" -> cosRefuses(overwrite)
      [] kind = "upyun" -> upyunRefuses(overwrite)
      [] kind = "s3" -> s3Refuses(overwrite)
RefusingDrivers == {"oss", "qiniu", "onedrive", "remote"}
ChunkedPut == {"oss", "onedrive", "remote"}

Put(k, overwrite, large) ==
    /\ ~putting.on /\ Running < MaxOverlap /\ kind # "local" /\ version < MaxVersion
    /\ version' = version + 1
    /\ putting' = [on |-> TRUE, key |-> k, overwrite |-> overwrite, content |-> version',
                   stage |-> IF large /\ kind \in ChunkedPut THEN "session" ELSE "whole"]
    /\ UNCHANGED <<objects, fileRows, dying, listing, deleting, link, sourceCache, now, replyFaults>>

Taken == objects[putting.key] # 0
MutRefusedLater(overwrite) == FALSE
(* Asked again when the object is about to appear: the key may have been   *)
(* taken since the session was opened.                                     *)
RefusedAtEnd(overwrite) == Taken /\ Refuses(overwrite)

(* The object is written, in one request or by the one that completes the  *)
(* session, and its record appears; or the key is taken and the upload is  *)
(* refused.                                                                *)
PutObject ==
    /\ putting.on /\ putting.stage \in {"whole", "complete"}
    /\ putting' = Idle
    /\ \/ /\ RefusedAtEnd(putting.overwrite)
          /\ UNCHANGED <<objects, listing, fileRows, dying>>
       \/ /\ ~RefusedAtEnd(putting.overwrite)
          /\ Store([objects EXCEPT ![putting.key] = putting.content])
          /\ fileRows' = fileRows \cup {putting.key}
          /\ dying' = dying \ {putting.key}
    /\ UNCHANGED <<deleting, link, sourceCache, now, version, replyFaults>>

(* The session of a large upload, and its chunks: sent again after an      *)
(* error, and given up when an attempt too many fails.                     *)
InitiateMultipartUpload ==
    /\ putting.on /\ putting.stage = "session"
    /\ putting' = IF Taken /\ Refuses(putting.overwrite) THEN Idle ELSE [putting EXCEPT !.stage = "chunks"]
    /\ UNCHANGED <<objects, fileRows, dying, listing, deleting, link, sourceCache, now, version, replyFaults>>
UploadChunks ==
    /\ putting.on /\ putting.stage = "chunks"
    /\ putting' = [putting EXCEPT !.stage = "complete"]
    /\ UNCHANGED <<objects, fileRows, dying, listing, deleting, link, sourceCache, now, version, replyFaults>>

(* A failing request, before or after the vendor acted on it.              *)
PutFails ==
    /\ putting.on /\ ReplyFails
    /\ putting' = Idle
    /\ \/ UNCHANGED <<objects, listing, dying>>
       \/ /\ putting.stage \in {"whole", "complete"}
          /\ ~RefusedAtEnd(putting.overwrite)
          /\ Store([objects EXCEPT ![putting.key] = putting.content])
          /\ dying' = dying \ {putting.key}
    /\ UNCHANGED <<fileRows, deleting, link, sourceCache, now, version>>

(* Somebody else writes a key of the bucket.                               *)
OtherWrites(k) ==
    /\ version < MaxVersion /\ version' = version + 1 /\ objects[k] = 0
    /\ Store([objects EXCEPT ![k] = version'])
    /\ UNCHANGED <<fileRows, dying, putting, deleting, link, sourceCache, now, replyFaults>>

-----------------------------------------------------------------------------
(* Delete.  FileSystem.Delete drops the records of all files that are not  *)
(* in the list the driver returns, whatever error comes with it.           *)

Batches ==
    {files \in UNION {[1 .. n -> Keys] : n \in 1 .. MaxKey} :
        \A i, j \in DOMAIN files : i < j => files[i] < files[j]}

Delete(files) ==
    /\ ~deleting.on /\ Running < MaxOverlap /\ ToSet(files) \subseteq fileRows
    /\ deleting' = [on |-> TRUE, files |-> files, index |-> 1, failed |-> {}, done |-> FALSE,
                    at |-> [r \in Routines |-> 0], orphans |-> {}, was |-> objects]
    /\ UNCHANGED <<objects, fileRows, dying, listing, putting, link, sourceCache, now, version, replyFaults>>

(* What each driver reports as not deleted, of a request for F of which    *)
(* the vendor removed `gone'.                                              *)
ossDelete(F, gone, err) == IF err THEN F ELSE F \ gone
cosDelete(F, gone, err) == IF err THEN F ELSE F \ gone
(* The difference is taken from the empty list: nothing is ever reported.  *)
s3Delete(F, gone, err) == IF err THEN F ELSE {} \ gone
(* An error without a reply has no entries to look through.                *)
qiniuDelete(F, gone, err) == IF err THEN {} ELSE F \ gone
remoteDelete(F, gone, err) == IF err THEN F ELSE F \ gone
onedriveDelete(F, gone, err) == IF err THEN F ELSE F \ gone
localDelete(F, gone, err) == F \ gone
DeleteFailed(F, gone, err) ==
    CASE kind = "oss" -> ossDelete(F, gone, err)
      [] kind = "cos" -> cosDelete(F, gone, err)
      [] kind = "s3" -> s3Delete(F, gone, err)
      [] kind = "qiniu" -> qiniuDelete(F, gone, err)
      [] kind = "remote" -> remoteDelete(F, gone, err)
      [] kind = "onedrive" -> onedriveDelete(F, gone, err)
      [] kind = "local" -> localDelete(F, gone, err)

Without(S) == [k \in Keys |-> IF k \in S THEN 0 ELSE objects[k]]

(* The vendor removes all of F, or some of it, or the reply is lost.       *)
Request(F, gone, err) ==
    /\ Store(Without(gone))
    /\ IF gone = F /\ ~err THEN UNCHANGED replyFaults ELSE ReplyFails

DeleteAtOnce ==
    /\ deleting.on /\ ~deleting.done /\ kind \notin {"upyun", "onedrive"}
    /\ LET F == ToSet(deleting.files) IN
       \E gone \in SUBSET F, err \in BOOLEAN :
          /\ Request(F, gone, err)
          /\ deleting' = [deleting EXCEPT !.failed = DeleteFailed(F, gone, err), !.done = TRUE]
    /\ UNCHANGED <<fileRows, dying, putting, link, sourceCache, now, version>>

(* OneDrive deletes the files in groups.  There is one group more than     *)
(* full ones, which is empty when the last one is full.                    *)
MutGroupNum(n) == n \div GroupSize
GroupNum(n) == n \div GroupSize + 1
Group(i) == LET n == Len(deleting.files)
                last == IF i = GroupNum(n) THEN n ELSE GroupSize * i
            IN  {deleting.files[j] : j \in (GroupSize * (i - 1) + 1) .. last}
BatchDelete ==
    /\ deleting.on /\ ~deleting.done /\ kind = "onedrive"
    /\ \/ /\ deleting.index > GroupNum(Len(deleting.files))
          /\ deleting' = [deleting EXCEPT !.done = TRUE]
          /\ UNCHANGED <<objects, listing, replyFaults>>
       \/ /\ deleting.index <= GroupNum(Len(deleting.files))
          /\ LET F == Group(deleting.index) IN
             \E gone \in SUBSET F, err \in BOOLEAN :
                /\ Request(F, gone, err)
                /\ deleting' = [deleting EXCEPT !.index = @ + 1,
                                                !.failed = @ \cup DeleteFailed(F, gone, err)]
    /\ UNCHANGED <<fileRows, dying, putting, link, sourceCache, now, version>>

(* Upyun: the routines take the next file each under the index lock; an    *)
(* accepted deletion happens later.                                        *)
TakeFile(r) ==
    /\ kind = "upyun" /\ deleting.on /\ ~deleting.done /\ deleting.at[r] = 0
    /\ deleting.index <= Len(deleting.files)
    /\ deleting' = [deleting EXCEPT !.at = [@ EXCEPT ![r] = deleting.index], !.index = @ + 1]
    /\ UNCHANGED <<objects, fileRows, dying, listing, putting, link, sourceCache, now, version, replyFaults>>
DeleteFile(r) ==
    /\ kind = "upyun" /\ deleting.on /\ deleting.at[r] # 0
    /\ LET k == deleting.files[deleting.at[r]] IN
       \/ /\ dying' = dying \cup {k}
          /\ deleting' = [deleting EXCEPT !.at = [@ EXCEPT ![r] = 0]]
          /\ UNCHANGED replyFaults
       \/ /\ ReplyFails
          /\ deleting' = [deleting EXCEPT !.at = [@ EXCEPT ![r] = 0], !.failed = @ \cup {k}]
          /\ UNCHANGED dying
    /\ UNCHANGED <<objects, fileRows, listing, putting, link, sourceCache, now, version>>
RoutinesDone ==
    /\ kind = "upyun" /\ deleting.on /\ ~deleting.done
    /\ deleting.index > Len(deleting.files) /\ \A r \in Routines : deleting.at[r] = 0
    /\ deleting' = [deleting EXCEPT !.done = TRUE]
    /\ UNCHANGED <<objects, fileRows, dying, listing, putting, link, sourceCache, now, version, replyFaults>>
VendorDeletes(k) ==
    /\ k \in dying /\ dying' = dying \ {k} /\ Store(Without({k}))
    /\ UNCHANGED <<fileRows, putting, deleting, link, sourceCache, now, version, replyFaults>>

(* The records of what was not reported go; `orphans' remembers those      *)
(* whose object was there before and still is.                             *)
DropRows ==
    /\ deleting.on /\ deleting.done /\ deleting.orphans = {}
    /\ LET gone == ToSet(deleting.files) \ deleting.failed
           left == {k \in gone : objects[k] # 0 /\ objects[k] = deleting.was[k] /\ k \notin dying}
       IN  /\ fileRows' = fileRows \ gone
           /\ deleting' = IF left = {} THEN Idle ELSE [deleting EXCEPT !.orphans = left]
    /\ UNCHANGED <<objects, dying, listing, putting, link, sourceCache, now, version, replyFaults>>
ForgetOrphans ==
    /\ deleting.on /\ deleting.orphans # {} /\ deleting' = Idle
    /\ UNCHANGED <<objects, fileRows, dying, listing, putting, link, sourceCache, now, version, replyFaults>>

-----------------------------------------------------------------------------
(* Links.  A public bucket needs no signature; a slave's and the local     *)
(* driver's links are always signed, with no end when the lifetime is 0.   *)

Signed(ttl) == [signed |-> TRUE, until |-> now + ttl]
Plain == [signed |-> FALSE, until |-> Forever]
SignURI(ttl) == [signed |-> TRUE, until |-> IF ttl # 0 THEN now + ttl ELSE Forever]

ossSignSourceURL(ttl) == IF private THEN Signed(ttl) ELSE Plain
cosSignSourceURL(ttl) == IF private THEN Signed(ttl) ELSE Plain
qiniuSignSourceURL(ttl) == IF private THEN Signed(ttl) ELSE Plain
upyunSignURL(ttl) == IF private THEN Signed(ttl) ELSE Plain

(* Source adds the limit on the speed, 0 for none: kept in the range that  *)
(* the vendors accept, in bits for OSS; a slave limits the speed itself.   *)
InRange(speed) == IF speed = 0 THEN 0 ELSE Max({MinLimit, Min({speed, MaxLimit})})
With(l, limit) == [key |-> 0, signed |-> l.signed, until |-> l.until, given |-> now, limit |-> limit]
ossSource(ttl, speed) == With(ossSignSourceURL(ttl), IF private THEN InRange(8 * speed) ELSE 0)
cosSource(ttl, speed) == With(cosSignSourceURL(ttl), InRange(speed))
s3Source(ttl, speed) == With(IF private THEN Signed(ttl) ELSE Plain, 0)
qiniuSource(ttl, speed) == With(qiniuSignSourceURL(ttl), 0)
upyunSource(ttl, speed) == With(upyunSignURL(ttl), 0)
remoteSource(ttl, speed) == With(SignURI(ttl), 0)
localSource(ttl, speed) == With(SignURI(ttl), 0)
SourceLink(ttl, speed) ==
    CASE kind = "oss" -> ossSource(ttl, speed)     [] kind = "cos" -> cosSource(ttl, speed)
      [] kind = "s3" -> s3Source(ttl, speed)       [] kind = "qiniu" -> qiniuSource(ttl, speed)
      [] kind = "upyun" -> upyunSource(ttl, speed) [] kind = "remote" -> remoteSource(ttl, speed)
      [] kind = "local" -> localSource(ttl, speed)

HandOut(k, l) == link' = [l EXCEPT !.key = k]

Source(k, speed) ==
    /\ kind # "onedrive" /\ k \in fileRows /\ HandOut(k, SourceLink(LinkTTL, speed))
    /\ UNCHANGED <<objects, fileRows, dying, listing, putting, deleting, sourceCache, now, version, replyFaults>>

(* OneDrive: the download URL comes from the item's metadata and is kept   *)
(* for CacheTTL, less than the time for which the vendor honours it.       *)
CacheFor == CacheTTL
OneDriveSource(k) ==
    /\ kind = "onedrive" /\ k \in fileRows
    /\ IF sourceCache[k].key # 0 /\ sourceCache[k].given + CacheFor > now
       THEN link' = [sourceCache[k] EXCEPT !.given = now] /\ UNCHANGED sourceCache
       ELSE /\ objects[k] # 0
            /\ HandOut(k, With(Signed(VendorLinkLife), 0))
            /\ sourceCache' = [sourceCache EXCEPT ![k] = link']
    /\ UNCHANGED <<objects, fileRows, dying, listing, putting, deleting, now, version, replyFaults>>

(* Thumbnails: a link to the vendor's image processing, or the local file. *)
ossThumb == ossSignSourceURL(LinkTTL)
cosThumb == cosSignSourceURL(LinkTTL)
qiniuThumb == qiniuSignSourceURL(LinkTTL)
upyunThumb == upyunSignURL(LinkTTL)
remoteThumb == SignURI(LinkTTL)
onedriveThumb == Signed(VendorLinkLife)
Thumb(k) ==
    /\ kind \notin {"s3", "local"} /\ k \in fileRows
    /\ HandOut(k, With(CASE kind = "oss" -> ossThumb [] kind = "cos" -> cosThumb [] kind = "qiniu" -> qiniuThumb
                    [] kind = "upyun" -> upyunThumb [] kind = "remote" -> remoteThumb
                    [] kind = "onedrive" -> onedriveThumb, 0))
    /\ UNCHANGED <<objects, fileRows, dying, listing, putting, deleting, sourceCache, now, version, replyFaults>>

Clock ==
    /\ now < MaxNow /\ now' = now + 1
    /\ UNCHANGED <<objects, fileRows, dying, listing, putting, deleting, link, sourceCache, version, replyFaults>>

(* Links change nothing that the other operations look at, so a behaviour  *)
(* is about links or about the objects.                                    *)
VendorNext ==
    /\ UNCHANGED <<kind, private, focus>>
    /\ \/ /\ focus = "objects"
          /\ \/ \E b \in BOOLEAN : List(b)
             \/ ossList \/ s3List \/ qiniuList \/ cosList \/ upyunList \/ remoteList \/ localList \/ ListFails \/ ListReturns
             \/ \E d \in {0} \cup Keys : ListChildren(d) \/ ListChildrenFails(d)
             \/ \E k \in Keys, b, c \in BOOLEAN : Put(k, b, c)
             \/ PutObject \/ InitiateMultipartUpload \/ UploadChunks \/ PutFails
             \/ \E files \in Batches : Delete(files)
             \/ DeleteAtOnce \/ BatchDelete \/ RoutinesDone \/ DropRows \/ ForgetOrphans
             \/ \E r \in Routines : TakeFile(r) \/ DeleteFile(r)
             \/ \E k \in Keys : OtherWrites(k) \/ VendorDeletes(k)
       \/ /\ focus = "links"
          /\ \/ \E k \in Keys : OneDriveSource(k) \/ Thumb(k) \/ \E s \in Speeds : Source(k, s)
             \/ Clock

VendorSpec == VendorInit /\ [][VendorNext]_vendorVars

-----------------------------------------------------------------------------
(* A listing that ends without an error has every object that was there    *)
(* all along, exactly once, however the bucket changes between its pages.  *)
(* The COS driver promises this for one page only (it asks for the first   *)
(* page again and again), and a OneDrive folder that fails is left out.    *)
ListExact ==
    listing.on /\ listing.done /\ ~listing.failed /\ (kind = "cos" => listing.pages = 1) =>
        /\ \A k \in listing.steady : listing.got[Entry(k, listing.recursive)] = 1
        /\ \A k \in Keys : listing.got[k] <= 1

(* No record is dropped while its object stays: what a driver does not     *)
(* report as failed has been removed, for deletions in groups, in parallel *)
(* and with failing requests.  The drivers of S3 and Qiniu do not keep it. *)
NoOrphans == kind \notin {"s3", "qiniu"} /\ deleting.on => deleting.orphans = {}

(* An upload that may not overwrite never replaces an object, even one     *)
(* that appeared after its session was opened.                             *)
NeverClobbers ==
    [][\A k \in Keys : objects[k] # 0 /\ objects'[k] \notin {0, objects[k]} /\ kind \in RefusingDrivers
          => putting.on /\ putting.key = k /\ putting.overwrite]_vendorVars

(* A link works when it is handed out, and one to a private bucket is      *)
(* signed and ends, also when it comes from OneDrive's cache; a limit is   *)
(* one that the vendor accepts.                                            *)
LinkUsable ==
    link.key # 0 /\ link.given = now =>
        /\ link.until = Forever \/ link.until > now
        /\ private => link.signed /\ link.until # Forever
        /\ link.limit # 0 => link.limit \in MinLimit .. MaxLimit

(* What the drivers keep: listings are exact, no record is dropped while its *)
(* object stays, and links work (List, Delete, Source of every driver).    *)
VendorInv == ListExact /\ NoOrphans /\ LinkUsable
=============================================================================
