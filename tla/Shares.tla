------------------------------- MODULE Shares -------------------------------
(***************************************************************************)
(* Share links: their rows, the visits that use them, and the deletion of  *)
(* what they point to.                                                     *)
(*                                                                         *)
(* A visit runs through the middlewares of its route.  ShareAvailable      *)
(* loads the row; everything after it works on that snapshot.  A route     *)
(* that downloads pays once per visitor: DownloadBy looks for the key      *)
(* share_<link>_<visitor> (in the cache for users, in the session for      *)
(* anonymous visitors), writes the snapshot's counters, and sets the key.  *)
(* Nothing of this is under a lock or in a transaction.                    *)
(*                                                                         *)
(* gorm is taken to write the named columns of the share only.  The expiry *)
(* of a link, a ban of its owner and the column preview_enabled only       *)
(* refuse visits, and a refused visit changes nothing.  The counter of     *)
(* views is left out.                                                      *)
(***************************************************************************)
EXTENDS Integers, FiniteSets

CONSTANTS
    Links,          \* identifiers of share rows; never used twice
    Objects,        \* files and folders of the owner
    Visitors,       \* users and anonymous sessions
    Visits,         \* requests
    Passwords, NoPassword,
    Limits,         \* the download limits that a link is created with
    MaxGrants       \* bound: no visit starts after so many paid downloads of a link

ASSUME SharesAssumption ==
    /\ Limits \subseteq Nat \ {0} /\ MaxGrants \in Nat /\ NoPassword \notin Passwords

VARIABLES
    link,       \* the rows
    source,     \* the objects that exist
    deleting,   \* objects whose Delete has removed the record and not yet the links
    paidKey,    \* the keys share_<link>_<visitor>
    unlockKey,  \* the keys share_unlock_<link> of the visitors' sessions
    visit,
    granted,    \* history: paid downloads of each link
    payers,     \* history: who paid for which link
    lostWrites  \* history: counters written from a snapshot that was not current

shareHistory == <<granted, payers, lostWrites>>
shareVars ==
    <<link, source, deleting, paidKey, unlockKey, visit, shareHistory>>
shareRest == <<source, deleting, paidKey, unlockKey>>

Unlimited == -1
NoLink == [st |-> "unused", src |-> "", pwd |-> NoPassword, limit |-> Unlimited,
           remain |-> Unlimited, downloads |-> 0, late |-> FALSE]
NoVisit == [pc |-> "idle", route |-> "none", link |-> "", who |-> "", snap |-> NoLink]
Src(q) == [NoLink EXCEPT !.src = q.src]
Live(l) == link[l].st = "live"

(* A visit to download, preview, doc, content or archive pays; one to      *)
(* list, search, readme or thumb does not.                                 *)
Routes == {"pays", "free"}

(* The types of the variables.                                             *)
ShareTypeOK ==
    /\ \A l \in Links : Live(l) =>
        /\ link[l].src \in Objects /\ link[l].pwd \in Passwords \cup {NoPassword}
        /\ link[l].remain \in 0 .. link[l].limit \/ link[l].remain = Unlimited
        /\ link[l].downloads \in Nat
    /\ source \subseteq Objects /\ deleting \subseteq Objects \ source
    /\ paidKey \subseteq Links \X Visitors /\ unlockKey \subseteq Links \X Visitors
    /\ \A v \in Visits : visit[v].pc \in {"idle", "loaded", "pay", "mark", "serve", "create", "update"}

SharesInit ==
    /\ link = [l \in Links |-> NoLink]
    /\ source = Objects /\ deleting = {}
    /\ paidKey = {} /\ unlockKey = {}
    /\ visit = [v \in Visits |-> NoVisit]
    /\ granted = [l \in Links |-> 0] /\ payers = {} /\ lostWrites = [l \in Links |-> 0]

-----------------------------------------------------------------------------
(* The row and its owner.                                                  *)

Goes(v, q) == visit' = [visit EXCEPT ![v] = q]
VisitEnds(v) == Goes(v, NoVisit)

(* ShareCreateService.Create: look the object up, then insert the row.  A  *)
(* link without a download limit has no expiry either.  Bound: one Create  *)
(* at a time, while there are identifiers left.                            *)
ShareCreate(v, o, p, n) ==
    /\ visit[v].pc = "idle" /\ o \in source
    /\ \A u \in Visits : visit[u].pc # "create"
    /\ \E l \in Links : link[l].st = "unused"
    /\ Goes(v, [NoVisit EXCEPT !.pc = "create",
            !.snap = [NoLink EXCEPT !.st = "live", !.src = o, !.pwd = p, !.limit = n,
                                    !.remain = n]])
    /\ UNCHANGED <<link, shareRest, shareHistory>>

InsertShare(v, l) ==
    /\ visit[v].pc = "create" /\ link[l].st = "unused" /\ VisitEnds(v)
    /\ link' = [link EXCEPT ![l] = [visit[v].snap EXCEPT !.late = visit[v].snap.src \notin source]]
    /\ UNCHANGED <<shareRest, shareHistory>>

SourceExists(q) == q.src \in source

(* IsAvailable of a loaded row, if the link has not expired and its owner  *)
(* is active.                                                              *)
IsAvailable(q) == q.remain # 0 /\ SourceExists(q)

CheckShareUnlocked(l, w) == link[l].pwd = NoPassword \/ <<l, w>> \in unlockKey

(* GetShareByHashID, IsAvailable and the checks of the route; a visit that *)
(* fails them ends.                                                        *)
ShareAvailable(v, l, w, r) ==
    /\ visit[v].pc = "idle" /\ Live(l) /\ IsAvailable(link[l]) /\ granted[l] < MaxGrants
    /\ CheckShareUnlocked(l, w)
    /\ Goes(v, [pc |-> "loaded", route |-> r, link |-> l, who |-> w,
                snap |-> [link[l] EXCEPT !.pwd = NoPassword]])
    /\ UNCHANGED <<link, shareRest, shareHistory>>

(* ShareOwner: the owner's own update is admitted like a visit.            *)
ShareOwner(v, l) ==
    /\ visit[v].pc = "idle" /\ Live(l) /\ IsAvailable(link[l])
    /\ Goes(v, [NoVisit EXCEPT !.pc = "update", !.link = l])
    /\ UNCHANGED <<link, shareRest, shareHistory>>

(* ShareUpdateService.Update: one column (here the password) of the row,   *)
(* if it is still there.                                                   *)
ShareUpdate(v, p) ==
    /\ visit[v].pc = "update" /\ VisitEnds(v)
    /\ LET l == visit[v].link IN
        link' = IF Live(l) THEN [link EXCEPT ![l].pwd = p] ELSE link
    /\ UNCHANGED <<shareRest, shareHistory>>

(* Service.Delete by the owner, or ShareBatchService.Delete by an          *)
(* administrator.                                                          *)
ShareDelete(l) ==
    /\ Live(l) /\ link' = [link EXCEPT ![l] = [NoLink EXCEPT !.st = "deleted"]]
    /\ UNCHANGED <<shareRest, visit, shareHistory>>

(* FileSystem.Delete of an object: its record first, the links to it after.*)
DeleteSource(o) ==
    /\ o \in source /\ source' = source \ {o} /\ deleting' = deleting \cup {o}
    /\ UNCHANGED <<link, paidKey, unlockKey, visit, shareHistory>>

LinksTo(o) == {l \in Links : Live(l) /\ link[l].src = o}

DeleteShareBySourceIDs(o) ==
    /\ o \in deleting /\ deleting' = deleting \ {o}
    /\ link' = [l \in Links |-> IF l \in LinksTo(o) THEN [NoLink EXCEPT !.st = "deleted"] ELSE link[l]]
    /\ UNCHANGED <<source, paidKey, unlockKey, visit, shareHistory>>

-----------------------------------------------------------------------------
(* A visit.                                                                *)

(* ShareGetService.Get: a right password unlocks the link for the session. *)
GetShare(v, l, w, p) ==
    /\ visit[v].pc = "idle" /\ Live(l) /\ IsAvailable(link[l])
    /\ link[l].pwd # NoPassword /\ <<l, w>> \notin unlockKey /\ p = link[l].pwd
    /\ unlockKey' = unlockKey \cup {<<l, w>>}
    /\ UNCHANGED <<link, source, deleting, paidKey, visit, shareHistory>>

WasDownloadedBy(q) == <<q.link, q.who>> \in paidKey

(* CanBeDownloadBy is a setting of the visitor's group: a paying route may *)
(* be refused.                                                             *)
BeforeShareDownload(v) ==
    /\ visit[v].pc = "loaded"
    /\ LET q == visit[v]
           pays == q.route = "pays"
       IN  \/ pays /\ ~WasDownloadedBy(q) /\ Goes(v, [q EXCEPT !.pc = "pay"])
           \/ (pays => WasDownloadedBy(q)) /\ Goes(v, [q EXCEPT !.pc = "serve", !.snap = Src(q.snap)])
           \/ pays /\ VisitEnds(v)
    /\ UNCHANGED <<link, shareRest, shareHistory>>

(* Share.Downloaded: the snapshot's counters, moved by one, are written.   *)
CountersUncounted(q) ==
    [downloads |-> q.downloads, remain |-> IF q.remain > 0 THEN q.remain - 1 ELSE q.remain]

Counters(q) ==
    [downloads |-> q.downloads + 1, remain |-> IF q.remain > 0 THEN q.remain - 1 ELSE q.remain]

Downloaded(v) ==
    LET q == visit[v]
        l == q.link
        c == Counters(q.snap)
    IN  /\ q.pc = "pay" /\ Goes(v, [q EXCEPT !.pc = "mark", !.snap = Src(q.snap)])
        /\ link' = IF Live(l) THEN [link EXCEPT ![l].downloads = c.downloads, ![l].remain = c.remain]
                   ELSE link
        /\ granted' = [granted EXCEPT ![l] = @ + 1]
        /\ payers' = payers \cup {<<l, q.who>>}
        /\ lostWrites' = [lostWrites EXCEPT ![l] =
                @ + IF Live(l) /\ link[l].downloads # q.snap.downloads THEN 1 ELSE 0]
        /\ UNCHANGED shareRest

DownloadBy(v) ==
    /\ visit[v].pc = "mark" /\ Goes(v, [visit[v] EXCEPT !.pc = "serve"])
    /\ paidKey' = paidKey \cup {<<visit[v].link, visit[v].who>>}
    /\ UNCHANGED <<link, source, deleting, unlockKey, shareHistory>>

(* The services behind the routes.  They read the file system and change   *)
(* nothing here: whether they answer or refuse (a path below a shared      *)
(* folder that does not exist, a service of folders for a link to a file), *)
(* the visit ends, and a paid download stays paid.                         *)

Answers(v, r) ==
    /\ visit[v].pc = "serve" /\ visit[v].route = r /\ VisitEnds(v)
    /\ UNCHANGED <<link, shareRest, shareHistory>>

ShareDownloadSession(v) == Answers(v, "pays")
SharePreviewContent(v) == \E r \in Routes : Answers(v, r)
ShareDocPreview(v) == Answers(v, "pays")
ListSharedFolder(v) == Answers(v, "free")
ShareThumb(v) == Answers(v, "free")
ArchiveShare(v) == Answers(v, "pays")
SearchSharedFolder(v) == Answers(v, "free")

-----------------------------------------------------------------------------
(* What happens around the visits.                                         *)

Forget(l, w) ==
    /\ <<l, w>> \in paidKey /\ paidKey' = paidKey \ {<<l, w>>}
    /\ UNCHANGED <<link, source, deleting, unlockKey, visit, shareHistory>>

SharesNext ==
    \/ \E v \in Visits :
        \/ \E o \in Objects, p \in Passwords \cup {NoPassword}, n \in Limits \cup {Unlimited} :
            ShareCreate(v, o, p, n)
        \/ \E l \in Links : InsertShare(v, l) \/ ShareOwner(v, l)
        \/ \E l \in Links, w \in Visitors :
            \/ \E r \in Routes : ShareAvailable(v, l, w, r)
            \/ \E p \in Passwords : GetShare(v, l, w, p)
            \/ Forget(l, w)
        \/ \E p \in Passwords \cup {NoPassword} : ShareUpdate(v, p)
        \/ BeforeShareDownload(v) \/ Downloaded(v) \/ DownloadBy(v)
        \/ ShareDownloadSession(v) \/ SharePreviewContent(v) \/ ShareDocPreview(v) \/ ListSharedFolder(v)
        \/ ShareThumb(v) \/ ArchiveShare(v) \/ SearchSharedFolder(v)
    \/ \E l \in Links : ShareDelete(l)
    \/ \E o \in Objects : DeleteSource(o) \/ DeleteShareBySourceIDs(o)

SharesSpec == SharesInit /\ [][SharesNext]_shareVars

-----------------------------------------------------------------------------
(* While no visit writes counters that another visit has moved since it    *)
(* loaded the row, the row tells the truth: every paid download is counted *)
(* and taken off the limit, whatever the owner changes meanwhile           *)
(* (Share.Downloaded, ShareUpdateService.Update).                          *)
DownloadsAccounted ==
    \A l \in Links : Live(l) /\ lostWrites[l] = 0 =>
        /\ link[l].downloads = granted[l]
        /\ link[l].limit # Unlimited => link[l].remain = link[l].limit - granted[l]

(* Overlapping visits exceed a limit, but every write from an old snapshot *)
(* can give back no more than the whole limit once (IsAvailable,           *)
(* Share.Downloaded).                                                      *)
OvershootBounded ==
    \A l \in Links : Live(l) /\ link[l].limit # Unlimited =>
        granted[l] + link[l].remain <= link[l].limit * (1 + lostWrites[l])

(* A visitor that a paying route serves has paid for this link itself, in  *)
(* this visit or an earlier one (WasDownloadedBy, DownloadBy).             *)
ServedHasPaid ==
    \A v \in Visits : visit[v].pc = "serve" /\ visit[v].route = "pays" =>
        <<visit[v].link, visit[v].who>> \in payers

(* A link outlives its object only while the Delete of the object is still *)
(* running, or when Create had looked the object up before it went         *)
(* (FileSystem.Delete, DeleteShareBySourceIDs, ShareCreateService.Create). *)
LinkHasSource ==
    \A l \in Links : Live(l) /\ link[l].src \notin source => link[l].src \in deleting \/ link[l].late

(* What overlapping visits keep although each works on a snapshot of the   *)
(* share: its counters, its payments and its source (middleware/share.go). *)
SharesInv ==
    /\ ShareTypeOK /\ OvershootBounded /\ DownloadsAccounted
    /\ ServedHasPaid /\ LinkHasSource
=============================================================================
