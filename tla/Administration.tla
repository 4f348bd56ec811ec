--------------------------- MODULE Administration ---------------------------
(***************************************************************************)
(* What refers to what: users to their group, groups and files to storage  *)
(* policies, files, tags and WebDAV accounts to users.  The database       *)
(* checks none of these references.  The administrator's deletions count   *)
(* the references first and delete afterwards, without a transaction, next *)
(* to requests that were admitted earlier and insert rows later.           *)
(*                                                                         *)
(* A policy is read through the cache, with a key that does not expire and *)
(* that whoever writes the row clears afterwards.                          *)
(*                                                                         *)
(* A row with late = TRUE was inserted or saved by a request that had read *)
(* before what it refers to was deleted, or that did not look at all.      *)
(***************************************************************************)
EXTENDS Naturals, Sequences, FiniteSets

CONSTANTS
    Members,                    \* users, besides the first
    GroupIDs, SystemGroups,     \* the groups 1 to 3 are the system's
    PolicyIDs, DefaultPolicy,
    PolicyLists,                \* the lists of policies that groups are saved with
    Records,                    \* identifiers of files
    Clerks,                     \* requests
    MaxVersions,                \* bound: writes of a policy
    MaxSaves                    \* bound: saves of groups, users and policies

ASSUME AdministrationAssumption ==
    /\ SystemGroups \subseteq GroupIDs /\ DefaultPolicy \in PolicyIDs
    /\ PolicyLists \subseteq Seq(PolicyIDs) \ {<<>>} /\ <<DefaultPolicy>> \in PolicyLists
    /\ MaxVersions \in Nat \ {0} /\ MaxSaves \in Nat

VARIABLES
    groupRow, policyRow, memberRow, fileRow,
    tagRow,         \* users with a tag, a WebDAV account, a task or a download
    policyCache,    \* the keys policy_<id>: the version of the row; 0: none
    desk,           \* the requests at work
    saves,
    staleSets,      \* history: policies cached from a row that had been written since
    refusedDeletes  \* history: users some of whose files the backend did not delete

adminTables == <<groupRow, policyRow, memberRow, fileRow, tagRow>>
adminHistory == <<staleSets, refusedDeletes>>
adminVars == <<adminTables, policyCache, desk, saves, adminHistory>>

(* Identifiers are not used again: a deleted group or policy keeps its row *)
(* as deleted, and Save cannot insert it a second time.                    *)
NoGroup == [st |-> "unused", list |-> <<>>, late |-> FALSE]
NoMember == [st |-> "unused", group |-> "", late |-> FALSE]
NoRecord == [st |-> "none", owner |-> "", policy |-> "", late |-> FALSE]
Off == [pc |-> "off", id |-> "", who |-> "", ver |-> 0]

In(row) == row.st = "row"
Gone(p) == policyRow[p] = 0     \* the version of a row; 0: there is none

(* The types of the variables.                                             *)
AdminTypeOK ==
    /\ \A g \in GroupIDs : In(groupRow[g]) => groupRow[g].list \in PolicyLists
    /\ \A g \in SystemGroups : In(groupRow[g])
    /\ \A p \in PolicyIDs : policyRow[p] \in 0 .. MaxVersions /\ policyCache[p] \in 0 .. MaxVersions
    /\ policyRow[DefaultPolicy] # 0
    /\ \A m \in Members : In(memberRow[m]) => memberRow[m].group \in GroupIDs
    /\ \A f \in Records : In(fileRow[f]) => fileRow[f].owner \in Members /\ fileRow[f].policy \in PolicyIDs
    /\ \A m \in DOMAIN tagRow : tagRow[m] \in {"none", "row", "late"}

AdminInit ==
    /\ groupRow = [g \in GroupIDs |-> IF g \in SystemGroups
            THEN [NoGroup EXCEPT !.st = "row", !.list = <<DefaultPolicy>>] ELSE NoGroup]
    /\ policyRow = [p \in PolicyIDs |-> 1] /\ policyCache = [p \in PolicyIDs |-> 0]
    /\ memberRow = [m \in Members |-> NoMember]
    /\ fileRow = [f \in Records |-> NoRecord] /\ tagRow = [m \in Members |-> "none"]
    /\ desk = [c \in Clerks |-> Off]
    /\ saves = 0 /\ staleSets = {} /\ refusedDeletes = {}

Sits(c, pc, id, who, ver) ==
    desk' = [desk EXCEPT ![c] = [pc |-> pc, id |-> id, who |-> who, ver |-> ver]]
Leaves(c) == desk' = [desk EXCEPT ![c] = Off]
Idle(c) == desk[c].pc = "off"
Saves == saves < MaxSaves /\ saves' = saves + 1
AtDesk(pc, id) == \E c \in Clerks : desk[c].pc = pc /\ desk[c].id = id

-----------------------------------------------------------------------------
(* Groups.                                                                 *)

(* AddGroupService.Add inserts or saves a group with any list of policies. *)
AddGroup(g, list) ==
    /\ groupRow[g].st # "deleted" /\ Saves
    /\ groupRow' = [groupRow EXCEPT ![g] = [st |-> "row", list |-> list,
            late |-> Gone(list[1]) \/ AtDesk("deletePolicy", list[1])]]
    /\ UNCHANGED <<policyRow, memberRow, fileRow, tagRow, policyCache, desk, adminHistory>>

UsersOf(g) == {m \in Members : In(memberRow[m]) /\ memberRow[m].group = g}

(* GroupService.Delete: not a system group, and no user in it ...          *)
GroupDelete(c, g) ==
    /\ Idle(c) /\ In(groupRow[g]) /\ g \notin SystemGroups /\ UsersOf(g) = {}
    /\ Sits(c, "deleteGroup", g, "", 0)
    /\ UNCHANGED <<adminTables, policyCache, saves, adminHistory>>

(* ... then the row.                                                       *)
GroupDeleted(c) ==
    /\ desk[c].pc = "deleteGroup" /\ Leaves(c)
    /\ groupRow' = [groupRow EXCEPT ![desk[c].id] = [NoGroup EXCEPT !.st = "deleted"]]
    /\ UNCHANGED <<policyRow, memberRow, fileRow, tagRow, policyCache, saves, adminHistory>>

(* Register puts a user into the group that the setting default_group      *)
(* names, AddUserService.Add into the group of the form; neither looks     *)
(* whether there is one.  AfterCreate adds the root folder.                *)
AssignGroup(m, g) ==
    /\ memberRow[m].st # "deleted" /\ Saves
    /\ memberRow' = [memberRow EXCEPT ![m] = [st |-> "row", group |-> g,
            late |-> ~In(groupRow[g]) \/ AtDesk("deleteGroup", g)]]
    /\ UNCHANGED <<groupRow, policyRow, fileRow, tagRow, policyCache, desk, adminHistory>>

-----------------------------------------------------------------------------
(* Policies.                                                               *)

(* AddPolicyService.Add, SaveAndClearCache, UpdateAccessKeyAndClearCache:  *)
(* the row, then the key.                                                  *)
AddPolicy(c, p) ==
    /\ Idle(c) /\ policyRow[p] \in 1 .. MaxVersions - 1 /\ Saves
    /\ policyRow' = [policyRow EXCEPT ![p] = @ + 1] /\ Sits(c, "clear", p, "", 0)
    /\ UNCHANGED <<groupRow, memberRow, fileRow, tagRow, policyCache, adminHistory>>

ClearCache(c) ==
    /\ desk[c].pc = "clear" /\ Leaves(c)
    /\ policyCache' = [policyCache EXCEPT ![desk[c].id] = 0]
    /\ staleSets' = staleSets \ {desk[c].id}
    /\ UNCHANGED <<adminTables, saves, refusedDeletes>>

FilesOnNone(p) == {}

FilesOn(p) == {f \in Records : In(fileRow[f]) /\ fileRow[f].policy = p}

(* policies LIKE '%[p]%' finds the groups whose list is p alone.           *)
GroupsOn(p) == {g \in GroupIDs : In(groupRow[g]) /\ groupRow[g].list = <<p>>}

(* PolicyService.Delete counts files and groups ...                        *)
PolicyDelete(c, p) ==
    /\ Idle(c) /\ p # DefaultPolicy /\ (~Gone(p) \/ policyCache[p] # 0)
    /\ FilesOn(p) = {} /\ GroupsOn(p) = {}
    /\ Sits(c, "deletePolicy", p, "", 0)
    /\ UNCHANGED <<adminTables, policyCache, saves, adminHistory>>

(* ... then deletes the row and goes on to ClearCache.                     *)
PolicyDeleted(c) ==
    /\ desk[c].pc = "deletePolicy" /\ Sits(c, "clear", desk[c].id, "", 0)
    /\ policyRow' = [policyRow EXCEPT ![desk[c].id] = 0]
    /\ UNCHANGED <<groupRow, memberRow, fileRow, tagRow, policyCache, saves, adminHistory>>

-----------------------------------------------------------------------------
(* Requests of users.                                                      *)

(* User.GetPolicyID: the first policy of the group.                        *)
GetPolicyID(m) == groupRow[memberRow[m].group].list[1]

(* An upload is admitted: the user's row, with the policy of his group.    *)
(* GetPolicyByID takes it from the cache, or reads the row and goes on to  *)
(* cache what it has read.                                                 *)
GetPolicyByID(c, m) ==
    /\ Idle(c) /\ In(memberRow[m]) /\ In(groupRow[memberRow[m].group])
    /\ LET p == GetPolicyID(m) IN
        \/ policyCache[p] # 0 /\ Sits(c, "insert", p, m, 0)
        \/ policyCache[p] = 0 /\ ~Gone(p) /\ Sits(c, "cache", p, m, policyRow[p])
    /\ UNCHANGED <<adminTables, policyCache, saves, adminHistory>>

CachePolicy(c) ==
    LET p == desk[c].id IN
    /\ desk[c].pc = "cache" /\ Sits(c, "insert", p, desk[c].who, 0)
    /\ policyCache' = [policyCache EXCEPT ![p] = desk[c].ver]
    /\ staleSets' = IF desk[c].ver # policyRow[p] THEN staleSets \cup {p} ELSE staleSets \ {p}
    /\ UNCHANGED <<adminTables, saves, refusedDeletes>>

(* File.Create of the upload.                                              *)
InsertFile(c, f) ==
    LET p == desk[c].id
        m == desk[c].who
    IN  /\ desk[c].pc = "insert" /\ fileRow[f] = NoRecord /\ Leaves(c)
        /\ fileRow' = [fileRow EXCEPT ![f] = [st |-> "row", owner |-> m, policy |-> p,
                late |-> Gone(p) \/ AtDesk("deletePolicy", p) \/ ~In(memberRow[m]) \/ AtDesk("purge", m)
                         \/ AtDesk("deleteUser", m)]]
        /\ UNCHANGED <<groupRow, policyRow, memberRow, tagRow, policyCache, saves, adminHistory>>

(* The creation of a tag, a WebDAV account, a task or a download is        *)
(* admitted, and inserts its row.                                          *)
TagAdmitted(c, m) ==
    /\ Idle(c) /\ In(memberRow[m]) /\ Sits(c, "tag", "", m, 0)
    /\ UNCHANGED <<adminTables, policyCache, saves, adminHistory>>

TagCreate(c) ==
    LET m == desk[c].who IN
    /\ desk[c].pc = "tag" /\ Leaves(c)
    /\ tagRow' = [tagRow EXCEPT ![m] =
            IF In(memberRow[m]) /\ ~AtDesk("deleteUser", m) THEN "row" ELSE "late"]
    /\ UNCHANGED <<groupRow, policyRow, memberRow, fileRow, policyCache, saves, adminHistory>>

-----------------------------------------------------------------------------
(* Deletions of users and of their files.                                  *)

FilesOf(m) == {f \in Records : In(fileRow[f]) /\ fileRow[f].owner = m}

Drop(F) == fileRow' = [f \in Records |-> IF f \in F THEN NoRecord ELSE fileRow[f]]

(* UserBatchService.Delete: FileSystem.Delete of the root folder; what the *)
(* backend does not delete stays, and the answer is not looked at.         *)
UserDelete(c, m) ==
    /\ Idle(c) /\ In(memberRow[m]) /\ Sits(c, "purge", m, "", 0)
    /\ \E kept \in SUBSET FilesOf(m) :
        /\ Drop(FilesOf(m) \ kept)
        /\ refusedDeletes' = IF kept = {} THEN refusedDeletes ELSE refusedDeletes \cup {m}
    /\ UNCHANGED <<groupRow, policyRow, memberRow, tagRow, policyCache, saves, staleSets>>

(* His downloads, tasks, tags and WebDAV accounts.                         *)
PurgeRows(c) ==
    /\ desk[c].pc = "purge" /\ Sits(c, "deleteUser", desk[c].id, "", 0)
    /\ tagRow' = [tagRow EXCEPT ![desk[c].id] = "none"]
    /\ UNCHANGED <<groupRow, policyRow, memberRow, fileRow, policyCache, saves, adminHistory>>

UserDeleted(c) ==
    /\ desk[c].pc = "deleteUser" /\ Leaves(c)
    /\ memberRow' = [memberRow EXCEPT ![desk[c].id] = [NoMember EXCEPT !.st = "deleted"]]
    /\ UNCHANGED <<groupRow, policyRow, fileRow, tagRow, policyCache, saves, adminHistory>>

(* FileBatchService.Delete lists the files and deletes them in the         *)
(* background, user by user, if the user is still there.                   *)
FileBatchDelete(c, f) ==
    /\ Idle(c) /\ In(fileRow[f]) /\ Sits(c, "async", f, fileRow[f].owner, 0)
    /\ UNCHANGED <<adminTables, policyCache, saves, adminHistory>>

BatchDeleted(c) ==
    LET f == desk[c].id IN
    /\ desk[c].pc = "async" /\ Leaves(c)
    /\ IF In(memberRow[desk[c].who]) /\ fileRow[f].owner = desk[c].who THEN Drop({f}) ELSE UNCHANGED fileRow
    /\ UNCHANGED <<groupRow, policyRow, memberRow, tagRow, policyCache, saves, adminHistory>>

AdminNext ==
    \/ \E g \in GroupIDs, list \in PolicyLists : AddGroup(g, list)
    \/ \E m \in Members, g \in GroupIDs : AssignGroup(m, g)
    \/ \E c \in Clerks :
        \/ \E g \in GroupIDs : GroupDelete(c, g)
        \/ \E p \in PolicyIDs : AddPolicy(c, p) \/ PolicyDelete(c, p)
        \/ \E m \in Members : GetPolicyByID(c, m) \/ TagAdmitted(c, m) \/ UserDelete(c, m)
        \/ \E f \in Records : InsertFile(c, f) \/ FileBatchDelete(c, f)
        \/ GroupDeleted(c) \/ ClearCache(c) \/ PolicyDeleted(c) \/ CachePolicy(c) \/ TagCreate(c)
        \/ PurgeRows(c) \/ UserDeleted(c) \/ BatchDeleted(c)

AdminSpec == AdminInit /\ [][AdminNext]_adminVars

-----------------------------------------------------------------------------
(* The count before a deletion keeps references whole: a user without his  *)
(* group comes from a request that overlapped the deletion or came after   *)
(* it (GroupService.Delete).                                               *)
MemberHasGroup ==
    \A m \in Members : In(memberRow[m]) => In(groupRow[memberRow[m].group]) \/ memberRow[m].late

(* Likewise for a group and its only storage policy; lists of several are  *)
(* not found by the search for the policy's number (PolicyService.Delete). *)
GroupHasPolicy ==
    \A g \in GroupIDs : In(groupRow[g]) /\ Len(groupRow[g].list) = 1 =>
        ~Gone(groupRow[g].list[1]) \/ groupRow[g].late

(* A file without its policy comes from an upload that had loaded the      *)
(* policy, or found it in the cache, before its deletion was over          *)
(* (PolicyService.Delete, GetPolicyByID).                                  *)
FileHasPolicy == \A f \in Records : In(fileRow[f]) => ~Gone(fileRow[f].policy) \/ fileRow[f].late

(* A policy in the cache is the row's, except until its writer has cleared *)
(* the key, or when a reader had read the row before the write and cached  *)
(* it after the clearing; that one stays (GetPolicyByID, ClearCache).      *)
PolicyCacheFresh ==
    \A p \in PolicyIDs :
        policyCache[p] \in {0, policyRow[p]} \/ AtDesk("clear", p) \/ p \in staleSets

(* A deleted user leaves nothing behind but what a request admitted before *)
(* the deletion inserted, and what the backend did not delete              *)
(* (UserBatchService.Delete).                                              *)
NothingOfDeletedUsers ==
    \A m \in Members : ~In(memberRow[m]) =>
        /\ tagRow[m] # "row"
        /\ \A f \in FilesOf(m) : fileRow[f].late \/ m \in refusedDeletes

(* What deletions that count first and delete later keep next to other     *)
(* requests: references, the cache of policies, nothing of deleted users.  *)
AdminInv ==
    /\ AdminTypeOK /\ MemberHasGroup /\ GroupHasPolicy
    /\ FileHasPolicy /\ PolicyCacheFresh /\ NothingOfDeletedUsers
=============================================================================
