----------------------------- MODULE MCServices -----------------------------
(***************************************************************************)
(* The services above the file system, each on its own: shares, requests   *)
(* that read files, listings and searches, accounts, administration, and   *)
(* the start of the program.  A behaviour is one of the part that its      *)
(* initial state chooses.                                                  *)
(***************************************************************************)
EXTENDS Shares, FileRequests, Listings, Accounts, Administration, Migration, TLC

VARIABLE part

(* Lists of storage policies of a group: one, or the default one second.   *)
MCLists ==
    {<<p>> : p \in PolicyIDs} \cup {<<p, DefaultPolicy>> : p \in PolicyIDs \ {DefaultPolicy}}

(* The parts that a behaviour is not about start in one state.             *)
MCInit ==
    /\ part \in {"shares", "files", "listings", "accounts", "admin", "start"}
    /\ SharesInit /\ FileRequestsInit /\ ListingsInit /\ AccountsInit /\ AdminInit /\ MigrationInit
    /\ part # "files" => ~slaveMode
    /\ part # "listings" => at = [o \in Objs \ {Top} |-> Top]
    /\ part # "start" => redis /\ settings = {} /\ rows["user"] = 0 /\ stored = 0

MCNext ==
    \/ /\ part = "shares" /\ SharesNext
       /\ UNCHANGED <<part, fileRequestVars, listingVars, accountVars, adminVars, migrationVars>>
    \/ /\ part = "files" /\ FileRequestsNext
       /\ UNCHANGED <<part, shareVars, listingVars, accountVars, adminVars, migrationVars>>
    \/ /\ part = "listings" /\ ListingsNext
       /\ UNCHANGED <<part, shareVars, fileRequestVars, accountVars, adminVars, migrationVars>>
    \/ /\ part = "accounts" /\ AccountsNext
       /\ UNCHANGED <<part, shareVars, fileRequestVars, listingVars, adminVars, migrationVars>>
    \/ /\ part = "admin" /\ AdminNext
       /\ UNCHANGED <<part, shareVars, fileRequestVars, listingVars, accountVars, migrationVars>>
    \/ /\ part = "start" /\ MigrationNext
       /\ UNCHANGED <<part, shareVars, fileRequestVars, listingVars, accountVars, adminVars>>

mcVars == <<part, shareVars, fileRequestVars, listingVars, accountVars, adminVars, migrationVars>>

MCSpec == MCInit /\ [][MCNext]_mcVars

(* Two files have two source links between them: enough for a file with    *)
(* two, and for one each; and while an archive is offered there are none,  *)
(* because the two have only the pool of objects in common.                *)
FewLinks ==
    /\ \A d, e \in Docs : d # e => sourceLinks[d] + sourceLinks[e] <= 2
    /\ archive # {} => \A d \in Docs : sourceLinks[d] = 0

(* Requests, of whatever part, are interchangeable; so are files, and      *)
(* FileSystem objects.                                                     *)
Symmetry == Permutations(Jobs) \cup Permutations(Docs) \cup Permutations(FSObjects)
=============================================================================
