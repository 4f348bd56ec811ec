----------------------------- MODULE MCDrivers ------------------------------
(***************************************************************************)
(* The storage drivers and what they rely on, each on its own: the drivers *)
(* of the vendors, chunked transfers to a backend, the credentials of      *)
(* OneDrive, and the cache.  A behaviour is one of the part that its       *)
(* initial state chooses.                                                  *)
(***************************************************************************)
EXTENDS VendorDrivers, ChunkTransfer, CredentialRefresh, SettingsCache

VARIABLE part

(* Three keys: 1 at the top, 2 and 3 in one directory.                     *)
ThreeDirs == <<1, 2, 2>>

(* The parts that a behaviour is not about start in one state, and the     *)
(* bucket starts without its first key: an upload can then come before a   *)
(* listing's marker, and fills the bucket.                                 *)
MCInit ==
    /\ part \in {"drivers", "chunks", "credentials", "cache"}
    /\ VendorInit /\ ChunkInit /\ CredInit /\ CacheInit
    /\ 1 \notin fileRows
    /\ part # "drivers" => kind = "local" /\ focus = "objects"
    /\ part # "chunks" => stream = CHOOSE s \in Streams : TRUE
    /\ part # "cache" => driver = "memo"

MCNext ==
    \/ part = "drivers" /\ VendorNext /\ UNCHANGED <<part, chunkVars, credVars, cacheVars>>
    \/ part = "chunks" /\ ChunkNext /\ UNCHANGED <<part, vendorVars, credVars, cacheVars>>
    \/ part = "credentials" /\ CredNext /\ UNCHANGED <<part, vendorVars, chunkVars, cacheVars>>
    \/ part = "cache" /\ CacheNext /\ UNCHANGED <<part, vendorVars, chunkVars, credVars>>

mcVars == <<part, vendorVars, chunkVars, credVars, cacheVars>>

MCSpec == MCInit /\ [][MCNext]_mcVars
=============================================================================
