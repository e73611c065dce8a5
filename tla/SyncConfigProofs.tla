-------------------------- MODULE SyncConfigProofs --------------------------
(***************************************************************************)
(* Proofs that the synchronisation of a Guard's configuration keeps its    *)
(* inductive invariant SyncInv, for any peers, any number of versions and  *)
(* any stamps: the Guard admits peers of two configurations only if a      *)
(* write overtook the read that gave them to it.                           *)
(*                                                                         *)
(* The argument follows a list of peers from the store to the whitelist.   *)
(* A row is a version; apply_remote_config replaces the tables with those  *)
(* of the row; whatever a reader finds of a text that is being written is  *)
(* a part of it.  So a read that no write overtakes finds peers of one     *)
(* version, and a read that one overtakes peers of the versions the file   *)
(* held meanwhile.  Only a PUT adds a version, and it takes none away.     *)
(***************************************************************************)
EXTENDS SyncConfig, TLAPS

USE SyncAssumption, NoneAssumption

(* The lists in transit and the store they come from. *)
Transit == <<versions, remote, draft, file, reading, loaded, liveVars>>

(* A step that stores nothing leaves every list of the versions it was of. *)
LEMMA StoreFrame ==
    ASSUME UNCHANGED versions
    PROVE  \A list : /\ OfOneVersion(list) => OfOneVersion(list)'
                     /\ OfSomeVersions(list) => OfSomeVersions(list)'
<1>1. Lists' = Lists
  BY DEF Lists
<1> QED
  BY <1>1 DEF OfOneVersion, OfSomeVersions

(* A step that moves no list, either. *)
LEMMA TransitFrame ==
    ASSUME CarriesOneVersion, MixesOnlyWhenOvertaken, UNCHANGED Transit
    PROVE  CarriesOneVersion' /\ MixesOnlyWhenOvertaken'
<1>1. UNCHANGED <<versions, remote, draft, file, reading, loaded, whitelist, overtaken>>
  BY DEF Transit, liveVars
<1>2. CarriesOneVersion'
  BY <1>1, StoreFrame DEF CarriesOneVersion
<1>3. MixesOnlyWhenOvertaken'
  BY <1>1, StoreFrame DEF MixesOnlyWhenOvertaken
<1> QED
  BY <1>2, <1>3

(* A part of a list of one version is of that version. *)
LEMMA PartOfOneVersion ==
    ASSUME NEW list, NEW part, part \subseteq list, OfOneVersion(list)
    PROVE  OfOneVersion(part)
BY DEF OfOneVersion

(* So is a part of a list of some versions, and two of them together. *)
LEMMA PartOfSomeVersions ==
    ASSUME NEW list, NEW part, part \subseteq list, OfSomeVersions(list)
    PROVE  OfSomeVersions(part)
BY DEF OfSomeVersions

LEMMA OneVersionIsSome ==
    ASSUME NEW list, OfOneVersion(list)
    PROVE  OfSomeVersions(list)
BY DEF OfOneVersion, OfSomeVersions

LEMMA TogetherOfSomeVersions ==
    ASSUME NEW list, NEW more, OfSomeVersions(list), OfSomeVersions(more)
    PROVE  OfSomeVersions(list \cup more)
BY DEF OfSomeVersions

(* A write leaves what is being read of some versions, and it is no longer *)
(* steady unless the text is as it was.                                    *)
LEMMA WritesCarry ==
    ASSUME SyncInv, NEW text \in File, Writes(text), OfOneVersion(text.allow)
    PROVE  /\ reading' \in {None} \cup Sight
           /\ reading' = None <=> reading = None
           /\ reading' # None => /\ ~reading'.steady \/ OfOneVersion(reading'.allow)
                                 /\ OfSomeVersions(reading'.allow)
<1>1. CASE reading = None \/ text = file
  BY <1>1 DEF SyncInv, SyncTypeOK, CarriesOneVersion, Writes
<1>2. CASE reading # None /\ text # file
  <2>1. reading \in Sight /\ OfSomeVersions(reading.allow)
    BY <1>2 DEF SyncInv, SyncTypeOK, CarriesOneVersion
  <2>2. text.allow \in SUBSET Peer
    BY DEF File
  <2>3. reading' = [allow |-> reading.allow \cup text.allow,
                    loads |-> reading.loads \/ text.text = "loads",
                    steady |-> FALSE]
    BY <1>2 DEF Writes
  <2>4. reading' \in Sight /\ ~reading'.steady
    BY <2>1, <2>2, <2>3 DEF Sight
  <2>5. OfSomeVersions(reading.allow \cup text.allow)
    BY <2>1, OneVersionIsSome, TogetherOfSomeVersions
  <2> QED
    BY <1>2, <2>3, <2>4, <2>5
<1> QED
  BY <1>1, <1>2

(* What load makes of what it has read. *)
LEMMA LoadsCarry ==
    ASSUME SyncInv, reading # None, NEW list \in Loads(reading), list # None
    PROVE  /\ list \in SUBSET Peer
           /\ ~reading.steady \/ OfOneVersion(list)
           /\ OfSomeVersions(list)
<1>1. /\ reading \in Sight
      /\ ~reading.steady \/ OfOneVersion(reading.allow)
      /\ OfSomeVersions(reading.allow)
  BY DEF SyncInv, SyncTypeOK, CarriesOneVersion
<1>2. list \in SUBSET reading.allow /\ (reading.steady => list = reading.allow)
  BY <1>1 DEF Loads, Sight
<1> QED
  BY <1>1, <1>2, PartOfSomeVersions DEF Sight

(* The row is of one version: the last one. *)
LEMMA RowIsAVersion ==
    ASSUME versions \in Seq(Version), versions # <<>>
    PROVE  Row \in Version /\ OfOneVersion(Row.allow)
<1>1. Len(versions) \in DOMAIN versions
  OBVIOUS
<1>2. Row \in Version
  BY <1>1 DEF Row
<1>3. Row.allow \in Lists
  BY <1>1 DEF Row, Lists
<1> QED
  BY <1>2, <1>3 DEF OfOneVersion

(* A PUT adds a version and takes none away. *)
LEMMA StoredKeepsLists ==
    ASSUME versions \in Seq(Version), NEW version \in Version,
           versions' = Append(versions, version)
    PROVE  /\ Lists \subseteq Lists'
           /\ \A list : OfOneVersion(list) => OfOneVersion(list)'
           /\ \A list : OfSomeVersions(list) => OfSomeVersions(list)'
<1>1. ASSUME NEW i \in DOMAIN versions
      PROVE  i \in DOMAIN versions' /\ versions'[i] = versions[i]
  OBVIOUS
<1>2. Lists \subseteq Lists'
  BY <1>1 DEF Lists
<1> QED
  BY <1>2 DEF OfOneVersion, OfSomeVersions

(* A configuration that is put in the tables is all that is in them. *)
LEMMA RewrittenIsTheRow ==
    ASSUME remote \in Version, file \in File, file.text # "broken"
    PROVE  Rewritten \in File /\ Rewritten.allow = remote.allow
BY DEF Rewritten, Version, File

-----------------------------------------------------------------------------
(* One lemma per step, or per group of steps that move no list.            *)

LEMMA StoredKeeps ==
    ASSUME SyncInv, NEW version \in Version, Stored(version)
    PROVE  SyncInv'
<1> USE DEF SyncInv, Stored
<1>1. SyncTypeOK'
  <2>1. versions' \in Seq(Version) /\ Len(versions') <= MaxVersions
    BY DEF SyncTypeOK
  <2> QED
    BY <2>1 DEF SyncTypeOK, syncVars, guardVars, liveVars
<1>2. \A list : /\ OfOneVersion(list) => OfOneVersion(list)'
                /\ OfSomeVersions(list) => OfSomeVersions(list)'
  BY StoredKeepsLists DEF SyncTypeOK
<1>3. UNCHANGED <<remote, draft, file, reading, loaded, whitelist, overtaken>>
  BY DEF syncVars, guardVars, liveVars
<1>4. CarriesOneVersion'
  BY <1>2, <1>3 DEF CarriesOneVersion
<1>5. MixesOnlyWhenOvertaken'
  BY <1>2, <1>3 DEF MixesOnlyWhenOvertaken
<1> QED
  BY <1>1, <1>4, <1>5

LEMMA FetchedKeeps ==
    ASSUME SyncInv, Fetched
    PROVE  SyncInv'
<1> USE DEF SyncInv
<1>1. Row \in Version /\ OfOneVersion(Row.allow)
  BY RowIsAVersion DEF Fetched, Fetchable, SyncTypeOK
<1>2. SyncTypeOK'
  BY <1>1 DEF Fetched, SyncTypeOK, guardVars, liveVars
<1>3. /\ UNCHANGED <<versions, draft, file, reading, loaded, whitelist, overtaken>>
      /\ remote' \in {remote, Row}
  BY DEF Fetched, guardVars, liveVars
<1>4. CarriesOneVersion'
  BY <1>1, <1>3, StoreFrame DEF CarriesOneVersion
<1>5. MixesOnlyWhenOvertaken'
  BY <1>3, StoreFrame DEF MixesOnlyWhenOvertaken
<1> QED
  BY <1>2, <1>4, <1>5

LEMMA ApplyBeginsKeeps ==
    ASSUME SyncInv, ApplyBegins
    PROVE  SyncInv'
<1>1. remote # None /\ remote \in Version /\ OfOneVersion(remote.allow)
  BY DEF SyncInv, ApplyBegins, SyncTypeOK, CarriesOneVersion
<1>2. Rewritten \in File /\ Rewritten.allow = remote.allow
  BY <1>1, RewrittenIsTheRow DEF SyncInv, SyncTypeOK, ApplyBegins
<1>3. PICK text \in File : text.allow \subseteq Rewritten.allow /\ Writes(text)
  BY DEF ApplyBegins, Beginning
<1>4. OfOneVersion(text.allow)
  BY <1>1, <1>2, <1>3, PartOfOneVersion
<1>5. /\ UNCHANGED <<versions, last, remote, pidValid, calm>>
      /\ UNCHANGED <<guard, hangup, loaded, whitelist, overtaken>>
      /\ file' = text /\ draft' = Rewritten /\ sync' = "write"
  BY <1>3 DEF ApplyBegins, Writes, liveVars
<1>6. SyncTypeOK'
  BY <1>1, <1>2, <1>3, <1>4, <1>5, WritesCarry DEF SyncInv, SyncTypeOK
<1>7. CarriesOneVersion'
  BY <1>1, <1>2, <1>3, <1>4, <1>5, WritesCarry, StoreFrame
     DEF SyncInv, CarriesOneVersion
<1>8. MixesOnlyWhenOvertaken'
  BY <1>5, StoreFrame DEF SyncInv, MixesOnlyWhenOvertaken
<1> QED
  BY <1>6, <1>7, <1>8 DEF SyncInv

LEMMA ApplyEndsKeeps ==
    ASSUME SyncInv, ApplyEnds
    PROVE  SyncInv'
<1>1. draft # None /\ draft \in File /\ remote \in Version /\ OfOneVersion(draft.allow)
  BY DEF SyncInv, ApplyEnds, SyncTypeOK, CarriesOneVersion
<1>2. /\ UNCHANGED <<versions, pidValid, calm>>
      /\ UNCHANGED <<guard, hangup, loaded, whitelist, overtaken>>
      /\ file' = draft /\ draft' = None /\ remote' = None /\ last' = remote.at
      /\ sync' = "signal" /\ Writes(draft)
  BY DEF ApplyEnds, Writes, liveVars
<1>3. remote.at \in 0..MaxStamp
  BY <1>1 DEF Version
<1>4. SyncTypeOK'
  BY <1>1, <1>2, <1>3, WritesCarry DEF SyncInv, SyncTypeOK
<1>5. CarriesOneVersion'
  BY <1>1, <1>2, WritesCarry, StoreFrame DEF SyncInv, CarriesOneVersion
<1>6. MixesOnlyWhenOvertaken'
  BY <1>2, StoreFrame DEF SyncInv, MixesOnlyWhenOvertaken
<1> QED
  BY <1>4, <1>5, <1>6 DEF SyncInv

(* sync-config forgets what it fetched and what it wrote. *)
LEMMA ForgettingKeeps ==
    ASSUME SyncInv, ApplyFails \/ SyncRestarts
    PROVE  SyncInv'
<1>1. /\ UNCHANGED <<versions, file, reading, loaded, whitelist, overtaken>>
      /\ remote' = None /\ draft' = None
  BY DEF ApplyFails, ApplyFailure, SyncRestarts, guardVars, liveVars
<1>2. ApplyFails => SyncTypeOK'
  BY DEF SyncInv, ApplyFails, ApplyFailure, SyncTypeOK, guardVars, liveVars
<1>3. SyncRestarts => SyncTypeOK'
  BY DEF SyncInv, SyncRestarts, SyncTypeOK, guardVars, liveVars
<1>4. CarriesOneVersion'
  BY <1>1, StoreFrame DEF SyncInv, CarriesOneVersion
<1>5. MixesOnlyWhenOvertaken'
  BY <1>1, StoreFrame DEF SyncInv, MixesOnlyWhenOvertaken
<1> QED
  BY <1>2, <1>3, <1>4, <1>5 DEF SyncInv

(* Steps that move no list. *)
LEMMA OthersKeep ==
    ASSUME SyncInv, FetchFailed \/ PollAgain \/ GuardReady \/ Settles
    PROVE  SyncInv'
<1>1. UNCHANGED Transit
  BY DEF FetchFailed, PollAgain, GuardReady, Settles, Transit, syncVars, guardVars
<1>2. SyncTypeOK'
  <2>1. FetchFailed => SyncTypeOK'
    BY DEF SyncInv, SyncTypeOK, FetchFailed, guardVars, liveVars
  <2>2. PollAgain => SyncTypeOK'
    BY DEF SyncInv, SyncTypeOK, PollAgain, guardVars, liveVars
  <2>3. GuardReady => SyncTypeOK'
    BY DEF SyncInv, SyncTypeOK, GuardReady, syncVars, liveVars
  <2>4. Settles => SyncTypeOK'
    BY DEF SyncInv, SyncTypeOK, Settles, syncVars, guardVars, liveVars
  <2> QED
    BY <2>1, <2>2, <2>3, <2>4
<1> QED
  BY <1>1, <1>2, TransitFrame DEF SyncInv

(* A signal leaves the lists where they are, or ends the read. *)
LEMMA HangupKeeps ==
    ASSUME SyncInv, Signalled \/ OperatorReloads
    PROVE  SyncInv'
<1>1. /\ UNCHANGED <<versions, remote, draft, file, loaded, whitelist, overtaken>>
      /\ reading' \in {None, reading}
  BY DEF Signalled, OperatorReloads, Hangup, liveVars
<1>2. Signalled => SyncTypeOK'
  BY DEF SyncInv, SyncTypeOK, Signalled, Hangup, liveVars
<1>3. OperatorReloads => SyncTypeOK'
  BY DEF SyncInv, SyncTypeOK, OperatorReloads, Hangup, liveVars
<1>4. CarriesOneVersion'
  BY <1>1, StoreFrame DEF SyncInv, CarriesOneVersion
<1>5. MixesOnlyWhenOvertaken'
  BY <1>1, StoreFrame DEF SyncInv, MixesOnlyWhenOvertaken
<1> QED
  BY <1>2, <1>3, <1>4, <1>5 DEF SyncInv

(* A read begins: with a file of one version. *)
LEMMA ReadBeginsKeeps ==
    ASSUME SyncInv, HangupTaken \/ GuardStarts
    PROVE  SyncInv'
<1>1. /\ UNCHANGED <<versions, syncVars, file, loaded, whitelist, overtaken, calm>>
      /\ reading' = [allow |-> file.allow, loads |-> file.text = "loads", steady |-> TRUE]
  BY DEF HangupTaken, GuardStarts, ReadBegins, liveVars
<1>2. file.allow \in SUBSET Peer /\ OfOneVersion(file.allow)
  BY DEF SyncInv, SyncTypeOK, CarriesOneVersion, File
<1>3. reading' \in Sight /\ reading'.allow = file.allow
  BY <1>1, <1>2 DEF Sight
<1>4. HangupTaken => SyncTypeOK'
  BY <1>1, <1>3 DEF SyncInv, SyncTypeOK, HangupTaken, syncVars
<1>5. GuardStarts => SyncTypeOK'
  BY <1>1, <1>3 DEF SyncInv, SyncTypeOK, GuardStarts, syncVars
<1>6. CarriesOneVersion'
  BY <1>1, <1>2, <1>3, OneVersionIsSome, StoreFrame DEF SyncInv, CarriesOneVersion, syncVars
<1>7. MixesOnlyWhenOvertaken'
  BY <1>1, StoreFrame DEF SyncInv, MixesOnlyWhenOvertaken
<1> QED
  BY <1>4, <1>5, <1>6, <1>7 DEF SyncInv

LEMMA ReloadReadKeeps ==
    ASSUME SyncInv, ReloadRead
    PROVE  SyncInv'
<1>1. PICK list \in Loads(reading) :
        loaded' = IF list = None THEN None
                  ELSE [allow |-> list, overtaken |-> ~reading.steady]
  BY DEF ReloadRead
<1>2. /\ UNCHANGED <<versions, syncVars, file, guard, hangup, whitelist, overtaken, calm>>
      /\ reading # None /\ reading' = None /\ guard = "up"
  BY DEF ReloadRead, liveVars
<1>3. reading \in Sight
  BY <1>2 DEF SyncInv, SyncTypeOK
<1>4. loaded' # None => /\ loaded' \in Load
                        /\ loaded'.overtaken \/ OfOneVersion(loaded'.allow)
                        /\ OfSomeVersions(loaded'.allow)
  <2>1. CASE list = None
    BY <1>1, <2>1
  <2>2. CASE list # None
    <3>1. loaded' = [allow |-> list, overtaken |-> ~reading.steady]
      BY <1>1, <2>2
    <3>2. /\ list \in SUBSET Peer
          /\ ~reading.steady \/ OfOneVersion(list)
          /\ OfSomeVersions(list)
      BY <1>2, <2>2, LoadsCarry
    <3> QED
      BY <1>3, <3>1, <3>2 DEF Load, Sight
  <2> QED
    BY <2>1, <2>2
<1>5. SyncTypeOK'
  BY <1>2, <1>4 DEF SyncInv, SyncTypeOK, syncVars
<1>6. CarriesOneVersion'
  BY <1>2, <1>4, StoreFrame DEF SyncInv, CarriesOneVersion, syncVars
<1>7. MixesOnlyWhenOvertaken'
  BY <1>2, StoreFrame DEF SyncInv, MixesOnlyWhenOvertaken
<1> QED
  BY <1>5, <1>6, <1>7 DEF SyncInv

(* The whitelist is replaced by what the reload task has loaded. *)
LEMMA ReloadTakenKeeps ==
    ASSUME SyncInv, ReloadTaken
    PROVE  SyncInv'
<1>1. /\ UNCHANGED <<versions, syncVars, file, guard, reading, hangup, calm>>
      /\ loaded # None /\ loaded' = None
      /\ whitelist' = loaded.allow /\ overtaken' = loaded.overtaken
  BY DEF ReloadTaken
<1>2. /\ loaded \in Load
      /\ loaded.overtaken \/ OfOneVersion(loaded.allow)
      /\ OfSomeVersions(loaded.allow)
  BY <1>1 DEF SyncInv, SyncTypeOK, CarriesOneVersion
<1>3. SyncTypeOK'
  BY <1>1, <1>2 DEF SyncInv, SyncTypeOK, Load, syncVars
<1>4. CarriesOneVersion'
  BY <1>1, StoreFrame DEF SyncInv, CarriesOneVersion, syncVars
<1>5. MixesOnlyWhenOvertaken'
  BY <1>1, <1>2, StoreFrame DEF MixesOnlyWhenOvertaken
<1> QED
  BY <1>3, <1>4, <1>5 DEF SyncInv

LEMMA GuardStopsKeeps ==
    ASSUME SyncInv, GuardStops
    PROVE  SyncInv'
<1>1. /\ UNCHANGED <<versions, remote, draft, file, whitelist, overtaken>>
      /\ reading' = None /\ loaded' = None
  BY DEF GuardStops, liveVars
<1>2. SyncTypeOK'
  BY DEF SyncInv, SyncTypeOK, GuardStops, liveVars
<1>3. CarriesOneVersion'
  BY <1>1, StoreFrame DEF SyncInv, CarriesOneVersion
<1>4. MixesOnlyWhenOvertaken'
  BY <1>1, StoreFrame DEF SyncInv, MixesOnlyWhenOvertaken
<1> QED
  BY <1>2, <1>3, <1>4 DEF SyncInv

(* A Guard starts with what it has read, or ends. *)
LEMMA GuardLoadsKeeps ==
    ASSUME SyncInv, GuardLoads
    PROVE  SyncInv'
<1>1. PICK list \in Loads(reading) :
        IF list # None
        THEN /\ guard' = "starting" /\ UNCHANGED pidValid
             /\ whitelist' = list /\ overtaken' = ~reading.steady
        ELSE guard' = "down" /\ pidValid' = FALSE /\ UNCHANGED liveVars
  BY DEF GuardLoads
<1>2. /\ UNCHANGED <<versions, sync, last, remote, draft, file, hangup, loaded, calm>>
      /\ guard = "loading" /\ reading # None /\ reading' = None
  BY DEF GuardLoads, SyncInv, SyncTypeOK
<1>3. reading \in Sight
  BY <1>2 DEF SyncInv, SyncTypeOK
<1>4. /\ whitelist' \in SUBSET Peer /\ overtaken' \in BOOLEAN
      /\ overtaken' \/ OfOneVersion(whitelist')
      /\ OfSomeVersions(whitelist')
      /\ guard' \in {"starting", "down"} /\ pidValid' \in BOOLEAN
  <2>1. CASE list = None
    BY <1>1, <2>1 DEF SyncInv, SyncTypeOK, MixesOnlyWhenOvertaken, liveVars
  <2>2. CASE list # None
    <3>1. /\ list \in SUBSET Peer
          /\ ~reading.steady \/ OfOneVersion(list)
          /\ OfSomeVersions(list)
      BY <1>2, <2>2, LoadsCarry
    <3> QED
      BY <1>1, <1>3, <2>2, <3>1 DEF SyncInv, SyncTypeOK, Sight
  <2> QED
    BY <2>1, <2>2
<1>5. SyncTypeOK'
  BY <1>2, <1>4 DEF SyncInv, SyncTypeOK
<1>6. CarriesOneVersion'
  BY <1>2, StoreFrame DEF SyncInv, CarriesOneVersion
<1>7. MixesOnlyWhenOvertaken'
  BY <1>2, <1>4, StoreFrame DEF MixesOnlyWhenOvertaken
<1> QED
  BY <1>5, <1>6, <1>7 DEF SyncInv

-----------------------------------------------------------------------------
LEMMA InitSyncInv ==
    ASSUME SyncInit
    PROVE  SyncInv
<1>1. SyncTypeOK
  <2>1. versions \in Seq(Version) /\ Len(versions) <= MaxVersions /\ file \in File
    BY DEF SyncInit, File
  <2>2. whitelist \in SUBSET Peer /\ remote = None /\ draft = None /\ loaded = None
    BY DEF SyncInit
  <2> QED
    BY <2>1, <2>2 DEF SyncInit, SyncTypeOK
<1>2. {} \in Lists
  BY DEF Lists
<1>3. CarriesOneVersion /\ MixesOnlyWhenOvertaken
  BY <1>2 DEF SyncInit, CarriesOneVersion, MixesOnlyWhenOvertaken, OfOneVersion, OfSomeVersions
<1> QED
  BY <1>1, <1>3 DEF SyncInv

LEMMA NextSyncInv ==
    ASSUME SyncInv, [SyncNext]_vars
    PROVE  SyncInv'
<1>1. CASE SyncStep
  BY <1>1, FetchedKeeps, ApplyBeginsKeeps, ApplyEndsKeeps, ForgettingKeeps, HangupKeeps,
     OthersKeep DEF SyncStep
<1>2. CASE HangupTaken \/ GuardStarts \/ ReloadRead \/ ReloadTaken \/ GuardStops \/ GuardLoads
  BY <1>2, ReadBeginsKeeps, ReloadReadKeeps, ReloadTakenKeeps, GuardStopsKeeps, GuardLoadsKeeps
<1>3. CASE SyncRestarts \/ OperatorReloads \/ GuardReady \/ Settles
  BY <1>3, ForgettingKeeps, HangupKeeps, OthersKeep
<1>4. CASE \E version \in Version : Stored(version)
  BY <1>4, StoredKeeps
<1>5. CASE UNCHANGED vars
  <2>1. SyncTypeOK'
    BY <1>5 DEF vars, syncVars, guardVars, liveVars, SyncInv, SyncTypeOK
  <2> QED
    BY <1>5, <2>1, TransitFrame DEF vars, syncVars, guardVars, SyncInv, Transit
<1> QED
  BY <1>1, <1>2, <1>3, <1>4, <1>5 DEF SyncNext

(* Wherever a list of peers is between the gateway and the whitelist, it   *)
(* is of one version, unless a write overtook the read it comes from; and  *)
(* the sync loop, the file and the reload task are where their own records *)
(* say (main.rs, guard_config.rs).                                         *)
THEOREM SyncInvariant == SyncSpec => []SyncInv
<1>1. SyncInit => SyncInv
  BY InitSyncInv
<1>2. SyncInv /\ [SyncNext]_vars => SyncInv'
  BY NextSyncInv
<1> QED
  BY <1>1, <1>2, PTL DEF SyncSpec

(* A Guard admits peers of two configurations only if the text of          *)
(* guard.toml changed while read_to_string went through it: a file caught  *)
(* in the middle of a write, or left half-written by a failure, gives it a *)
(* part of one version.  And no read gives it a peer that no version has.  *)
THEOREM MixtureNeedsOvertaking == SyncSpec => []MixesOnlyWhenOvertaken
<1>1. SyncInv => MixesOnlyWhenOvertaken
  BY DEF SyncInv
<1> QED
  BY <1>1, SyncInvariant, PTL
=============================================================================
