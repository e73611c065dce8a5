----------------------------- MODULE SyncConfig -----------------------------
(***************************************************************************)
(* From the gateway's store to a Guard's live whitelist: sync_config_loop, *)
(* fetch_remote_config and spawn_reload_on_sighup                          *)
(* (src/crates/nux-cli/src/main.rs), apply_remote_config and load          *)
(* (src/crates/nux-cli/src/guard_config.rs).                               *)
(*                                                                         *)
(* Three processes: the gateway, reduced to the row of one Guard (module   *)
(* Gateway has its whole), sync-config, and the Guard with its reload      *)
(* task.  They share guard.toml and the signal SIGHUP.  The file is what   *)
(* load and the TOML parser make of it: in the middle of fs::write, which  *)
(* truncates first, a reader finds a beginning of the text.  And reading   *)
(* takes time: read_to_string asks for the next piece until there is none, *)
(* so a text that is rewritten meanwhile is read partly as it was and      *)
(* partly as it is.                                                        *)
(***************************************************************************)
EXTENDS Naturals, Sequences

CONSTANTS
    Peer,        \* peers a configuration may allow
    Allowed,     \* the lists of peers that are stored
    MaxVersions, \* bound: configurations stored in a behaviour
    MaxStamp,    \* bound: seconds in which they are stamped
    Served,      \* paths answered at the other end of the tunnel
    None

ASSUME SyncAssumption ==
    /\ {MaxVersions, MaxStamp} \subseteq Nat
    /\ Allowed \subseteq SUBSET Peer
    /\ \A allow \in SUBSET Peer : allow # None

Version == [allow : Allowed, at : 0..MaxStamp]

(* load accepts the text; the TOML parser accepts it but load does not (a  *)
(* section is missing); neither does, and nobody sees what is in it.       *)
File == [allow : SUBSET Peer, text : {"loads", "parses"}]
        \cup [allow : {{}}, text : {"broken"}]

(* What a read has seen: the peers that were in the file since it began,   *)
(* whether some text loads, and whether the file stayed as it was.         *)
Sight == [allow : SUBSET Peer, loads : BOOLEAN, steady : BOOLEAN]

(* The list a load has made, and whether its read was overtaken by a write.*)
Load == [allow : SUBSET Peer, overtaken : BOOLEAN]

ASSUME NoneAssumption == None \notin Version \cup File \cup Sight \cup Load

VARIABLES
    versions,   \* the configurations stored for the Guard: the row is the last
    sync,       \* where sync_config_loop is
    last,       \* last_updated_at
    remote,     \* the configuration fetched
    draft,      \* what apply_remote_config is writing
    pidValid,   \* guard_pid is the pid of the running Guard
    file,       \* guard.toml
    guard,      \* the Guard's process: it handles SIGHUP once it is up
    reading,    \* what a load that reads the file has seen of it
    hangup,     \* a SIGHUP the reload task has not taken
    loaded,     \* whitelist between the reload task and the loop (bound: one)
    whitelist,  \* the Guard's live whitelist
    overtaken,  \* history: the read the whitelist came from was overtaken by a write
    calm        \* the environment: from now on nothing goes wrong

syncVars == <<sync, last, remote, draft, pidValid>>
liveVars == <<whitelist, overtaken>>
guardVars == <<guard, reading, hangup, loaded, liveVars>>
vars == <<versions, syncVars, file, guardVars, calm>>

SyncInit ==
    /\ versions = <<>>
    /\ sync = "poll" /\ last = None /\ remote = None /\ draft = None /\ pidValid = TRUE
    /\ file = [allow |-> {}, text |-> "loads"]
    /\ guard = "up" /\ reading = None /\ hangup = FALSE /\ loaded = None
    /\ whitelist = file.allow /\ overtaken = FALSE
    /\ calm = FALSE

-----------------------------------------------------------------------------
(* The gateway: put_config writes the row.  PUTs are handled concurrently  *)
(* and stamped before they are written, so a stamp may go back.            *)
Stored(version) ==
    /\ ~calm
    /\ Len(versions) < MaxVersions
    /\ versions' = Append(versions, version)
    /\ UNCHANGED <<syncVars, file, guardVars, calm>>

Row == versions[Len(versions)]

(* The paths of guard_router, and the one fetch_remote_config asks for,    *)
(* which is none of them.                                                  *)
GuardRoutes == {"/api/v1/configs", "/api/v1/nodes/state"}
FetchRoute == "/api/v1/private/configs"
Fetchable == versions # <<>> /\ FetchRoute \in Served

-----------------------------------------------------------------------------
(* sync_config_loop. *)

Fetched ==
    /\ sync = "poll"
    /\ Fetchable
    /\ IF Row.at = last
       THEN sync' = "sleep" /\ UNCHANGED remote
       ELSE sync' = "apply" /\ remote' = Row
    /\ UNCHANGED <<versions, last, draft, pidValid, file, guardVars, calm>>

(* No tunnel or no role for it, a 404 or a 429, a timeout. *)
FetchFailed ==
    /\ sync = "poll"
    /\ ~calm \/ ~Fetchable
    /\ sync' = "sleep"
    /\ UNCHANGED <<versions, last, remote, draft, pidValid, file, guardVars, calm>>

(* What a reader may find of a text of which a part is written. *)
Beginning(text) ==
    {f \in File : f.allow \subseteq text.allow /\ (f.text = "loads" => text.text = "loads")}

(* Variation: the tables are edited in place. *)
RewrittenInPlace == [allow |-> file.allow \cup remote.allow, text |-> file.text]

(* apply_remote_config replaces the tables and keeps the rest. *)
Rewritten == [allow |-> remote.allow, text |-> file.text]

(* The file changes, under the eyes of whoever reads it. *)
Writes(text) ==
    /\ file' = text
    /\ reading' = IF reading = None \/ text = file THEN reading
                  ELSE [allow |-> reading.allow \cup text.allow,
                        loads |-> reading.loads \/ text.text = "loads",
                        steady |-> FALSE]
    /\ UNCHANGED <<guard, hangup, loaded, liveVars>>

(* apply_remote_config has parsed the file, and truncates it. *)
ApplyBegins ==
    /\ sync = "apply"
    /\ file.text # "broken"
    /\ sync' = "write"
    /\ draft' = Rewritten
    /\ \E text \in Beginning(Rewritten) : Writes(text)
    /\ UNCHANGED <<versions, last, remote, pidValid, calm>>

ApplyEnds ==
    /\ sync = "write"
    /\ sync' = "signal"
    /\ Writes(draft)
    /\ last' = remote.at
    /\ remote' = None /\ draft' = None
    /\ UNCHANGED <<versions, pidValid, calm>>

(* The file cannot be read or parsed, or the write fails half-way. *)
ApplyFailure ==
    /\ \/ sync = "apply" /\ (~calm \/ file.text = "broken")
       \/ sync = "write" /\ ~calm
    /\ sync' = "sleep" /\ draft' = None
    /\ UNCHANGED <<versions, pidValid, file, guardVars, calm>>

(* Variation: the version is recorded whether or not it was applied. *)
ApplyFailsRecorded == ApplyFailure /\ last' = remote.at /\ remote' = None

ApplyFails == ApplyFailure /\ remote' = None /\ UNCHANGED last

(* SIGHUP reaches the reload task, or ends a Guard whose handler is not    *)
(* installed yet.                                                          *)
Hangup ==
    IF guard = "up"
    THEN hangup' = TRUE /\ UNCHANGED <<guard, reading, pidValid>>
    ELSE guard' = "down" /\ reading' = None /\ pidValid' = FALSE /\ UNCHANGED hangup

(* send_sighup, to a Guard that may no longer be there: not tried again. *)
Signalled ==
    /\ sync = "signal"
    /\ sync' = "sleep"
    /\ IF pidValid THEN Hangup ELSE UNCHANGED <<hangup, guard, reading, pidValid>>
    /\ UNCHANGED <<versions, last, remote, draft, file, loaded, liveVars, calm>>

PollAgain ==
    /\ sync = "sleep"
    /\ sync' = "poll"
    /\ UNCHANGED <<versions, last, remote, draft, pidValid, file, guardVars, calm>>

(* sync-config is killed and started again, with the pid of the Guard. *)
SyncRestarts ==
    /\ ~calm
    /\ sync' = "poll" /\ last' = None /\ remote' = None /\ draft' = None
    /\ pidValid' = (guard # "down")
    /\ UNCHANGED <<versions, file, guardVars, calm>>

-----------------------------------------------------------------------------
(* The Guard and its reload task. *)

(* load opens the file. *)
ReadBegins ==
    /\ reading = None
    /\ reading' = [allow |-> file.allow, loads |-> file.text = "loads", steady |-> TRUE]

(* What load may make of what was read: the list, or None if it refuses    *)
(* it.  Of a file that changed, read_to_string returns pieces of each of   *)
(* its texts.  (No peer's line is pieced together into another peer's.)    *)
Loads(sight) ==
    IF sight.steady THEN {IF sight.loads THEN sight.allow ELSE None}
    ELSE {None} \cup IF sight.loads THEN SUBSET sight.allow ELSE {}

(* Several signals count as one. *)
HangupTaken ==
    /\ hangup /\ loaded = None
    /\ hangup' = FALSE
    /\ ReadBegins
    /\ UNCHANGED <<versions, syncVars, file, guard, loaded, liveVars, calm>>

(* load is over; what it refuses changes nothing. *)
ReloadRead ==
    /\ guard = "up" /\ reading # None
    /\ \E list \in Loads(reading) :
        loaded' = IF list = None THEN None
                  ELSE [allow |-> list, overtaken |-> ~reading.steady]
    /\ reading' = None
    /\ UNCHANGED <<versions, syncVars, file, guard, hangup, liveVars, calm>>

(* The reload task has sent it, and the loop takes ReloadWhitelist. *)
ReloadTaken ==
    /\ loaded # None
    /\ whitelist' = loaded.allow /\ overtaken' = loaded.overtaken
    /\ loaded' = None
    /\ UNCHANGED <<versions, syncVars, file, guard, reading, hangup, calm>>

(* kill -HUP, or systemctl reload. *)
OperatorReloads ==
    /\ guard # "down"
    /\ Hangup
    /\ UNCHANGED <<versions, sync, last, remote, draft, file, loaded, liveVars, calm>>

GuardStops ==
    /\ ~calm /\ guard # "down"
    /\ guard' = "down"
    /\ reading' = None /\ hangup' = FALSE /\ loaded' = None
    /\ pidValid' = FALSE
    /\ UNCHANGED <<versions, sync, last, remote, draft, file, liveVars, calm>>

GuardStarts ==
    /\ guard = "down"
    /\ guard' = "loading"
    /\ ReadBegins
    /\ UNCHANGED <<versions, syncVars, file, hangup, loaded, liveVars, calm>>

(* The Guard starts from what it has read, or not at all; it builds its    *)
(* node and may wait for its relay before it installs the handler of       *)
(* SIGHUP.                                                                 *)
GuardLoads ==
    /\ guard = "loading"
    /\ \E list \in Loads(reading) :
        IF list # None
        THEN /\ guard' = "starting" /\ UNCHANGED pidValid
             /\ whitelist' = list /\ overtaken' = ~reading.steady
        ELSE guard' = "down" /\ pidValid' = FALSE /\ UNCHANGED liveVars
    /\ reading' = None
    /\ UNCHANGED <<versions, sync, last, remote, draft, file, hangup, loaded, calm>>

GuardReady ==
    /\ guard = "starting"
    /\ guard' = "up"
    /\ UNCHANGED <<versions, syncVars, file, reading, hangup, loaded, liveVars, calm>>

-----------------------------------------------------------------------------
(* From some point on, perhaps: sync-config signals the Guard that runs,   *)
(* and no write, fetch, PUT or process fails.                              *)
Settles ==
    /\ ~calm /\ guard = "up" /\ pidValid
    /\ calm' = TRUE
    /\ UNCHANGED <<versions, syncVars, file, guardVars>>

SyncStep ==
    \/ Fetched \/ FetchFailed \/ ApplyBegins \/ ApplyEnds \/ ApplyFails
    \/ Signalled \/ PollAgain

SyncNext ==
    \/ SyncStep \/ HangupTaken \/ ReloadRead \/ ReloadTaken
    \/ SyncRestarts \/ OperatorReloads
    \/ GuardStops \/ GuardStarts \/ GuardLoads \/ GuardReady
    \/ Settles
    \/ \E version \in Version : Stored(version)

SyncSpec == SyncInit /\ [][SyncNext]_vars

(* The loop polls on, the reload task and the Guard's loop run.  Nothing   *)
(* forces a PUT, a process to start or the environment to settle.          *)
SyncFairness ==
    /\ WF_vars(SyncStep)
    /\ WF_vars(HangupTaken)
    /\ WF_vars(ReloadRead)
    /\ WF_vars(ReloadTaken)

FairSyncSpec == SyncSpec /\ SyncFairness

-----------------------------------------------------------------------------
SyncTypeOK ==
    /\ versions \in Seq(Version) /\ Len(versions) <= MaxVersions
    /\ sync \in {"poll", "apply", "write", "signal", "sleep"}
    /\ last \in {None} \cup 0..MaxStamp
    /\ remote \in {None} \cup Version
    /\ draft = None \/ draft \in File
    /\ file \in File
    /\ loaded \in {None} \cup Load
    /\ whitelist \in SUBSET Peer /\ overtaken \in BOOLEAN
    /\ guard \in {"down", "loading", "starting", "up"}
    /\ pidValid \in BOOLEAN /\ hangup \in BOOLEAN /\ calm \in BOOLEAN
    /\ reading \in {None} \cup Sight
    /\ reading # None => guard = "loading" \/ (guard = "up" /\ loaded = None)
    /\ guard = "loading" => reading # None
    /\ hangup \/ loaded # None => guard = "up"
    /\ remote # None <=> sync \in {"apply", "write"}
    /\ draft # None <=> sync = "write"

Lists == {{}} \cup {versions[i].allow : i \in DOMAIN versions}
OfOneVersion(list) == \E allow \in Lists : list \subseteq allow
OfSomeVersions(list) == list \subseteq UNION Lists

(* The Guard admits peers of two configurations at once only if a write    *)
(* overtook the read that gave them to it, at its start or at a SIGHUP: a  *)
(* file caught in the middle of a write, or left half-written, yields a    *)
(* part of one version.  And it never admits a peer no version has.        *)
MixesOnlyWhenOvertaken ==
    /\ overtaken \/ OfOneVersion(whitelist)
    /\ OfSomeVersions(whitelist)

(* Every place a list of peers passes through on its way from the store to *)
(* the whitelist (the row fetched, the text that is written, the file or   *)
(* what a write has left of it) holds peers of one version; what the       *)
(* reload task reads and hands on, too, unless the read was overtaken.     *)
CarriesOneVersion ==
    /\ remote # None => OfOneVersion(remote.allow)
    /\ draft # None => OfOneVersion(draft.allow)
    /\ OfOneVersion(file.allow)
    /\ reading # None => /\ ~reading.steady \/ OfOneVersion(reading.allow)
                         /\ OfSomeVersions(reading.allow)
    /\ loaded # None => /\ loaded.overtaken \/ OfOneVersion(loaded.allow)
                        /\ OfSomeVersions(loaded.allow)

(* The inductive invariant: where a version passes, and what it is there.  *)
SyncInv == SyncTypeOK /\ CarriesOneVersion /\ MixesOnlyWhenOvertaken

(* No version has a stamp that an earlier one had, or exceeded. *)
StampsGrow == \A i, j \in DOMAIN versions : i < j => versions[i].at < versions[j].at

(* "nux sync-config interroge periodiquement pour recharger guard.toml a   *)
(* chaud" (nux_gateway/README.md 30): once nothing goes wrong any more,    *)
(* the Guard comes to admit exactly the peers of the stored configuration, *)
(* whatever failed before and whatever mixture it read meanwhile, unless a *)
(* stamp did not grow or the file was left such that load refuses it.  It  *)
(* takes someone who answers FetchRoute: the gateway does not.             *)
ConfigurationArrives ==
    calm /\ versions # <<>> /\ StampsGrow /\ file.text = "loads"
        ~> versions # <<>> /\ whitelist = Row.allow

=============================================================================
