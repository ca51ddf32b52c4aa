------------------------------- MODULE Backup -------------------------------
(***************************************************************************)
(* Backup, verification, restore and pruning of backup sets (apps/api/dr). *)
(*                                                                         *)
(* A set is a directory named by the second its run began.  A run dumps    *)
(* the database, archives the objects, encrypts, writes the manifest,      *)
(* verifies, copies off site and prunes; it may be killed between any two  *)
(* of these.  Restores and drills read the same directories, and stored    *)
(* bytes may rot at any time.                                              *)
(***************************************************************************)
EXTENDS Naturals, FiniteSets

CONSTANTS
    Runs,          \* backup runs: the beat task and the command line
    MaxSecond,     \* bound on time; a set's name is its second
    KeepSets,       \* backup_min_keep
    Deployments,   \* the settings: encrypt, key (is one configured), verify, offsite
    RetainFor,     \* backup_retention_days, in the same unit as time
    Perishable,    \* the components whose stored bytes may rot
    MaxRot         \* bound on the files that rot

ASSUME BackupAssumption ==
    /\ KeepSets \in Nat /\ RetainFor \in Nat /\ MaxSecond \in Nat /\ MaxRot \in Nat
    /\ Deployments \subseteq [encrypt : BOOLEAN, key : BOOLEAN, verify : BOOLEAN, offsite : BOOLEAN]

VARIABLES
    second,    \* the clock
    config,    \* the settings of the deployment
    sets,      \* name -> directory
    run,       \* run -> its progress
    offsite,   \* the sets that have an off-site copy
    restore,   \* the operator's restore or drill
    rotted     \* how many files have rotted

backupVars == <<second, config, sets, run, offsite, restore, rotted>>

SetNames == 0 .. MaxSecond
Parts == {"mysql", "objects"}
NoFile == [data |-> "none", enc |-> FALSE, rot |-> FALSE]
NoDir == [exists |-> FALSE, file |-> [c \in Parts |-> NoFile],
          sum |-> [c \in Parts |-> NoFile], manifest |-> "none",
          errors |-> {}, enc |-> FALSE, shared |-> FALSE, stamped |-> FALSE]
\* shared: history, more than one run has used the directory, or it was pruned
\* under the run that was writing it.
NoRun == [at |-> "idle"]
NoRestore == [at |-> "idle", name |-> 0, rotten |-> FALSE,
              got |-> NoFile]

Writing == [mysql |-> "dumping", objects |-> "archiving"]
Dir(r) == sets[run[r].name]
Step(r, at) == run' = [run EXCEPT ![r].at = at]

-----------------------------------------------------------------------------
(* run_backup                                                              *)

\* mkdir(exist_ok=True): a second run in the same second shares the directory.
BackupStart(r) ==
    /\ run[r] = NoRun /\ ~sets[second].shared   \* bound: at most two runs in one second
    /\ run' = [run EXCEPT ![r] = [at |-> "mysql", name |-> second, failed |-> {}]]
    /\ sets' = [sets EXCEPT ![second].exists = TRUE, ![second].shared = sets[second].exists]
    /\ UNCHANGED <<second, config, offsite, restore, rotted>>

\* The directory is made again if it is gone (mkdir, exist_ok); the dump and
\* the archive are opened for writing, which truncates them.
ComponentOpen(r, c) ==
    /\ run[r].at = c
    /\ sets' = [sets EXCEPT ![run[r].name].exists = TRUE,
                            ![run[r].name].file[c] = [NoFile EXCEPT !.data = "partial"]]
    /\ Step(r, Writing[c])
    /\ UNCHANGED <<second, config, offsite, restore, rotted>>

NextStep(c) == IF c = "mysql" THEN "objects" ELSE "encrypt"

\* backup_mysql / backup_objects return and the checksum sidecar is written ...
ComponentDone(r, c) ==
    /\ run[r].at = Writing[c] /\ Dir(r).file[c].data # "none"
    /\ LET whole == [NoFile EXCEPT !.data = "full"] IN
          sets' = [sets EXCEPT ![run[r].name].file[c] = whole, ![run[r].name].sum[c] = whole]
    /\ Step(r, NextStep(c))
    /\ UNCHANGED <<second, config, offsite, restore, rotted>>

\* ... or raise, before the file is opened, in the middle of it or because it
\* is gone: the error goes into the manifest and the run goes on.
ComponentFails(r, c) ==
    /\ run[r].at \in {c, Writing[c]}
    /\ run' = [run EXCEPT ![r].at = NextStep(c), ![r].failed = @ \cup {c}]
    /\ UNCHANGED <<second, config, sets, offsite, restore, rotted>>

\* encrypt_file leaves a file that is already encrypted alone.
Encrypted(f) == [f EXCEPT !.enc = f.data # "none"]

Complete(d) == \A c \in Parts : d.file[c].data # "none"

\* Only a clean set is encrypted, and checksummed again over the ciphertext.
Encrypt(r) ==
    /\ run[r].at = "encrypt"
    /\ \/ /\ config.encrypt /\ config.key /\ run[r].failed = {} /\ Complete(Dir(r))
          /\ LET f == [c \in Parts |-> Encrypted(Dir(r).file[c])] IN
                sets' = [sets EXCEPT ![run[r].name].file = f, ![run[r].name].sum = f]
          /\ Step(r, "manifest")
       \/ /\ ~config.encrypt \/ run[r].failed # {}
          /\ UNCHANGED sets
          /\ Step(r, "manifest")
       \/ /\ config.encrypt /\ run[r].failed = {}
          /\ ~config.key \/ ~Complete(Dir(r))     \* load_backup_key or encrypt_file raises
          /\ UNCHANGED sets
          /\ run' = [run EXCEPT ![r] = NoRun]
    /\ UNCHANGED <<second, config, offsite, restore, rotted>>

\* Without the directory the write raises and the run is over.
WriteManifest(r) ==
    /\ run[r].at = "manifest"
    /\ \/ /\ Dir(r).exists
          /\ sets' = [sets EXCEPT ![run[r].name].manifest =
                                      IF run[r].failed = {} THEN "completed" ELSE "failed",
                                  ![run[r].name].errors = run[r].failed,
                                  ![run[r].name].enc = config.encrypt /\ run[r].failed = {}]
          /\ Step(r, "verify")
       \/ /\ ~Dir(r).exists
          /\ UNCHANGED sets
          /\ run' = [run EXCEPT ![r] = NoRun]
    /\ UNCHANGED <<second, config, offsite, restore, rotted>>

-----------------------------------------------------------------------------
(* Verification                                                            *)

_checksum_matches(d, c) == d.sum[c] = NoFile \/ d.sum[c] = d.file[c]

\* Mutant: the tag of the ciphertext is not checked.
decrypt_bytesUnauthenticated(f) == [f EXCEPT !.enc = FALSE]

\* AES-GCM: a flipped byte or a plaintext file raises DecryptionError.
decrypt_bytes(f) == IF f.enc /\ ~f.rot THEN [f EXCEPT !.enc = FALSE] ELSE NoFile

Plaintext(d, c) == IF d.enc THEN decrypt_bytes(d.file[c]) ELSE d.file[c]

\* verify_mysql_archive looks for the header near the top of the file,
\* verify_objects_archive reads the whole archive.
StructureHolds(f, c) ==
    IF c = "mysql" THEN f.data # "none" /\ ~f.enc ELSE f.data = "full" /\ ~f.enc /\ ~f.rot

\* A component the manifest records as failed is not looked at.
verify_backup(d) ==
    /\ d.manifest # "none"
    /\ \A c \in Parts \ d.errors : _checksum_matches(d, c) /\ StructureHolds(Plaintext(d, c), c)

\* The run verifies its own set and stamps success or failure.
Verify(r) ==
    /\ run[r].at = "verify"
    /\ LET ok == run[r].failed = {} /\ (config.verify => verify_backup(Dir(r))) IN
          /\ sets' = [sets EXCEPT ![run[r].name].stamped = @ \/ ok]
          /\ Step(r, IF ok /\ config.offsite THEN "offsite" ELSE "cleanup")
    /\ UNCHANGED <<second, config, offsite, restore, rotted>>

list_backup_sets == {n \in SetNames : sets[n].exists}

\* _replicate_offsite: every file is copied, or the error is swallowed.
Replicate(r) ==
    /\ run[r].at = "offsite"
    /\ offsite' \in {offsite} \cup {offsite \cup {n} : n \in {run[r].name} \cap list_backup_sets}
    /\ Step(r, "cleanup")
    /\ UNCHANGED <<second, config, sets, restore, rotted>>

-----------------------------------------------------------------------------
(* Pruning                                                                 *)

NewerSets(n) == {k \in list_backup_sets : k > n}
keep == IF KeepSets > 1 THEN KeepSets ELSE 1

\* sets[:-keep], those of them older than the cutoff
Pruned == {n \in list_backup_sets : Cardinality(NewerSets(n)) >= keep /\ n + RetainFor < second}

\* rmtree, whether or not a run is writing the directory.
InUse(n) == \E r \in Runs : run[r] # NoRun /\ run[r].name = n
cleanup_old_backups ==
    sets' = [n \in SetNames |->
                IF n \in Pruned THEN [NoDir EXCEPT !.shared = sets[n].shared \/ InUse(n)] ELSE sets[n]]

Cleanup(r) ==
    /\ run[r].at = "cleanup"
    /\ cleanup_old_backups
    /\ run' = [run EXCEPT ![r] = NoRun]
    /\ UNCHANGED <<second, config, offsite, restore, rotted>>

\* python -m apps.api.dr cleanup
CleanupCommand ==
    /\ cleanup_old_backups
    /\ UNCHANGED <<second, config, run, offsite, restore, rotted>>

\* The worker is killed, or the soft time limit escapes run_backup.
BackupDies(r) ==
    /\ run[r] # NoRun
    /\ run' = [run EXCEPT ![r] = NoRun]
    /\ UNCHANGED <<second, config, sets, offsite, restore, rotted>>

-----------------------------------------------------------------------------
(* Restore and drill                                                       *)

latest_backup_set(n) == n \in list_backup_sets /\ NewerSets(n) = {}

\* run_restore: the manifest must exist and, when enabled, the set verify.
\* A drill takes the latest set, verifies always and refuses the live database.
RestoreStart(n, target) ==
    /\ restore.at = "idle"
    /\ sets[n].manifest # "none"
    /\ config.verify => verify_backup(sets[n])
    /\ target = "scratch" => latest_backup_set(n) /\ verify_backup(sets[n])
    /\ restore' = [NoRestore EXCEPT !.at = "load", !.name = n,
                                       !.rotten = sets[n].file["mysql"].rot /\ "mysql" \notin sets[n].errors]
    /\ UNCHANGED <<second, config, sets, run, offsite, rotted>>

\* The files are read again after the verification, and loaded.
RestoreLoad ==
    /\ restore.at = "load"
    /\ LET d == sets[restore.name]
           f == IF d.exists THEN Plaintext(d, "mysql") ELSE NoFile
       IN restore' = [restore EXCEPT !.at = "loaded", !.got = f]
    /\ UNCHANGED <<second, config, sets, run, offsite, rotted>>

RestoreEnds ==
    /\ restore.at = "loaded"   \* reported as a success unless got is NoFile
    /\ restore' = NoRestore
    /\ UNCHANGED <<second, config, sets, run, offsite, rotted>>

Second ==
    /\ second < MaxSecond
    /\ second' = second + 1
    /\ UNCHANGED <<config, sets, run, offsite, restore, rotted>>

\* Bytes of a finished set change on disk.
Rot(n, c) ==
    /\ rotted < MaxRot /\ sets[n].manifest # "none"
    /\ sets[n].file[c].data # "none" /\ ~sets[n].file[c].rot
    /\ sets' = [sets EXCEPT ![n].file[c].rot = TRUE]
    /\ rotted' = rotted + 1
    /\ UNCHANGED <<second, config, run, offsite, restore>>

BackupInit ==
    /\ second = 0
    /\ config \in Deployments
    /\ sets = [n \in SetNames |-> NoDir]
    /\ run = [r \in Runs |-> NoRun]
    /\ offsite = {}
    /\ restore = NoRestore
    /\ rotted = 0

BackupNext ==
    \/ \E r \in Runs :
          \/ BackupStart(r) \/ Encrypt(r) \/ WriteManifest(r) \/ Verify(r)
          \/ Replicate(r) \/ Cleanup(r) \/ BackupDies(r)
          \/ \E c \in Parts : ComponentOpen(r, c) \/ ComponentDone(r, c) \/ ComponentFails(r, c)
    \/ CleanupCommand \/ RestoreLoad \/ RestoreEnds \/ Second
    \/ \E n \in SetNames :
          \/ \E target \in {"live", "scratch"} : RestoreStart(n, target)
          \/ \E c \in Perishable : Rot(n, c)

-----------------------------------------------------------------------------
(* Properties                                                              *)

Files == [data : {"none", "partial", "full"}, enc : BOOLEAN, rot : BOOLEAN]

BackupTypeOK ==
    /\ second \in SetNames /\ rotted \in 0 .. MaxRot
    /\ \A n \in SetNames : sets[n].file \in [Parts -> Files] /\ sets[n].errors \subseteq Parts
    /\ restore.got \in Files

(* A set whose run stamped it successful, written by that run alone, not   *)
(* pruned under it and whose bytes have not rotted, verifies and holds the *)
(* whole database -- whatever other runs do, die or prune meanwhile.       *)
SuccessIsRestorable ==
    \A n \in SetNames :
        /\ sets[n].stamped /\ ~sets[n].shared
        /\ \A c \in Parts : ~sets[n].file[c].rot
        => verify_backup(sets[n]) /\ Plaintext(sets[n], "mysql").data = "full"

(* crypto.py, "fails CLOSED": a restore never loads rotten bytes from an   *)
(* encrypted set, even when the rot strikes after the verification, nor,   *)
(* where verification is enabled, from a dump the manifest vouches for and *)
(* that had rotted before the verification.                                *)
FailsClosed ==
    restore.at = "loaded" /\ restore.got.rot /\ ~sets[restore.name].shared =>
        ~sets[restore.name].enc /\ (config.verify => ~restore.rotten)

(* The two at every step, and the newest max(min_keep, 1) directories      *)
(* survive every pruning, from whichever of the two callers.               *)
BackupsHold ==
    [][/\ SuccessIsRestorable' /\ FailsClosed'
       /\ \A n \in list_backup_sets : Cardinality(NewerSets(n)) < keep => sets'[n].exists]_backupVars

(* The docstring of cleanup_old_backups: "a burst of failures can't erase  *)
(* the last good backup".  Pruning never removes the only stamped set.     *)
LastGoodKept ==
    [][(\E n \in SetNames : sets[n].stamped) => \E n \in SetNames : sets'[n].stamped]_backupVars
=============================================================================
