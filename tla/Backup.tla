-------------------------------- MODULE Backup --------------------------------
(* Backups of the database and their restoration (services/backup_service.py).
   A backup writes its dump, computes the checksum of the file and writes it to a
   second file; the name of a dump is the second it started in, or one that was
   asked for. A restoration verifies the file and then reads it again, with no lock
   on the file or on the database. *)
EXTENDS Naturals

CONSTANTS Files, Dumpers, Restorers,
          MaxData, MaxBackups, MaxRestores

VARIABLES
    data,      \* the content of the database
    contents,  \* the contents it has had so far, numbered
    dump,      \* the files: the content each was made of, and whether all of it is there
    sum,       \* the checksum files
    dumper,    \* the backups under way
    restorer,  \* the restorations, with what each verified
    backups, restores,
    clashed    \* observer: files that two backups wrote at once

backupVars == <<data, contents, dump, sum, dumper, restorer, backups, restores, clashed>>

NoDump == [of |-> 0, intact |-> FALSE]
IdleDumper == [at |-> "idle", file |-> "", of |-> 0, digest |-> NoDump]

(* checked, alone, got: whether there was a checksum; whether nothing else has written
   the file since it was verified, nor the database since it was first overwritten; and
   what the database held in the end. *)
IdleRestorer == [at |-> "idle", file |-> "", verified |-> NoDump, checked |-> FALSE, alone |-> FALSE, got |-> 0]

BackupInit ==
    /\ data = 1 /\ contents = 1
    /\ dump = [f \in Files |-> NoDump] /\ sum = [f \in Files |-> NoDump]
    /\ dumper = [d \in Dumpers |-> IdleDumper] /\ restorer = [r \in Restorers |-> IdleRestorer]
    /\ backups = 0 /\ restores = 0 /\ clashed = {}

(* The database gets a content it has not had. *)
NewContent == data' = contents + 1 /\ contents' = contents + 1

Meanwhile(rs) == [r \in Restorers |-> IF r \in rs THEN [restorer[r] EXCEPT !.alone = FALSE] ELSE restorer[r]]

Copying == {r \in Restorers : restorer[r].at = "copy"}
Reading(f) == {r \in Restorers : restorer[r].at \in {"verified", "copy"} /\ restorer[r].file = f}

DataChanges ==
    /\ contents < MaxData /\ NewContent
    /\ restorer' = Meanwhile(Copying)
    /\ UNCHANGED <<dump, sum, dumper, backups, restores, clashed>>

(* The dump is of one snapshot, whatever the database holds, and overwrites what has
   its name. *)
StartDump(d, f) ==
    /\ dumper[d].at = "idle" /\ backups < MaxBackups
    /\ backups' = backups + 1
    /\ dumper' = [dumper EXCEPT ![d] = [at |-> "dump", file |-> f, of |-> data, digest |-> NoDump]]
    /\ dump' = [dump EXCEPT ![f] = [of |-> data, intact |-> FALSE]]
    /\ clashed' = clashed \union {x \in {f} : \E o \in Dumpers \ {d} : dumper[o].file = x}
    /\ restorer' = Meanwhile(Reading(f))
    /\ UNCHANGED <<data, contents, sum, restores>>

Contending(d) == {o \in Dumpers \ {d} : dumper[o].at = "dump" /\ dumper[o].file = dumper[d].file}

(* Two processes that write one file may garble it. *)
EndDump(d) ==
    /\ dumper[d].at = "dump"
    /\ dumper' = [dumper EXCEPT ![d].at = "digest"]
    /\ \E intact \in {TRUE} \union {FALSE : o \in Contending(d)} :
          dump' = [dump EXCEPT ![dumper[d].file] = [of |-> dumper[d].of, intact |-> intact]]
    /\ restorer' = Meanwhile(Reading(dumper[d].file))
    /\ UNCHANGED <<data, contents, sum, backups, restores, clashed>>

Digest(d) ==
    /\ dumper[d].at = "digest"
    /\ dumper' = [dumper EXCEPT ![d].at = "sum", ![d].digest = dump[dumper[d].file]]
    /\ UNCHANGED <<data, contents, dump, sum, restorer, backups, restores, clashed>>

WriteSum(d) ==
    /\ dumper[d].at = "sum"
    /\ sum' = [sum EXCEPT ![dumper[d].file] = dumper[d].digest]
    /\ dumper' = [dumper EXCEPT ![d] = IdleDumper]
    /\ UNCHANGED <<data, contents, dump, restorer, backups, restores, clashed>>

CrashDump(d) ==
    /\ dumper[d].at # "idle"
    /\ dumper' = [dumper EXCEPT ![d] = IdleDumper]
    /\ UNCHANGED <<data, contents, dump, sum, restorer, backups, restores, clashed>>

(* A missing checksum file counts as a match. What is left of a dump that was cut
   short may be readable: its table of contents is, and where the tool that reads
   it is missing every file is taken for readable. *)
ChecksumMatches(f) == sum[f] = NoDump \/ sum[f] = dump[f]

VerifyReadable(f) == dump[f] # NoDump

VerifyBackup(f) == dump[f] # NoDump /\ ChecksumMatches(f)

VerifyFirst(r, f) ==
    /\ restorer[r].at = "idle" /\ restores < MaxRestores /\ VerifyBackup(f)
    /\ restores' = restores + 1
    /\ restorer' = [restorer EXCEPT ![r] = [at |-> "verified", file |-> f, verified |-> dump[f],
                                            checked |-> sum[f] # NoDump, alone |-> TRUE, got |-> 0]]
    /\ UNCHANGED <<data, contents, dump, sum, dumper, backups, clashed>>

(* One object after the other is dropped and created: from the first on the database
   holds neither what it held nor what it will. *)
BeginCopy(r) ==
    /\ restorer[r].at = "verified" /\ NewContent
    /\ restorer' = [Meanwhile(Copying) EXCEPT ![r] =
           [restorer[r] EXCEPT !.at = "copy", !.alone = restorer[r].alone /\ Copying = {}]]
    /\ UNCHANGED <<dump, sum, dumper, backups, restores, clashed>>

(* The copy of an intact file that nothing disturbed is what the file was made of. *)
EndCopy(r) ==
    LET read == dump[restorer[r].file] IN
    /\ restorer[r].at = "copy"
    /\ IF read.intact /\ restorer[r].alone THEN data' = read.of /\ UNCHANGED contents ELSE NewContent
    /\ restorer' = [restorer EXCEPT ![r].at = "restored", ![r].got = data']
    /\ UNCHANGED <<dump, sum, dumper, backups, restores, clashed>>

(* An error or a crash: the database stays as it is. *)
AbortRestore(r) ==
    /\ restorer[r].at \in {"verified", "copy"}
    /\ restorer' = [restorer EXCEPT ![r] = IdleRestorer]
    /\ UNCHANGED <<data, contents, dump, sum, dumper, backups, restores, clashed>>

BackupNext ==
    \/ DataChanges
    \/ \E d \in Dumpers : \/ \E f \in Files : StartDump(d, f)
                          \/ EndDump(d) \/ Digest(d) \/ WriteSum(d) \/ CrashDump(d)
    \/ \E r \in Restorers : \/ \E f \in Files : VerifyFirst(r, f)
                            \/ BeginCopy(r) \/ EndCopy(r) \/ AbortRestore(r)

BackupSpec == BackupInit /\ [][BackupNext]_backupVars
-----------------------------------------------------------------------------
(* A restoration that succeeds and found a checksum leaves the database with what it
   held, all of it, when the backup of that file began: not with what a backup that
   died had written over it, and unless two backups wrote the file at once, or
   something else wrote the file or the database while the restoration ran.
   create_backup, verify_backup, restore_backup. *)
RestoresAreWhole ==
    \A r \in Restorers :
        LET run == restorer[r] IN
        run.at = "restored" /\ run.checked /\ run.alone /\ run.file \notin clashed =>
            run.verified.intact /\ run.got = run.verified.of
=============================================================================
