----------------------------- MODULE ClientConfig -----------------------------
(***************************************************************************)
(* What a Mac remembers of a pairing: the pinned host key and the          *)
(* configuration file (src/internal/pairing/config.go), the readers of     *)
(* that file, and its migration from the old name (src/lib/otherhost.sh).  *)
(*                                                                         *)
(* A file is a sequence of lines, a line a key and a value; blank lines,   *)
(* comments and spaces belong to OtherLines or are left out.  The key      *)
(* "host" stands for host, ssh_user and ssh_port, which are written        *)
(* together.  Each file is replaced by a rename, so a crash falls between  *)
(* the replacements, never inside one.                                     *)
(***************************************************************************)
EXTENDS Subsequences, SequencesExt

CONSTANTS Runs,       \* runs of `otherhost pair`; a run writes its own host
          MaxLines,   \* bound on the lines of a file the user has at first
          Absent      \* a file that does not exist, a key no line has

VARIABLES
    conf,       \* otherhost.local.conf
    legacy,     \* devbox.local.conf
    pinned,     \* the host in known_hosts
    run,        \* where each run is, and what it holds in memory
    migration,  \* bootstrap-mac.sh --apply
    overlap,    \* history: two programs, or the user and one, were at work at once
    last,       \* history: the last run that replaced a file
    edited      \* history: the lines of the user's own

vars == <<conf, legacy, pinned, run, migration, overlap, last, edited>>

-----------------------------------------------------------------------------
(* Files and their readers *)

Line(key, value) == [key |-> key, value |-> value]

None == "none"

\* The keys a pairing sets, in the order in which it appends those it misses.
PairedKeys == <<"otherhost_name", "host", "known_hosts_file">>

\* Values that no pairing chooses, but for the path of known_hosts.
Texts == {"new name", "old name", "old", "new", "example", "CHANGE_ME", "path"}

Lines == [key   : ToSet(PairedKeys) \cup {"devbox_name", "ports"},
          value : Runs \cup Texts]

ASSUME ConfigAssumption ==
    /\ MaxLines \in Nat /\ Runs \cap Texts = {}
    /\ Absent \notin Runs \cup Texts /\ Absent \notin Seq(Lines)

\* Both readers, awk's and Go's, take the first line with the key.
Lookup(file, key) ==
    LET hits == Keep(file, {i \in DOMAIN file : file[i].key = key})
    IN IF hits = <<>> THEN Absent ELSE hits[1].value

MachineName(file) ==
    IF Lookup(file, "otherhost_name") # Absent THEN Lookup(file, "otherhost_name")
                                               ELSE Lookup(file, "devbox_name")

\* What ssh and the dashboard are given.  A run without a known_hosts_file does
\* not ask for strict checking.
Reading(file) == [name   |-> MachineName(file),
                  host   |-> Lookup(file, "host"),
                  strict |-> Lookup(file, "known_hosts_file") # Absent]

OtherLines(file) ==
    Keep(file, {i \in DOMAIN file :
                  file[i].key \notin ToSet(PairedKeys) \cup {"devbox_name"}})

\* Faulty variant: the path of known_hosts is not passed on.
ValueWithoutPath(r, key) == IF key = "known_hosts_file" THEN Absent ELSE r

ValueFrom(r, key) == IF key = "known_hosts_file" THEN "path" ELSE r

\* Faulty variants: the keys are appended whatever the file holds; the file is
\* rebuilt from the keys of the pairing.
UpdateByAppending(file, r) ==
    file \o [i \in DOMAIN PairedKeys |-> Line(PairedKeys[i], ValueFrom(r, PairedKeys[i]))]

UpdateFromScratch(file, r) ==
    [i \in DOMAIN PairedKeys |-> Line(PairedKeys[i], ValueFrom(r, PairedKeys[i]))]

\* A line with a key of the pairing is rewritten, the old name of the machine under
\* its new key.
Rewritten(line, r) ==
    LET key == IF line.key = "devbox_name" THEN "otherhost_name" ELSE line.key
    IN IF key \in ToSet(PairedKeys) THEN Line(key, ValueFrom(r, key)) ELSE line

\* updateKeyValueFile: every line is rewritten, and missing keys are appended.
Update(file, r) ==
    LET kept    == [i \in DOMAIN file |-> Rewritten(file[i], r)]
        missing == Keep(PairedKeys, {i \in DOMAIN PairedKeys : Lookup(kept, PairedKeys[i]) = Absent})
    IN kept \o [i \in DOMAIN missing |-> Line(missing[i], ValueFrom(r, missing[i]))]

\* Faulty variant: the old name is dropped even if there is no new one.
MigratedDroppingName(file) == Keep(file, {i \in DOMAIN file : file[i].key # "devbox_name"})

\* otherhost_migrate_config: the first old name becomes the new one unless the
\* file has a new one anywhere; the other old names go.
Migrated(file) ==
    LET old     == {i \in DOMAIN file : file[i].key = "devbox_name"}
        hasName == \E i \in DOMAIN file : file[i].key = "otherhost_name"
        first   == {i \in old : ~hasName /\ \A j \in old : i <= j}
    IN Keep([i \in DOMAIN file |-> IF i \in old THEN Line("otherhost_name", file[i].value)
                                                ELSE file[i]],
            (DOMAIN file \ old) \cup first)

\* config/otherhost.example.conf
Example == <<Line("otherhost_name", "example"), Line("host", "CHANGE_ME"),
             Line("known_hosts_file", "path"), Line("ports", "example")>>

\* Lines a user may have at first: of an earlier pairing, of a hand-written file.
UserLines == {Line("otherhost_name", "new name"), Line("devbox_name", "old name"),
              Line("host", "old"), Line("known_hosts_file", "path"), Line("ports", "old")}

IsFile(f) == f # Absent

\* The file every command reads and pairing writes.
Chosen == IF IsFile(conf) \/ ~IsFile(legacy) THEN "conf" ELSE "legacy"

Content(which) == IF which = "conf" THEN conf ELSE legacy

Replace(which, file) ==
    /\ conf' = IF which = "conf" THEN file ELSE conf
    /\ legacy' = IF which = "legacy" THEN file ELSE legacy

-----------------------------------------------------------------------------
Waiting == [at |-> "waiting"]
Ended == {"saved", "failed", "crashed"}

Active(r) == run[r].at \notin Ended \cup {"waiting"}
Busy == migration.at = "writing" \/ \E r \in Runs : Active(r)

Memory == [at : {"pairing", "pinning", "reading"}, file : {"conf", "legacy"},
           pinBefore : Runs \cup {"old"}]

RunStates == {Waiting} \cup [at : Ended] \cup Memory
               \cup [at : {"saving"}, file : {"conf", "legacy"}, pinBefore : Runs \cup {"old"},
                     output : Seq(Lines)]

MigrationStates == {Waiting} \cup [at : {"done", "failed"}]
                     \cup [at : {"writing"}, output : Seq(Lines)]

TypeOK ==
    /\ IsFile(conf) => conf \in Seq(Lines)
    /\ IsFile(legacy) => legacy \in Seq(Lines)
    /\ pinned \in Runs \cup {"old"}
    /\ run \in [Runs -> RunStates] /\ migration \in MigrationStates
    /\ overlap \in BOOLEAN /\ last \in Runs \cup {None}
    /\ edited \in Seq(Lines)

\* A Mac that may have been paired before, with a file of either name.
Init ==
    /\ \E file \in BoundedSeq(UserLines, MaxLines) \cup {Absent} :
         /\ \/ conf = file /\ legacy = Absent
            \/ conf = Absent /\ legacy = file
         /\ edited = IF IsFile(file) THEN OtherLines(file) ELSE <<>>
    /\ pinned = "old"
    /\ run = [r \in Runs |-> Waiting] /\ migration = Waiting
    /\ overlap = FALSE /\ last = None

-----------------------------------------------------------------------------
(* `otherhost pair` *)

\* The command chooses its file, creates it if there is none, and starts the helper.
StartPair(r) ==
    /\ run[r].at = "waiting"
    /\ run' = [run EXCEPT ![r] = [at |-> "pairing", file |-> Chosen, pinBefore |-> pinned]]
    /\ IF IsFile(Content(Chosen))
       THEN UNCHANGED <<conf, legacy, edited>>
       ELSE conf' = Example /\ edited' = OtherLines(Example) /\ UNCHANGED legacy
    /\ overlap' = (overlap \/ Busy)
    /\ UNCHANGED <<pinned, migration, last>>

\* Pair succeeds (it is modelled in Pairing), and its result passes the checks at
\* the head of SaveClientConfiguration.
Paired(r) ==
    /\ run[r].at = "pairing"
    /\ run' = [run EXCEPT ![r].at = "pinning"]
    /\ UNCHANGED <<conf, legacy, pinned, migration, overlap, last, edited>>

Pin(r) ==
    /\ run[r].at = "pinning"
    /\ pinned' = r /\ last' = r
    /\ run' = [run EXCEPT ![r].at = "reading"]
    /\ UNCHANGED <<conf, legacy, migration, overlap, edited>>

\* A file that is missing is read as an empty one.
ReadConfig(r) ==
    /\ run[r].at = "reading"
    /\ LET file == Content(run[r].file)
           before == IF IsFile(file) THEN file ELSE <<>>
       IN run' = [run EXCEPT ![r] = [at |-> "saving", file |-> @.file, pinBefore |-> @.pinBefore,
                                     output |-> Update(before, r)]]
    /\ UNCHANGED <<conf, legacy, pinned, migration, overlap, last, edited>>

SaveConfig(r) ==
    /\ run[r].at = "saving"
    /\ Replace(run[r].file, run[r].output)
    /\ last' = r
    /\ run' = [run EXCEPT ![r] = [at |-> "saved"]]
    /\ UNCHANGED <<pinned, migration, overlap, edited>>

\* Pairing, or one of writeAtomic's calls, fails; the temporary file is removed.
\* The command then prints "pairing stopped before the local connection was updated".
FailPair(r) ==
    /\ Active(r)
    /\ run' = [run EXCEPT ![r] = [at |-> "failed"]]
    /\ UNCHANGED <<conf, legacy, pinned, migration, overlap, last, edited>>

\* The process is killed; a temporary file may stay, which nobody reads.
CrashPair(r) ==
    /\ Active(r)
    /\ run' = [run EXCEPT ![r] = [at |-> "crashed"]]
    /\ UNCHANGED <<conf, legacy, pinned, migration, overlap, last, edited>>

-----------------------------------------------------------------------------
(* bootstrap-mac.sh --apply, and the user's editor *)

\* The script's guard (the new file is missing, the old one is not), and awk.
BeginMigration ==
    /\ migration.at = "waiting" /\ ~IsFile(conf) /\ IsFile(legacy)
    /\ migration' = [at |-> "writing", output |-> Migrated(legacy)]
    /\ overlap' = (overlap \/ Busy)
    /\ UNCHANGED <<conf, legacy, pinned, run, last, edited>>

EndMigration ==
    /\ migration.at = "writing"
    /\ conf' = migration.output
    /\ migration' = [at |-> "done"]
    /\ UNCHANGED <<legacy, pinned, run, overlap, last, edited>>

FailMigration ==
    /\ migration.at = "writing"
    /\ migration' = [at |-> "failed"]
    /\ UNCHANGED <<conf, legacy, pinned, run, overlap, last, edited>>

\* The user changes a port in the file that is in use.
Edit ==
    /\ IsFile(Content(Chosen))
    /\ \E i \in DOMAIN Content(Chosen) :
         /\ Content(Chosen)[i].key = "ports" /\ Content(Chosen)[i].value # "new"
         /\ LET file == [Content(Chosen) EXCEPT ![i].value = "new"]
            IN Replace(Chosen, file) /\ edited' = OtherLines(file)
    /\ overlap' = (overlap \/ Busy)
    /\ UNCHANGED <<pinned, run, migration, last>>

Pair(r) == \/ StartPair(r) \/ Paired(r) \/ Pin(r) \/ ReadConfig(r) \/ SaveConfig(r)
           \/ FailPair(r) \/ CrashPair(r)

Next == (\E r \in Runs : Pair(r)) \/ BeginMigration \/ EndMigration \/ FailMigration \/ Edit

Spec == Init /\ [][Next]_vars

-----------------------------------------------------------------------------
(* Properties *)

InUse == Content(Chosen)

\* The file in use, when a pairing wrote it, goes with the pin, but while a later run is
\* between its two writes or has ended there.
PinFollows ==
    IsFile(InUse) /\ Lookup(InUse, "host") \in Runs =>
        \/ pinned = Lookup(InUse, "host")
        \/ \E r \in Runs : pinned = r /\ run[r].at \in {"reading", "saving", "failed", "crashed"}

\* After a run that reported "Connection saved", with nothing since, every reader
\* of the file finds that run's machine, with strict checking against its pin --
\* whatever duplicates and old keys the file held; and no other order of single runs
\* parts the file from its pin than a later run's two writes.
SavedConnects ==
    ~overlap =>
        /\ PinFollows
        /\ \A r \in Runs : run[r].at = "saved" /\ last = r =>
             /\ Reading(InUse) = [name |-> r, host |-> r, strict |-> TRUE]
             /\ pinned = r

\* The file is never half of one machine and half of another, even when runs overlap,
\* fail or die: its host and its name are one pairing's, and it asks for strict checking.
\* Whose key is pinned is not the file's to say: see SavedConnects and FailureLeavesPin.
OneMachine ==
    IsFile(InUse) /\ Lookup(InUse, "host") \in Runs =>
        Reading(InUse) = [name |-> Lookup(InUse, "host"), host |-> Lookup(InUse, "host"),
                          strict |-> TRUE]

\* Pairing and migration keep the lines that are the user's own, in their order.
SettingsSurvive == IsFile(InUse) /\ ~overlap => OtherLines(InUse) = edited

\* A migration that nothing overlaps changes what no reader reads.
MigrationKeepsReadings ==
    [][migration.at = "writing" /\ migration'.at = "done" /\ ~overlap
         => Reading(InUse') = Reading(InUse)]_vars

\* "pairing stopped before the local connection was updated": a run that fails has
\* not changed the pin the connection is checked against.
FailureLeavesPin ==
    [][\A r \in Runs : run[r].at \notin Ended /\ run'[r].at = "failed" /\ ~overlap
         => pinned' = run[r].pinBefore]_vars
=============================================================================
