---------------------------- MODULE PocketBaseOps ----------------------------
(***************************************************************************)
(* The life of the dedicated PocketBase on disk (ops/pocketbase.py, scripts *)
(* pocketbase_backup.py and pocketbase_restore.py, _run_daemon): provision  *)
(* and start by a daemon, backup, restore into a new directory, and the     *)
(* operator who promotes the copy, with a crash between any two writes.     *)
(* One release of the code, and one database, data.db.                      *)
(***************************************************************************)
EXTENDS Integers, FiniteSets, NoValue

CONSTANTS Identities,        \* what secrets.token_urlsafe may give, and any credentials a restore is handed
          Torn,                    \* a file created and not yet whole
          Unseeded,                \* a database whose seed migration failed
          PromoteUnfinished,       \* whether a copy whose restore was cut short may be promoted
          MaxVersion, MaxInterruptions   \* bounds

ASSUME DistinctAssumption ==
  /\ {None, Torn, Unseeded} \cap Identities = {} /\ None # Torn /\ None # Unseeded /\ Torn # Unseeded
  /\ None \notin {"backup", "manifest", "restore", "credentials", "fill", "marker"}
  /\ MaxVersion \in Nat

VARIABLES active,     \* .local/pocketbase: credentials, whether they were brought by a restore,
                      \* seed of data.db, its version, the marker
          copy,       \* the new isolated directory, or None
          backup,     \* the snapshot directory, or None
          launch,     \* where the daemon's start is: "down" .. "up"
          tool,       \* where backup or restore is, or None
          finished,   \* whether the restore of the copy returned
          restored,   \* whether the active directory is a promoted copy
          halted,     \* of the journal
          used,       \* identities drawn or brought so far
          interruptions
pocketbase_vars == <<active, copy, backup, launch, tool, finished, restored, halted, used, interruptions>>

Empty == [creds |-> None, brought |-> FALSE, seed |-> None, version |-> 0, marker |-> FALSE]

PocketBaseInit ==
  /\ active = Empty /\ copy = None /\ backup = None /\ launch = "down" /\ tool = None
  /\ finished = FALSE /\ restored = FALSE /\ halted = FALSE /\ used = {} /\ interruptions = 0

Files == <<active, copy, backup, finished, restored>>

----------------------------------------------------------------------------
(* The daemon: the marker, provision, start, daemon_client. *)

\* Mutant: the marker is not looked at.
LaunchAnyway ==
  /\ launch = "down" /\ launch' = "check" /\ UNCHANGED <<Files, tool, used, interruptions, halted>>

Launch ==
  /\ launch = "down" /\ launch' = "check" /\ halted' = (halted \/ active.marker)
  /\ UNCHANGED <<Files, tool, used, interruptions>>

\* Mutant: a database without its credentials is given new ones.
CheckReplaces ==
  /\ launch = "check"
  /\ launch' = IF active.creds # None THEN "migrate" ELSE "create"
  /\ UNCHANGED <<Files, tool, halted, used, interruptions>>

\* A database without its credentials is refused.
Check ==
  /\ launch = "check"
  /\ launch' = IF active.creds # None THEN "migrate" ELSE IF active.seed # None THEN "down" ELSE "create"
  /\ UNCHANGED <<Files, tool, halted, used, interruptions>>

Create ==
  /\ launch = "create" /\ active' = [active EXCEPT !.creds = Torn] /\ launch' = "write"
  /\ UNCHANGED <<copy, backup, finished, restored, tool, halted, used, interruptions>>

Write ==
  /\ launch = "write" /\ launch' = "migrate"
  /\ \E i \in Identities \ used : active' = [active EXCEPT !.creds = i] /\ used' = used \cup {i}
  /\ UNCHANGED <<copy, backup, finished, restored, tool, halted, interruptions>>

\* migrate up: the first run seeds the identities; without whole credentials it fails after
\* the database exists.
Migrate ==
  /\ launch = "migrate"
  /\ IF active.seed \in {None, Unseeded}
     THEN IF active.creds = Torn THEN active' = [active EXCEPT !.seed = Unseeded] /\ launch' = "down"
          ELSE active' = [active EXCEPT !.seed = active.creds] /\ launch' = "login"
     ELSE UNCHANGED active /\ launch' = "login"
  /\ UNCHANGED <<copy, backup, finished, restored, tool, halted, used, interruptions>>

Login ==
  /\ launch = "login" /\ launch' = IF active.creds = active.seed THEN "up" ELSE "down"
  /\ UNCHANGED <<Files, tool, halted, used, interruptions>>

\* Decisions and audit of the running panel.
Change ==
  /\ launch = "up" /\ active.version < MaxVersion
  /\ active' = [active EXCEPT !.version = @ + 1]
  /\ UNCHANGED <<copy, backup, launch, tool, finished, restored, halted, used, interruptions>>

Stop == launch = "up" /\ launch' = "down" /\ UNCHANGED <<Files, tool, halted, used, interruptions>>

----------------------------------------------------------------------------
(* The tools; both take a stopped panel, as the runbook asks. *)

\* The database is copied into a new directory, and the manifest follows it.
BackupBegin ==
  /\ tool = None /\ launch = "down" /\ active.seed # None
  /\ backup' = [seed |-> Torn, version |-> 0, manifest |-> FALSE] /\ tool' = "backup"
  /\ UNCHANGED <<active, copy, launch, finished, restored, halted, used, interruptions>>
BackupCopy ==
  /\ tool = "backup" /\ tool' = "manifest"
  /\ backup' = [backup EXCEPT !.seed = active.seed, !.version = active.version]
  /\ UNCHANGED <<active, copy, launch, finished, restored, halted, used, interruptions>>
BackupEnd ==
  /\ tool = "manifest" /\ backup' = [backup EXCEPT !.manifest = TRUE] /\ tool' = None
  /\ UNCHANGED <<active, copy, launch, finished, restored, halted, used, interruptions>>

\* inspect_backup: the manifest, the checksums and the schema.
Verified == backup # None /\ backup.manifest

\* Only into a directory that does not exist; the one of an interrupted restore is left behind.
RestoreBegin ==
  /\ tool = None /\ Verified /\ (copy = None \/ ~finished) /\ backup.seed # Unseeded
  /\ copy' = [Empty EXCEPT !.seed = Torn] /\ tool' = "restore" /\ finished' = FALSE
  /\ UNCHANGED <<active, backup, launch, restored, halted, used, interruptions>>
RestoreData ==
  /\ tool = "restore" /\ tool' \in {"credentials", "marker"}
  /\ copy' = [copy EXCEPT !.seed = backup.seed, !.version = backup.version]
  /\ UNCHANGED <<active, backup, launch, finished, restored, halted, used, interruptions>>
\* --credentials-source names any file of the right form: whose credentials they are is not
\* asked.
RestoreCredentials ==
  /\ tool = "credentials" /\ tool' = "fill"
  /\ copy' = [copy EXCEPT !.creds = Torn, !.brought = TRUE]
  /\ UNCHANGED <<active, backup, launch, finished, restored, halted, used, interruptions>>
RestoreFill ==
  /\ tool = "fill" /\ tool' = "marker"
  /\ \E i \in Identities : copy' = [copy EXCEPT !.creds = i] /\ used' = used \cup {i}
  /\ UNCHANGED <<active, backup, launch, finished, restored, halted, interruptions>>
RestoreEnd ==
  /\ tool = "marker" /\ copy' = [copy EXCEPT !.marker = TRUE] /\ tool' = None /\ finished' = TRUE
  /\ UNCHANGED <<active, backup, launch, restored, halted, used, interruptions>>

\* The operator puts the copy in the place of the active directory.
Promote ==
  /\ launch = "down" /\ tool = None /\ copy # None /\ (finished \/ PromoteUnfinished)
  /\ active' = copy /\ copy' = None /\ restored' = TRUE
  /\ UNCHANGED <<backup, launch, tool, finished, halted, used, interruptions>>

----------------------------------------------------------------------------
\* The daemon or a tool stops anywhere.
Crash ==
  /\ interruptions < MaxInterruptions /\ (launch # "down" \/ tool # None) /\ interruptions' = interruptions + 1
  /\ launch' = "down" /\ tool' = None /\ UNCHANGED <<Files, halted, used>>

PocketBaseNext ==
  \/ Launch \/ Check \/ Create \/ Write \/ Migrate \/ Login \/ Change \/ Stop
  \/ BackupBegin \/ BackupCopy \/ BackupEnd
  \/ RestoreBegin \/ RestoreData \/ RestoreCredentials \/ RestoreFill \/ RestoreEnd \/ Promote
  \/ Crash

PocketBaseSpec == PocketBaseInit /\ [][PocketBaseNext]_pocketbase_vars

----------------------------------------------------------------------------
(* Properties. *)

\* Credentials that the code drew itself open the database beside them: provision never gives
\* a second identity to a database ("refusing to replace identity"), in the active directory, in
\* a copy of it promoted without credentials, and through a crash.
IdentityKept ==
  \A d \in {active} \cup ({copy} \ {None}) :
    ~d.brought /\ d.creds \in Identities /\ d.seed \in Identities => d.creds = d.seed

\* What a daemon comes up on is a whole database that a provision began, under its own
\* credentials: never a part of a copy, and not one that was brought the credentials of another.
WholeDatabase ==
  launch = "up" => active.seed \in Identities \cap used /\ active.creds = active.seed

\* Provision, backup, restore and promotion, cut short anywhere, never replace an identity, nor
\* leave a daemon on a part of a database or on that of another identity.
PanelWhole == IdentityKept /\ WholeDatabase

\* A daemon on a restored copy has halted the journal ("Backup restaurado con aprobacion vieja:
\* ... arranque en reconciliacion y live deshabilitado").
RestoredHalts == launch = "up" /\ restored => halted
=============================================================================
