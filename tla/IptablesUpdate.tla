--------------------------- MODULE IptablesUpdate ---------------------------
(***************************************************************************)
(* Firewall rules: UpdateRulesFromProto (pkg/iptables/manager.go) backs    *)
(* the kernel's rules up, reads them, writes a file with the managed rules *)
(* exchanged, has iptables-restore load it and, when that fails, has it    *)
(* load the newest backup.                                                 *)
(*                                                                         *)
(* Manager.mu lets one update run at a time, but not against the other     *)
(* programs that edit the same tables.  iptables-restore commits a table   *)
(* as a whole and one table after the other; in which order is left open.  *)
(* It flushes the tables its file has, makes those the kernel does not     *)
(* have, and leaves the others alone.  iptables-save lists only the tables *)
(* that the kernel has.                                                    *)
(*                                                                         *)
(* A managed rule is its configuration's Id.  Chains, the order of rules   *)
(* and what they match are left out, and so is rules.v4, which the agent   *)
(* writes after a success and never reads.  Management is enabled.         *)
(***************************************************************************)
EXTENDS Naturals

CONSTANTS
    Table,          \* the tables there can be, the default one among them
    Supported,      \* those the generated file can have: raw, mangle, nat, filter
    Default,        \* filter
    Unnamed,        \* an empty TableName
    NoTable,        \* the place of a configuration that is disabled or not sent
    Id,             \* configuration ids, each standing for its rule
    Foreign,        \* rules of other programs
    Marked,         \* those whose text contains "NSPass:" or ChainPrefix
    MaxUpdates, MaxEdits, MaxRestarts   \* bounds

ASSUME TableAssumption ==
    /\ Supported \subseteq Table /\ Default \in Supported
    /\ Unnamed \notin Table /\ NoTable \notin Table
ASSUME RuleAssumption == Marked \subseteq Foreign /\ Id \cap Foreign = {}
ASSUME BoundsAssumption ==
    MaxUpdates \in Nat /\ MaxEdits \in Nat /\ MaxRestarts \in Nat

VARIABLES
    kernel,     \* the rules in each table
    present,    \* the tables the kernel has
    hasBackup, backup,  \* there is a backup file, and what is in the newest
    managed,    \* Manager.managedRules: the table of each
    at,         \* where the update is
    newRules,   \* its rules: the table of each
    file,       \* what iptables-restore is loading
    pending,    \* the tables it has still to commit
    outcome,    \* how the last update ended
    updates, edits, restarts,   \* used up of the bounds
    foreign,    \* ghost: the rules of other programs, as these left them
    lost,       \* ghost: tables where an update may have overwritten an edit
    before,     \* ghost: what iptables-save would have said when the last update began
    disturbed,  \* ghost: other programs have edited rules since then
    backedUp,   \* ghost: the newest backup has the rules of when it began
    asked       \* ghost: what the updates so far were to place, and where

update == <<at, newRules, file, pending, outcome>>
bounds == <<updates, edits, restarts>>
ghosts == <<foreign, lost, before, disturbed, backedUp, asked>>
netfilter == <<kernel, present>>
backups == <<hasBackup, backup>>
vars == <<netfilter, backups, managed, update, bounds, ghosts>>

----------------------------------------------------------------------------
Rules == Id \cup Foreign
Contents == [Table -> SUBSET Rules]
Saves == [tables : SUBSET Table, rules : Contents]
Placements == [Id -> Table \cup {NoTable}]
Empty == [t \in Table |-> {}]
NoSave == [tables |-> {}, rules |-> Empty]
Nowhere == [i \in Id |-> NoTable]

\* Types; every managed rule has a table, and rules are only in tables that are there.
TypeOK ==
    /\ kernel \in Contents /\ file \in Contents
    /\ present \subseteq Table /\ \A t \in Table : kernel[t] # {} => t \in present
    /\ hasBackup \in BOOLEAN /\ backup \in Saves
    /\ managed \in Placements /\ newRules \in Placements
    /\ at \in {"idle", "backup", "read", "apply", "restore"}
    /\ pending \subseteq Table
    /\ outcome \in {"none", "success", "restored", "failed"}
    /\ updates \in Nat /\ edits \in Nat /\ restarts \in Nat
    /\ foreign \in [Table -> SUBSET Foreign] /\ lost \subseteq Table
    /\ before \in Saves /\ disturbed \in BOOLEAN /\ backedUp \in BOOLEAN
    /\ asked \subseteq Placements

Init ==
    /\ foreign \in [Table -> SUBSET Foreign]
    /\ kernel = foreign /\ present \in {S \in SUBSET Table : \A t \in Table \ S : foreign[t] = {}}
    /\ file = Empty /\ before = NoSave
    /\ hasBackup = FALSE /\ backup = NoSave
    /\ managed = Nowhere /\ newRules = Nowhere
    /\ at = "idle" /\ pending = {} /\ outcome = "none"
    /\ updates = 0 /\ edits = 0 /\ restarts = 0
    /\ lost = {} /\ disturbed = FALSE /\ backedUp = FALSE
    /\ asked = {Nowhere}

----------------------------------------------------------------------------
(* UpdateRulesFromProto.                                                   *)

\* Mutant: an empty table name stays as it is.
TableAsSent(name) == name

\* convertProtoConfigToRuleParts.
TableOf(name) == IF name = Unnamed THEN Default ELSE name

\* iptables-save; and the tables S of what it says.
Saved == [tables |-> present, rules |-> kernel]
SavedOf(S) == [tables |-> S, rules |-> [t \in Table |-> IF t \in S THEN kernel[t] ELSE {}]]

\* UpdateRulesFromProto returns; what was local to it is gone.
End(result) ==
    /\ at' = "idle" /\ outcome' = result
    /\ newRules' = Nowhere /\ file' = Empty /\ pending' = {}

Update(configs) ==
    /\ at = "idle" /\ updates < MaxUpdates
    /\ at' = "backup"
    /\ newRules' = [i \in Id |-> TableOf(configs[i])]
    /\ asked' = asked \cup {newRules'}
    /\ updates' = updates + 1
    /\ outcome' = "none" /\ before' = Saved /\ disturbed' = FALSE /\ backedUp' = FALSE
    /\ UNCHANGED <<netfilter, backups, managed, file, pending, edits, restarts, foreign, lost>>

\* Mutant: an existing backup is kept.
BackupOnce ==
    /\ at = "backup"
    /\ at' = "read"
    /\ hasBackup' = TRUE /\ backup' = IF hasBackup THEN backup ELSE Saved
    /\ backedUp' = TRUE
    /\ UNCHANGED <<netfilter, managed, newRules, file, pending, outcome, bounds,
                   foreign, lost, before, disturbed, asked>>

\* A failure is logged and the update goes on.  A file cut short in writing is the
\* newest backup all the same, with the tables that are whole in it.
Backup ==
    /\ at = "backup"
    /\ at' = "read"
    /\ \/ hasBackup' = TRUE /\ backup' = Saved /\ backedUp' = TRUE
       \/ UNCHANGED <<backups, backedUp>>
       \/ /\ \E S \in SUBSET present : hasBackup' = TRUE /\ backup' = SavedOf(S)
          /\ UNCHANGED backedUp
    /\ UNCHANGED <<netfilter, managed, newRules, file, pending, outcome, bounds,
                   foreign, lost, before, disturbed, asked>>

IsManagedRule(r) == r \in Id \cup Marked
Added(t) == {i \in Id : newRules[i] = t}

\* Mutant: the new file has the managed rules only.
GeneratedAfresh(t) == Added(t)

\* Mutants: the old managed rules stay, or are those the manager remembers.
GeneratedOnTop(t) == {r \in kernel[t] : r \notin Marked} \cup Added(t)
GeneratedFromMemory(t) ==
    {r \in kernel[t] : r \in Id => managed[r] # t} \cup Added(t)

\* generateRulesContent: markers in the rules tell the old managed ones.
Generated(t) == {r \in kernel[t] : ~IsManagedRule(r)} \cup Added(t)

\* generateIPTablesContent: of the tables it knows, those that were saved or get a rule.
NewTables == {t \in Supported : t \in present \/ Added(t) # {}}
NewFile == [t \in Table |-> IF t \in NewTables THEN Generated(t) ELSE {}]

\* iptables-save and generateRulesContent.
Read ==
    /\ at = "read"
    /\ \/ /\ at' = "apply" /\ pending' = NewTables
          /\ file' = NewFile
          /\ UNCHANGED <<newRules, outcome>>
       \/ End("failed")
    /\ UNCHANGED <<netfilter, backups, managed, bounds, ghosts>>

\* iptables-restore commits a table, for applyRules or for restoreFromBackup.
Commit(t) ==
    /\ at \in {"apply", "restore"} /\ t \in pending
    /\ kernel' = [kernel EXCEPT ![t] = file[t]] /\ present' = present \cup {t}
    /\ pending' = pending \ {t}
    /\ UNCHANGED <<backups, managed, at, newRules, file, outcome, bounds, ghosts>>

\* restoreFromBackup, when there is a file: its tables are loaded, and no others.
ApplyFails ==
    /\ at = "apply"
    /\ IF hasBackup
       THEN /\ at' = "restore" /\ file' = backup.rules /\ pending' = backup.tables
            /\ lost' = IF backedUp THEN lost ELSE lost \cup backup.tables
            /\ UNCHANGED <<newRules, outcome>>
       ELSE End("failed") /\ UNCHANGED lost
    /\ UNCHANGED <<netfilter, backups, managed, bounds, foreign, before, disturbed, backedUp, asked>>

Applied ==
    /\ at = "apply" /\ pending = {}
    /\ managed' = newRules
    /\ End("success")
    /\ UNCHANGED <<netfilter, backups, bounds, ghosts>>

Restored ==
    /\ at = "restore" /\ pending = {}
    /\ End("restored")
    /\ UNCHANGED <<netfilter, backups, managed, bounds, ghosts>>

RestoreFails ==
    /\ at = "restore"
    /\ End("failed")
    /\ UNCHANGED <<netfilter, backups, managed, bounds, ghosts>>

----------------------------------------------------------------------------
(* Other programs, and the end of the agent.                               *)

\* They add or delete a rule of theirs, or flush a table, or remove it.
Edit(t) ==
    /\ edits < MaxEdits
    /\ edits' = edits + 1
    /\ \/ \E r \in Foreign \ foreign[t] :
             /\ foreign' = [foreign EXCEPT ![t] = @ \cup {r}]
             /\ kernel' = [kernel EXCEPT ![t] = @ \cup {r}]
             /\ present' = present \cup {t}
       \/ \E r \in foreign[t] :
             /\ foreign' = [foreign EXCEPT ![t] = @ \ {r}]
             /\ kernel' = [kernel EXCEPT ![t] = @ \ {r}]
             /\ UNCHANGED present
       \/ /\ foreign' = [foreign EXCEPT ![t] = {}] /\ kernel' = [kernel EXCEPT ![t] = {}]
          /\ present' \in {present, present \ {t}}
    /\ disturbed' = TRUE /\ backedUp' = FALSE
    /\ lost' = IF at \in {"apply", "restore"} THEN lost \cup {t} ELSE lost
    /\ UNCHANGED <<backups, managed, update, updates, restarts, before, asked>>

\* The agent ends and a new one starts; nothing is loaded at the start.
Restart ==
    /\ restarts < MaxRestarts
    /\ restarts' = restarts + 1
    /\ managed' = Nowhere
    /\ End("none")
    /\ UNCHANGED <<netfilter, backups, updates, edits, ghosts>>

\* The server sends nothing more.
Done == at = "idle" /\ updates = MaxUpdates /\ UNCHANGED vars

Next ==
    \/ \E configs \in [Id -> Table \cup {NoTable, Unnamed}] : Update(configs)
    \/ Backup \/ Read \/ ApplyFails \/ Applied \/ Restored \/ RestoreFails \/ Restart
    \/ \E t \in Table : Commit(t) \/ Edit(t)
    \/ Done

Spec == Init /\ [][Next]_vars

----------------------------------------------------------------------------
(* What the code keeps.                                                    *)

\* A successful update leaves exactly the server's rules in the tables the file can
\* have, whatever failed updates, old backups and agents that were killed in the
\* middle had left there.
SuccessIsExact ==
    at = "idle" /\ outcome = "success" /\ ~disturbed
    => \A t \in Supported : kernel[t] \cap Id = {i \in Id : managed[i] = t}

\* Each table has, at any time, the managed rules of one update and no others, or of none,
\* wherever iptables-restore failed or was killed and however old the backup was that it
\* loaded then: what may be mixed is the tables, never the rules of a table.
TablesAreWhole ==
    \A t \in Table : \E rules \in asked : kernel[t] \cap Id = {i \in Id : rules[i] = t}

\* No update, successful, failed, rolled back or cut off by a restart, loses a rule
\* of another program or brings back one that was deleted, but for rules that look
\* managed, and for edits made between reading the tables and loading them.
ForeignRulesKept ==
    \A t \in Table \ lost : (kernel[t] \cap Foreign) \ Marked = foreign[t] \ Marked

\* A rollback from the backup this update made gives every table that was there when it
\* began its old contents.  A table the update has made is not in the backup, so what
\* it put there may stay, but never more than managed rules.
RollbackRestores ==
    outcome = "restored" /\ backedUp /\ ~disturbed =>
        \A t \in Table : IF t \in before.tables THEN kernel[t] = before.rules[t]
                         ELSE kernel[t] \subseteq Id

----------------------------------------------------------------------------
(* What the code does not keep (checked in a run that expects a violation). *)

\* "事务性：要么全部成功，要么全部失败" (docs/iptables-usage.md:23): an update that fails
\* leaves the rules as they were, at least when its backup and its rollback succeed.
AllOrNothing ==
    outcome = "restored" /\ backedUp /\ ~disturbed => kernel = before.rules
============================================================================
