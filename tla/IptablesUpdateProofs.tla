------------------------ MODULE IptablesUpdateProofs ------------------------
(***************************************************************************)
(* The invariants of IptablesUpdate, proved for all tables, configurations *)
(* and rules of other programs, marked ones among them, and any number of  *)
(* updates, edits and restarts.                                            *)
(***************************************************************************)
EXTENDS IptablesUpdate, TLAPS

\* The rules of table t that no update may touch.
Others(t, S) == (S \cap Foreign) \ Marked

\* What iptables-restore has loaded so far, and what it will load, has exactly the
\* new managed rules.
ApplyIsExact ==
    at = "apply" =>
        /\ \A t \in Supported : file[t] \cap Id = Added(t)
        /\ ~disturbed => \A t \in Supported \ pending : kernel[t] \cap Id = Added(t)
        /\ pending \subseteq Supported

\* What it will load has the rules of other programs as they are.
FileKeepsOthers ==
    /\ at = "apply" => \A t \in Supported \ lost : Others(t, file[t]) = Others(t, foreign[t])
    /\ at = "restore" => \A t \in pending \ lost : Others(t, file[t]) = Others(t, foreign[t])

\* So does a backup of this update that nothing has overtaken.
BackupKeepsOthers ==
    backedUp /\ at \in {"read", "apply"} =>
        /\ hasBackup
        /\ \A t \in backup.tables \ lost : Others(t, backup.rules[t]) = Others(t, foreign[t])

\* How a rollback gets back to where the update began; and what an update puts into
\* tables that were not there then.
WayBack ==
    /\ at # "idle" => outcome = "none"
    /\ at = "backup" => ~backedUp
    /\ at \in {"backup", "read"} /\ ~disturbed => before = Saved
    /\ at \in {"read", "apply"} /\ backedUp /\ ~disturbed => backup = before
    /\ at = "apply" /\ ~disturbed =>
          \A t \in Table \ before.tables : kernel[t] \subseteq Id /\ file[t] \subseteq Id
    /\ at = "restore" /\ backedUp /\ ~disturbed =>
          /\ pending \subseteq before.tables
          /\ file = before.rules /\ \A t \in before.tables \ pending : kernel[t] = before.rules[t]
          /\ \A t \in Table \ before.tables : kernel[t] \subseteq Id

\* S has, of the managed rules, those of one update at table t.
Whole(t, S) == \E rules \in asked : S \cap Id = {i \in Id : rules[i] = t}

\* And so for all that may come into a table: the file and the newest backup.
SourcesAreWhole ==
    /\ Nowhere \in asked /\ (at # "idle" => newRules \in asked)
    /\ at \in {"apply", "restore"} => \A t \in pending : Whole(t, file[t])
    /\ hasBackup => \A t \in backup.tables : Whole(t, backup.rules[t])

IInv == /\ TypeOK /\ ApplyIsExact /\ FileKeepsOthers /\ BackupKeepsOthers /\ WayBack
        /\ SuccessIsExact /\ ForeignRulesKept /\ RollbackRestores
        /\ SourcesAreWhole /\ TablesAreWhole

----------------------------------------------------------------------------
\* The invariants hold before the first update.
LEMMA InitHolds == Init => IInv
<1> SUFFICES ASSUME Init PROVE IInv
  OBVIOUS
<1>1. TypeOK
  BY DEF Init, TypeOK, Contents, Rules, Placements, Saves, NoSave, Empty, Nowhere
<1>2. ApplyIsExact /\ FileKeepsOthers /\ BackupKeepsOthers /\ WayBack
  BY DEF Init, ApplyIsExact, FileKeepsOthers, BackupKeepsOthers, WayBack
<1>3. SuccessIsExact /\ ForeignRulesKept /\ RollbackRestores
  BY DEF Init, SuccessIsExact, ForeignRulesKept, RollbackRestores
<1>4. SourcesAreWhole /\ TablesAreWhole
  <2>1. \A t \in Table : foreign[t] \cap Id = {} /\ {i \in Id : Nowhere[i] = t} = {}
    BY RuleAssumption, TableAssumption DEF Init, Nowhere
  <2> QED
    BY <2>1 DEF Init, SourcesAreWhole, TablesAreWhole, Whole
<1> QED
  BY <1>1, <1>2, <1>3, <1>4 DEF IInv

\* What generateRulesContent keeps and what it puts in.
LEMMA GeneratedParts ==
    ASSUME TypeOK, NEW t \in Table
    PROVE  /\ Generated(t) \subseteq Rules
           /\ Generated(t) \cap Id = Added(t)
           /\ Others(t, Generated(t)) = Others(t, kernel[t])
  BY RuleAssumption DEF TypeOK, Contents, Rules, Generated, IsManagedRule, Added, Others

\* The same of the file: a table that it does not have is not there and gets nothing.
LEMMA NewFileParts ==
    ASSUME TypeOK, NEW t \in Supported
    PROVE  /\ NewFile[t] \cap Id = Added(t)
           /\ Others(t, NewFile[t]) = Others(t, kernel[t])
           /\ t \notin present => NewFile[t] \subseteq Id
<1>1. t \in Table
  BY TableAssumption
<1>2. CASE t \in NewTables
  <2>1. NewFile[t] = Generated(t)
    BY <1>1, <1>2 DEF NewFile
  <2>2. t \notin present => kernel[t] = {}
    BY <1>1 DEF TypeOK
  <2> QED
    BY <1>1, <2>1, <2>2, GeneratedParts DEF Generated, Added
<1>3. CASE t \notin NewTables
  BY <1>1, <1>3 DEF NewTables, NewFile, Others, TypeOK
<1> QED
  BY <1>2, <1>3

\* What iptables-save says, in full or in part.
LEMMA SavesTyped ==
    ASSUME TypeOK
    PROVE  Saved \in Saves /\ \A S \in SUBSET present : SavedOf(S) \in Saves
<1>1. \A S \in SUBSET present : [t \in Table |-> IF t \in S THEN kernel[t] ELSE {}] \in Contents
  BY DEF TypeOK, Contents
<1> QED
  BY <1>1 DEF TypeOK, Saves, Saved, SavedOf

\* Other programs keep to one table and to their own rules.
LEMMA EditEffect ==
    ASSUME TypeOK, NEW t \in Table, Edit(t)
    PROVE  /\ kernel' \in [Table -> SUBSET Rules] /\ foreign' \in [Table -> SUBSET Foreign]
           /\ present' \subseteq Table /\ \A s \in Table : kernel'[s] # {} => s \in present'
           /\ \A s \in Table \ {t} : kernel'[s] = kernel[s] /\ foreign'[s] = foreign[s]
           /\ Others(t, kernel[t]) = Others(t, foreign[t])
              => Others(t, kernel'[t]) = Others(t, foreign'[t])
<1>1. /\ kernel \in [Table -> SUBSET Rules] /\ foreign \in [Table -> SUBSET Foreign]
      /\ present \subseteq Table /\ \A s \in Table : kernel[s] # {} => s \in present
  BY DEF TypeOK, Contents
<1>2. CASE \E r \in Foreign \ foreign[t] :
             /\ foreign' = [foreign EXCEPT ![t] = @ \cup {r}]
             /\ kernel' = [kernel EXCEPT ![t] = @ \cup {r}]
             /\ present' = present \cup {t}
  BY <1>1, <1>2 DEF Rules, Others
<1>3. CASE \E r \in foreign[t] :
             /\ foreign' = [foreign EXCEPT ![t] = @ \ {r}]
             /\ kernel' = [kernel EXCEPT ![t] = @ \ {r}]
             /\ UNCHANGED present
  BY <1>1, <1>3 DEF Rules, Others
<1>4. CASE /\ foreign' = [foreign EXCEPT ![t] = {}] /\ kernel' = [kernel EXCEPT ![t] = {}]
           /\ present' \in {present, present \ {t}}
  BY <1>1, <1>4 DEF Rules, Others
<1> QED
  BY <1>2, <1>3, <1>4 DEF Edit

\* Types, step by step.
LEMMA TypeNext == TypeOK /\ [Next]_vars => TypeOK'
<1> SUFFICES ASSUME TypeOK, [Next]_vars PROVE TypeOK'
  OBVIOUS
<1> USE DEF TypeOK, Contents, Placements, netfilter, backups, update, bounds, ghosts
<1>1. ASSUME NEW configs \in [Id -> Table \cup {NoTable, Unnamed}], Update(configs) PROVE TypeOK'
  <2>1. newRules' \in [Id -> Table \cup {NoTable}]
    BY <1>1, TableAssumption DEF Update, TableOf
  <2>2. updates' \in Nat /\ before' \in Saves
    BY <1>1, SavesTyped DEF Update
  <2> QED
    BY <1>1, <2>1, <2>2 DEF Update
<1>2. CASE Backup
  <2>1. backup' \in Saves /\ hasBackup' \in BOOLEAN
    BY <1>2, SavesTyped DEF Backup
  <2>2. backedUp' \in BOOLEAN
    BY <1>2 DEF Backup
  <2> QED
    BY <1>2, <2>1, <2>2 DEF Backup
<1>3. CASE Read
  <2>1. CASE at' = "apply"
    <3>1. NewFile \in [Table -> SUBSET Rules] /\ NewTables \subseteq Table
      BY GeneratedParts, TableAssumption DEF NewFile, NewTables
    <3>2. file' = NewFile /\ pending' = NewTables /\ UNCHANGED <<newRules, outcome>>
      BY <1>3, <2>1 DEF Read, End
    <3> QED
      BY <1>3, <2>1, <3>1, <3>2 DEF Read
  <2>2. CASE at' # "apply"
    BY <1>3, <2>2 DEF Read, End, Empty, Nowhere
  <2> QED
    BY <2>1, <2>2
<1>4. CASE ApplyFails
  BY <1>4 DEF ApplyFails, End, Empty, Nowhere, Saves
<1>5. CASE Applied \/ Restored \/ RestoreFails
  BY <1>5 DEF Applied, Restored, RestoreFails, End, Empty, Nowhere
<1>6. CASE Restart
  BY <1>6 DEF Restart, End, Empty, Nowhere
<1>7. ASSUME NEW t \in Table, Commit(t) PROVE TypeOK'
  BY <1>7 DEF Commit
<1>8. ASSUME NEW t \in Table, Edit(t) PROVE TypeOK'
  <2>1. /\ kernel' \in [Table -> SUBSET Rules] /\ foreign' \in [Table -> SUBSET Foreign]
        /\ present' \subseteq Table /\ \A s \in Table : kernel'[s] # {} => s \in present'
    BY <1>8, EditEffect
  <2>2. edits' \in Nat /\ lost' \subseteq Table
    BY <1>8 DEF Edit
  <2> QED
    BY <1>8, <2>1, <2>2 DEF Edit
<1>9. CASE Done \/ UNCHANGED vars
  BY <1>9 DEF Done, vars
<1> QED
  BY <1>1, <1>2, <1>3, <1>4, <1>5, <1>6, <1>7, <1>8, <1>9 DEF Next
----------------------------------------------------------------------------
\* The managed rules, step by step.
LEMMA ExactNext == IInv /\ [Next]_vars => ApplyIsExact' /\ SuccessIsExact'
<1> SUFFICES ASSUME IInv, [Next]_vars PROVE ApplyIsExact' /\ SuccessIsExact'
  OBVIOUS
<1>0. TypeOK /\ ApplyIsExact /\ SuccessIsExact
  BY DEF IInv
<1> USE DEF ApplyIsExact, SuccessIsExact, Added, netfilter, backups, update, bounds, ghosts
<1>1. ASSUME NEW configs \in [Id -> Table \cup {NoTable, Unnamed}], Update(configs)
      PROVE  ApplyIsExact' /\ SuccessIsExact'
  BY <1>1 DEF Update
<1>2. CASE Backup
  BY <1>2 DEF Backup
<1>3. CASE Read
  <2>1. CASE at' = "apply"
    <3>1. file' = NewFile /\ pending' = NewTables /\ UNCHANGED <<newRules, kernel, disturbed>>
      BY <1>3, <2>1 DEF Read, End
    <3>2. \A t \in Supported : NewFile[t] \cap Id = Added(t)
      BY <1>0, NewFileParts
    <3>3. \A t \in Supported \ NewTables : kernel[t] \cap Id = Added(t)
      BY <1>0, TableAssumption DEF NewTables, TypeOK
    <3>4. NewTables \subseteq Supported
      BY DEF NewTables
    <3> QED
      BY <2>1, <3>1, <3>2, <3>3, <3>4
  <2>2. CASE at' # "apply"
    BY <1>3, <2>2 DEF Read, End
  <2> QED
    BY <2>1, <2>2
<1>4. CASE ApplyFails
  BY <1>4 DEF ApplyFails, End
<1>5. CASE Applied
  BY <1>0, <1>5 DEF Applied, End
<1>6. CASE Restored \/ RestoreFails \/ Restart
  BY <1>6 DEF Restored, RestoreFails, Restart, End
<1>7. ASSUME NEW t \in Table, Commit(t) PROVE ApplyIsExact' /\ SuccessIsExact'
  BY <1>0, <1>7, TableAssumption DEF Commit, TypeOK, Contents
<1>8. ASSUME NEW t \in Table, Edit(t) PROVE ApplyIsExact' /\ SuccessIsExact'
  BY <1>0, <1>8 DEF Edit
<1>9. CASE Done \/ UNCHANGED vars
  BY <1>0, <1>9 DEF Done, vars
<1> QED
  BY <1>1, <1>2, <1>3, <1>4, <1>5, <1>6, <1>7, <1>8, <1>9 DEF Next

\* The rules of other programs, step by step.
LEMMA OthersNext ==
    IInv /\ [Next]_vars => FileKeepsOthers' /\ BackupKeepsOthers' /\ ForeignRulesKept'
<1> SUFFICES ASSUME IInv, [Next]_vars
             PROVE  FileKeepsOthers' /\ BackupKeepsOthers' /\ ForeignRulesKept'
  OBVIOUS
<1>0. /\ TypeOK /\ FileKeepsOthers /\ BackupKeepsOthers /\ ForeignRulesKept /\ WayBack
      /\ \A t \in Table \ lost : Others(t, kernel[t]) = Others(t, foreign[t])
  BY DEF IInv, TypeOK, ForeignRulesKept, Others
<1>a. ForeignRulesKept' <=>
        (\A t \in Table \ lost : Others(t, kernel[t]) = Others(t, foreign[t]))'
  <2>1. TypeOK'
    BY <1>0, TypeNext
  <2> QED
    BY <2>1 DEF TypeOK, ForeignRulesKept, Others
<1> USE DEF FileKeepsOthers, BackupKeepsOthers, netfilter, backups, update, bounds, ghosts
<1>1. ASSUME NEW configs \in [Id -> Table \cup {NoTable, Unnamed}], Update(configs)
      PROVE  FileKeepsOthers' /\ BackupKeepsOthers' /\ ForeignRulesKept'
  BY <1>0, <1>1, <1>a DEF Update
<1>2. CASE Backup
  <2>1. FileKeepsOthers' /\ ForeignRulesKept'
    BY <1>0, <1>2, <1>a DEF Backup
  <2>2. ~backedUp
    BY <1>0, <1>2 DEF Backup, WayBack
  <2>3. BackupKeepsOthers'
    <3>1. CASE hasBackup' = TRUE /\ backup' = Saved
      <4>1. backup'.tables = present /\ backup'.rules = kernel /\ UNCHANGED <<lost, foreign>>
        BY <1>2, <3>1 DEF Backup, Saved
      <4> QED
        BY <1>0, <3>1, <4>1 DEF TypeOK
    <3>2. CASE backedUp' = backedUp
      BY <2>2, <3>2
    <3> QED
      BY <1>2, <3>1, <3>2 DEF Backup
  <2> QED
    BY <2>1, <2>3
<1>3. CASE Read
  <2>1. ForeignRulesKept' /\ BackupKeepsOthers'
    BY <1>0, <1>3, <1>a DEF Read, End
  <2>2. FileKeepsOthers'
    <3>1. CASE at' = "apply"
      <4>1. file' = NewFile /\ UNCHANGED <<foreign, lost>>
        BY <1>3, <3>1 DEF Read, End
      <4>2. \A t \in Supported \ lost : Others(t, NewFile[t]) = Others(t, foreign[t])
        BY <1>0, NewFileParts, TableAssumption
      <4> QED
        BY <3>1, <4>1, <4>2 DEF Others
    <3>2. CASE at' # "apply"
      BY <1>3, <3>2 DEF Read, End
    <3> QED
      BY <3>1, <3>2
  <2> QED
    BY <2>1, <2>2
<1>4. CASE ApplyFails
  BY <1>0, <1>4, <1>a DEF ApplyFails, End, TypeOK
<1>5. CASE Applied \/ Restored \/ RestoreFails \/ Restart
  BY <1>0, <1>5, <1>a DEF Applied, Restored, RestoreFails, Restart, End
<1>7. ASSUME NEW t \in Table, Commit(t)
      PROVE  FileKeepsOthers' /\ BackupKeepsOthers' /\ ForeignRulesKept'
  <2>1. FileKeepsOthers' /\ BackupKeepsOthers'
    BY <1>0, <1>7 DEF Commit
  <2>2. t \notin lost => Others(t, file[t]) = Others(t, foreign[t])
    <3>1. at = "apply" => t \in Supported
      BY <1>7 DEF IInv, ApplyIsExact, Commit
    <3> QED
      BY <1>0, <1>7, <3>1 DEF Commit
  <2>3. ForeignRulesKept'
    BY <1>0, <1>7, <1>a, <2>2 DEF Commit, TypeOK, Contents
  <2> QED
    BY <2>1, <2>3
<1>8. ASSUME NEW t \in Table, Edit(t)
      PROVE  FileKeepsOthers' /\ BackupKeepsOthers' /\ ForeignRulesKept'
  <2>1. FileKeepsOthers' /\ BackupKeepsOthers'
    <3>1. /\ at' = at /\ file' = file /\ pending' = pending /\ ~backedUp'
          /\ at \in {"apply", "restore"} => lost' = lost \cup {t}
      BY <1>8 DEF Edit
    <3>2. \A s \in Table \ {t} : foreign'[s] = foreign[s]
      BY <1>0, <1>8, EditEffect
    <3>3. pending \subseteq Table
      BY <1>0 DEF TypeOK
    <3> QED
      BY <1>0, <3>1, <3>2, <3>3, TableAssumption DEF Others
  <2>2. ForeignRulesKept'
    BY <1>0, <1>8, <1>a, EditEffect DEF Edit
  <2> QED
    BY <2>1, <2>2
<1>9. CASE Done \/ UNCHANGED vars
  BY <1>0, <1>9, <1>a DEF Done, vars
<1> QED
  BY <1>1, <1>2, <1>3, <1>4, <1>5, <1>7, <1>8, <1>9 DEF Next

\* The way back, step by step.
LEMMA WayBackNext == IInv /\ [Next]_vars => WayBack' /\ RollbackRestores'
<1> SUFFICES ASSUME IInv, [Next]_vars PROVE WayBack' /\ RollbackRestores'
  OBVIOUS
<1>0. TypeOK /\ WayBack /\ RollbackRestores
  BY DEF IInv
<1> USE DEF WayBack, RollbackRestores, netfilter, backups, update, bounds, ghosts
<1>1. ASSUME NEW configs \in [Id -> Table \cup {NoTable, Unnamed}], Update(configs)
      PROVE  WayBack' /\ RollbackRestores'
  BY <1>1 DEF Update, Saved
<1>2. CASE Backup
  BY <1>0, <1>2 DEF Backup, Saved
<1>3. CASE Read
  <2>1. CASE at' = "apply"
    <3>1. file' = NewFile /\ UNCHANGED <<netfilter, backups, outcome, before, disturbed, backedUp>>
      BY <1>3, <2>1 DEF Read, End
    <3>2. ~disturbed => before.tables = present
      BY <1>0, <1>3 DEF Read, Saved
    <3>3. \A t \in Table \ present : kernel[t] = {} /\ NewFile[t] \subseteq Id
      <4>1. \A t \in Supported \ present : NewFile[t] \subseteq Id
        BY <1>0, NewFileParts
      <4>2. \A t \in Table \ Supported : NewFile[t] = {}
        BY DEF NewFile, NewTables
      <4> QED
        BY <1>0, <4>1, <4>2 DEF TypeOK
    <3> QED
      BY <1>0, <1>3, <2>1, <3>1, <3>2, <3>3 DEF Read
  <2>2. CASE at' # "apply"
    BY <1>3, <2>2 DEF Read, End
  <2> QED
    BY <2>1, <2>2
<1>4. CASE ApplyFails
  <2>1. CASE hasBackup
    <3>1. /\ at' = "restore" /\ file' = backup.rules /\ pending' = backup.tables
          /\ UNCHANGED <<netfilter, outcome, before, disturbed, backedUp>>
      BY <1>4, <2>1 DEF ApplyFails
    <3> QED
      BY <1>0, <1>4, <3>1 DEF ApplyFails
  <2>2. CASE ~hasBackup
    BY <1>4, <2>2 DEF ApplyFails, End
  <2> QED
    BY <2>1, <2>2
<1>5. CASE Applied \/ RestoreFails \/ Restart
  BY <1>5 DEF Applied, RestoreFails, Restart, End
<1>6. CASE Restored
  <2>1. backedUp /\ ~disturbed => RollbackRestores'
    BY <1>0, <1>6 DEF Restored, End
  <2> QED
    BY <1>6, <2>1 DEF Restored, End
<1>7. ASSUME NEW t \in Table, Commit(t) PROVE WayBack' /\ RollbackRestores'
  <2>1. /\ kernel' = [s \in Table |-> IF s = t THEN file[t] ELSE kernel[s]]
        /\ pending' = pending \ {t} /\ at \in {"apply", "restore"} /\ t \in pending
        /\ UNCHANGED <<backups, at, file, outcome, before, disturbed, backedUp>>
    BY <1>0, <1>7 DEF Commit, TypeOK, Contents
  <2>2. CASE at = "apply"
    BY <1>0, <2>1, <2>2
  <2>3. CASE at = "restore"
    <3>1. outcome = "none"
      BY <1>0, <2>3
    <3>2. CASE backedUp /\ ~disturbed
      <4>1. /\ t \in before.tables /\ pending \subseteq before.tables /\ file = before.rules
            /\ \A s \in before.tables \ pending : kernel[s] = before.rules[s]
            /\ \A s \in Table \ before.tables : kernel[s] \subseteq Id
        BY <1>0, <2>1, <2>3, <3>2
      <4>2. before.tables \subseteq Table
        BY <1>0 DEF TypeOK, Saves
      <4>3. \A s \in before.tables \ pending' : kernel'[s] = before.rules[s]
        BY <2>1, <4>1, <4>2
      <4>4. \A s \in Table \ before.tables : kernel'[s] \subseteq Id
        BY <2>1, <4>1
      <4> QED
        BY <2>1, <2>3, <3>1, <4>1, <4>3, <4>4
    <3>3. CASE ~(backedUp /\ ~disturbed)
      BY <2>1, <2>3, <3>1, <3>3
    <3> QED
      BY <3>2, <3>3
  <2> QED
    BY <2>1, <2>2, <2>3
<1>8. ASSUME NEW t \in Table, Edit(t) PROVE WayBack' /\ RollbackRestores'
  BY <1>0, <1>8 DEF Edit
<1>9. CASE Done \/ UNCHANGED vars
  BY <1>0, <1>9 DEF Done, vars, Saved
<1> QED
  BY <1>1, <1>2, <1>3, <1>4, <1>5, <1>6, <1>7, <1>8, <1>9 DEF Next

\* What tables, file and backup have of the managed rules, step by step.
LEMMA WholeNext == IInv /\ [Next]_vars => SourcesAreWhole' /\ TablesAreWhole'
<1> SUFFICES ASSUME IInv, [Next]_vars PROVE SourcesAreWhole' /\ TablesAreWhole'
  OBVIOUS
<1>0. TypeOK /\ ApplyIsExact /\ SourcesAreWhole /\ TablesAreWhole
  BY DEF IInv
<1>a. TablesAreWhole <=> \A t \in Table : Whole(t, kernel[t])
  BY DEF TablesAreWhole, Whole
<1>b. TablesAreWhole' <=> (\A t \in Table : Whole(t, kernel[t]))'
  BY DEF TablesAreWhole, Whole
<1> USE DEF netfilter, backups, update, bounds, ghosts
<1>1. ASSUME NEW configs \in [Id -> Table \cup {NoTable, Unnamed}], Update(configs)
      PROVE  SourcesAreWhole' /\ TablesAreWhole'
  <2>1. \A S : \A t \in Table : Whole(t, S) => Whole(t, S)'
    BY <1>1 DEF Update, Whole
  <2>2. backup.tables \subseteq Table
    BY <1>0 DEF TypeOK, Saves
  <2>3. SourcesAreWhole'
    BY <1>0, <1>1, <2>1, <2>2 DEF Update, SourcesAreWhole
  <2> QED
    BY <1>0, <1>1, <1>a, <1>b, <2>1, <2>3 DEF Update
<1>c. ASSUME UNCHANGED <<asked, kernel, backups>>, at' = "idle" PROVE SourcesAreWhole' /\ TablesAreWhole'
  BY <1>0, <1>c DEF SourcesAreWhole, TablesAreWhole, Whole
<1>3. CASE Backup
  <2>1. UNCHANGED <<asked, kernel, newRules>> /\ at = "backup" /\ at' = "read"
    BY <1>3 DEF Backup
  <2>2. hasBackup' => \A t \in backup'.tables : Whole(t, backup'.rules[t])
    <3>1. CASE backup' = Saved
      BY <1>0, <1>a, <3>1 DEF Saved, TypeOK
    <3>2. ASSUME NEW S \in SUBSET present, backup' = SavedOf(S)
          PROVE  \A t \in backup'.tables : Whole(t, backup'.rules[t])
      <4>1. backup'.tables = S /\ \A t \in S : backup'.rules[t] = kernel[t] /\ t \in Table
        BY <1>0, <3>2 DEF SavedOf, TypeOK
      <4> QED
        BY <1>0, <1>a, <4>1
    <3>3. CASE UNCHANGED backups
      BY <1>0, <3>3 DEF SourcesAreWhole
    <3> QED
      BY <1>3, <3>1, <3>2, <3>3 DEF Backup
  <2> QED
    BY <1>0, <1>b, <1>a, <2>1, <2>2 DEF SourcesAreWhole, Whole
<1>4. CASE Read
  <2>1. CASE at' = "apply"
    <3>1. /\ file' = NewFile /\ pending' = NewTables /\ NewTables \subseteq Supported
          /\ newRules \in asked /\ UNCHANGED <<asked, kernel, backups, newRules>>
      BY <1>0, <1>4, <2>1 DEF Read, End, SourcesAreWhole, NewTables
    <3>2. \A t \in Supported : NewFile[t] \cap Id = Added(t)
      BY <1>0, NewFileParts
    <3> QED
      BY <1>0, <2>1, <3>1, <3>2 DEF SourcesAreWhole, TablesAreWhole, Whole, Added
  <2>2. CASE at' # "apply"
    BY <1>4, <1>c, <2>2 DEF Read, End
  <2> QED
    BY <2>1, <2>2
<1>5. CASE ApplyFails
  <2>1. CASE hasBackup
    <3>1. /\ file' = backup.rules /\ pending' = backup.tables
          /\ UNCHANGED <<asked, kernel, backups, newRules>>
      BY <1>5, <2>1 DEF ApplyFails
    <3> QED
      BY <1>0, <1>5, <2>1, <3>1 DEF ApplyFails, SourcesAreWhole, TablesAreWhole, Whole
  <2>2. CASE ~hasBackup
    BY <1>5, <1>c, <2>2 DEF ApplyFails, End
  <2> QED
    BY <2>1, <2>2
<1>6. CASE Applied \/ Restored \/ RestoreFails \/ Restart
  BY <1>6, <1>c DEF Applied, Restored, RestoreFails, Restart, End
<1>7. ASSUME NEW t \in Table, Commit(t) PROVE SourcesAreWhole' /\ TablesAreWhole'
  <2>1. /\ UNCHANGED <<asked, backups, at, newRules, file>> /\ pending' \subseteq pending
        /\ \A s \in Table : kernel'[s] = IF s = t THEN file[t] ELSE kernel[s]
        /\ t \in pending /\ at \in {"apply", "restore"}
    BY <1>0, <1>7 DEF Commit, TypeOK, Contents
  <2>2. \A s \in Table : Whole(s, kernel'[s])
    BY <1>0, <1>a, <2>1 DEF SourcesAreWhole
  <2> QED
    BY <1>0, <1>b, <2>1, <2>2 DEF SourcesAreWhole, Whole
<1>8. ASSUME NEW t \in Table, Edit(t) PROVE SourcesAreWhole' /\ TablesAreWhole'
  <2>1. \A s \in Table : kernel'[s] \cap Id = kernel[s] \cap Id \/ kernel'[s] \cap Id = {}
    <3>1. kernel \in [Table -> SUBSET Rules] /\ foreign \in [Table -> SUBSET Foreign]
      BY <1>0 DEF TypeOK, Contents
    <3>2. CASE \E r \in Foreign : kernel' = [kernel EXCEPT ![t] = @ \cup {r}]
      BY <3>1, <3>2, RuleAssumption
    <3>3. CASE \E r \in foreign[t] : kernel' = [kernel EXCEPT ![t] = @ \ {r}]
      BY <3>1, <3>3, RuleAssumption
    <3>4. CASE kernel' = [kernel EXCEPT ![t] = {}]
      BY <3>1, <3>4
    <3> QED
      BY <1>8, <3>2, <3>3, <3>4 DEF Edit
  <2>2. \A s \in Table : {i \in Id : Nowhere[i] = s} = {}
    BY TableAssumption DEF Nowhere
  <2>3. UNCHANGED <<asked, backups, update>> /\ Nowhere \in asked
    BY <1>0, <1>8 DEF Edit, SourcesAreWhole
  <2> QED
    BY <1>0, <2>1, <2>2, <2>3 DEF SourcesAreWhole, TablesAreWhole, Whole
<1>9. CASE Done \/ UNCHANGED vars
  BY <1>0, <1>9 DEF Done, vars, SourcesAreWhole, TablesAreWhole, Whole
<1> QED
  BY <1>1, <1>3, <1>4, <1>5, <1>6, <1>7, <1>8, <1>9 DEF Next

----------------------------------------------------------------------------
\* The invariant is inductive: every step of UpdateRulesFromProto, of
\* iptables-restore, of other programs and of a restart keeps it.
THEOREM Invariance == Spec => []IInv
<1>1. IInv /\ [Next]_vars => IInv'
  BY TypeNext, ExactNext, OthersNext, WayBackNext, WholeNext DEF IInv
<1> QED
  BY InitHolds, <1>1, PTL DEF Spec

\* Rules only ever stand in tables, and managed rules at a table of theirs.
THEOREM TypeCorrect == Spec => []TypeOK
<1>1. IInv => TypeOK
  BY DEF IInv
<1> QED
  BY Invariance, <1>1, PTL

\* After UpdateRulesFromProto succeeds, the tables have exactly the server's rules.
THEOREM SuccessLeavesServersRules == Spec => []SuccessIsExact
<1>1. IInv => SuccessIsExact
  BY DEF IInv
<1> QED
  BY Invariance, <1>1, PTL

\* Rules of other programs survive generateRulesContent, iptables-restore and the
\* rollback, unless they look managed or were edited in between.
THEOREM OthersAreSpared == Spec => []ForeignRulesKept
<1>1. IInv => ForeignRulesKept
  BY DEF IInv
<1> QED
  BY Invariance, <1>1, PTL

\* However an update fails, no table has rules of two updates: what iptables-restore
\* loads, of this update or from a backup, is whole at every table.
THEOREM NoTableIsMixed == Spec => []TablesAreWhole
<1>1. IInv => TablesAreWhole
  BY DEF IInv
<1> QED
  BY Invariance, <1>1, PTL

\* restoreFromBackup, from the backup of the same update, gives every table that was
\* there its old contents, and leaves nothing but managed rules in one the update made.
THEOREM RollbackIsComplete == Spec => []RollbackRestores
<1>1. IInv => RollbackRestores
  BY DEF IInv
<1> QED
  BY Invariance, <1>1, PTL
============================================================================
