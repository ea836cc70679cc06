-------------------------- MODULE PolicyStoreProofs --------------------------
(***************************************************************************)
(* Proofs about PolicyStore for any number of processes, files, rules and  *)
(* versions: a reader sees the old policy or the new one, versions only    *)
(* grow, and a file does not vanish.                                       *)
(***************************************************************************)
EXTENDS PolicyStore, TLAPS

(***************************************************************************)
(* The strengthening.  While nobody clashed: both the file and what the    *)
(* disk still has of it are final texts, and the temporary file is neither *)
(* of them; one process saves at most; and that process finds its own work *)
(* at every system call, and a file older than its goal until it renames.  *)
(***************************************************************************)
TextOf(i) == IF i = None THEN None ELSE text[i]

DiskIsExpected ==
  /\ {file, onDisk} \subseteq synced \cup {None}
  /\ {Loaded, TextOf(onDisk)} \subseteq possible
  /\ tmp # None => tmp \notin {file, onDisk}

OneSaves ==
  \A p, q \in Process : pc[p] \in Saving /\ pc[q] \in Saving => p = q

FindsItsWork(p) ==
  /\ pc[p] \in {"write", "sync"} => handle[p] = tmp
  /\ pc[p] \in {"write", "sync", "rename"} => tmp # None
  /\ pc[p] = "write" => text[tmp] = Empty
  /\ pc[p] \in {"sync", "rename"} => text[tmp] = goal[p]
  /\ pc[p] = "rename" => tmp \in synced
  /\ pc[p] \in Saving \ {"syncdir"} /\ Loaded \in Policy
       => Loaded.version < goal[p].version
  /\ pc[p] = "syncdir" => Loaded = goal[p]

Undisturbed ==
  /\ DiskIsExpected
  /\ OneSaves
  /\ \A p \in Process : FindsItsWork(p)

IInv == TypeOK /\ (~clash => Undisturbed)

-----------------------------------------------------------------------------
(***************************************************************************)
(* What the constants are, in the form the provers need.                   *)
(***************************************************************************)
LEMMA Constants ==
  /\ None \notin Inode /\ None \notin Text
  /\ Unusable \cap Policy = {}
  /\ Legacy \in Policy \cup {None}
  /\ MaxVersion \in Nat \ {0}
  /\ Empty \in Text /\ Torn \in Text /\ Typo \in Text
BY PolicyStoreAssumption DEF PolicyStoreAssumption, Text, Unusable

LEMMA LoadedIsText ==
  ASSUME TypeOK
  PROVE  Loaded \in Text \cup {None}
BY DEF TypeOK, Loaded

(***************************************************************************)
(* Keeps leaves files of the directory with well-formed texts.             *)
(***************************************************************************)
LEMMA KeepsTyped ==
  ASSUME NEW texts \in [Inode -> Text], NEW inodes, Keeps(texts, inodes),
         Named' \subseteq Inode \cup {None}, inodes \subseteq Inode
  PROVE  text' \in [Inode -> Text] /\ synced' \subseteq Inode
BY Constants DEF Keeps

LEMMA VersionsStayInRange ==
  ASSUME TypeOK, NEW p \in Process, Loaded \notin Unusable
  PROVE  NextVersion(p, Loaded) \in Nat \ {0}
<1>1. Loaded \in Policy \cup {None}
  BY LoadedIsText DEF Text
<1>2. VersionOf(Loaded) \in Nat
  <2>1. CASE Loaded = None
    BY <2>1 DEF VersionOf
  <2>2. CASE Loaded # None
    <3>1. Loaded \in Policy
      BY <1>1, <2>2
    <3>2. Loaded.version \in 1 .. MaxVersion
      BY <3>1 DEF Policy
    <3>3. QED
      BY <2>2, <3>2, Constants DEF VersionOf
  <2>3. QED
    BY <2>1, <2>2
<1>3. QED
  BY <1>2 DEF NextVersion, PermissiveVersion

LEMMA EndsTyped ==
  ASSUME TypeOK, NEW p \in Process, Ends(p)
  PROVE  /\ pc' = [pc EXCEPT ![p] = "idle"]
         /\ pc' \in [Process -> {"idle", "adopt", "load", "check"} \cup Saving]
         /\ job' \in [Process -> {"read", "set", "import", "remove"}]
         /\ goal' \in [Process -> Policy \cup {None}]
         /\ handle' \in [Process -> Inode \cup {None}]
         /\ adopting' \subseteq Process
         /\ \A q \in Process :
              /\ handle'[q] # None <=> pc'[q] \in {"write", "sync"}
              /\ pc'[q] \in Saving \cup {"check"} => goal'[q] # None
              /\ pc'[q] = "check" => job'[q] \in {"set", "import"}
              /\ pc'[q] = "adopt" => Legacy # None
BY DEF TypeOK, Ends, Goes, Saving

-----------------------------------------------------------------------------
(***************************************************************************)
(* Type correctness: one lemma for the commands, one for a save.           *)
(***************************************************************************)
LEMMA CommandTyped ==
  ASSUME TypeOK, NEW p \in Process, Command(p)
  PROVE  TypeOK'
<1> USE Constants
<1>1. CASE Begin(p)
  BY <1>1 DEF TypeOK, Begin, Opened, Goes, directory, history, Saving
<1>2. CASE Adopt(p)
  <2>1. Legacy \in Policy \cup {None}
    OBVIOUS
  <2>2. CASE AdoptNeeded
    BY <1>2, <2>2
       DEF TypeOK, Adopt, AdoptsRow, StartsSaving, Goes, Expects, directory,
           Saving, SomebodyElseSaves
  <2>3. CASE ~AdoptNeeded
    BY <1>2, <2>3 DEF TypeOK, Adopt, Goes, directory, history, Saving
  <2>4. QED
    BY <2>2, <2>3
<1>3. CASE Look(p)
  BY <1>3, EndsTyped DEF TypeOK, Look, directory, history
<1>4. CASE Remove(p)
  <2>1. text' \in [Inode -> Text] /\ synced' \subseteq Inode
    BY <1>4, KeepsTyped DEF Remove, TypeOK, Named
  <2>2. possible' \subseteq Text \cup {None} /\ clash' \in BOOLEAN
    BY <1>4 DEF Remove, Expects, TypeOK, SomebodyElseSaves
  <2>3. file' = None /\ UNCHANGED <<tmp, onDisk>> /\ Ends(p)
    BY <1>4 DEF Remove
  <2>4. QED
    BY <2>1, <2>2, <2>3, EndsTyped DEF TypeOK
<1>5. CASE Prepare(p)
  <2>1. CASE Loaded \in Unusable
    BY <1>5, <2>1, EndsTyped DEF TypeOK, Prepare, directory, history
  <2>2. CASE Loaded \notin Unusable
    <3>1. PICK rules \in Rules :
            goal' = [goal EXCEPT ![p] =
                       [version |-> NextVersion(p, Loaded), rules |-> rules]]
      BY <1>5, <2>2 DEF Prepare
    <3>2. NextVersion(p, Loaded) \in 1 .. MaxVersion
      BY <1>5, <2>2, VersionsStayInRange DEF Prepare
    <3>3. [version |-> NextVersion(p, Loaded), rules |-> rules] \in Policy
      BY <3>2 DEF Policy
    <3>4. None \notin Policy
      BY DEF Text
    <3>5. QED
      BY <1>5, <2>2, <3>1, <3>3, <3>4
         DEF TypeOK, Prepare, Goes, directory, history, Saving
  <2>3. QED
    BY <2>1, <2>2
<1>6. CASE Check(p)
  <2>1. CASE Loaded \in Unusable \/ Refused(p)
    BY <1>6, <2>1, EndsTyped DEF TypeOK, Check, directory, history
  <2>2. CASE ~(Loaded \in Unusable \/ Refused(p))
    BY <1>6, <2>2
       DEF TypeOK, Check, StartsSaving, Goes, Expects, directory, Saving
  <2>3. QED
    BY <2>1, <2>2
<1>7. QED
  BY <1>1, <1>2, <1>3, <1>4, <1>5, <1>6 DEF Command

(***************************************************************************)
(* The steps of a save that touch texts go through Keeps.                  *)
(***************************************************************************)
LEMMA SaveTyped ==
  ASSUME TypeOK, NEW p \in Process, Save(p)
  PROVE  TypeOK'
<1> USE Constants
<1>1. CASE Create(p)
  <2>1. PICK i \in IF tmp = None THEN Free ELSE {tmp} :
          /\ tmp' = i
          /\ handle' = [handle EXCEPT ![p] = i]
          /\ text' = [text EXCEPT ![i] = Empty]
          /\ synced' = synced \ {i}
    BY <1>1 DEF Create
  <2>2. i \in Inode
    BY <2>1 DEF TypeOK, Free
  <2>3. QED
    BY <1>1, <2>1, <2>2 DEF TypeOK, Create, Goes, history, Saving
<1>2. CASE Write(p)
  <2>1. handle[p] \in Inode /\ goal[p] \in Policy
    BY <1>2 DEF Write, TypeOK, Saving
  <2>2. PICK new \in Overwritten(text[handle[p]], goal[p]) :
          Keeps([text EXCEPT ![handle[p]] = new], synced \ {handle[p]})
    BY <1>2 DEF Write
  <2>3. new \in Text
    BY <2>1, <2>2 DEF Overwritten, Text
  <2>4. text' \in [Inode -> Text] /\ synced' \subseteq Inode
    <3>1. [text EXCEPT ![handle[p]] = new] \in [Inode -> Text]
      BY <2>3 DEF TypeOK
    <3>2. Named' \subseteq Inode \cup {None}
      BY <1>2 DEF Write, TypeOK, Named
    <3>3. synced \ {handle[p]} \subseteq Inode
      BY DEF TypeOK
    <3>4. QED
      BY <2>2, <3>1, <3>2, <3>3, KeepsTyped
  <2>5. QED
    BY <1>2, <2>4 DEF Write, TypeOK, Goes, history, Saving
<1>3. CASE WriteFails(p)
  <2>1. text' \in [Inode -> Text] /\ synced' \subseteq Inode
    <3>1. [text EXCEPT ![handle[p]] = Torn] \in [Inode -> Text]
      BY DEF TypeOK
    <3>2. Named' \subseteq Inode \cup {None}
      BY <1>3 DEF WriteFails, TypeOK, Named
    <3>3. synced \ {handle[p]} \subseteq Inode
      BY DEF TypeOK
    <3>4. QED
      BY <1>3, <3>1, <3>2, <3>3, KeepsTyped DEF WriteFails
  <2>2. Ends(p) /\ UNCHANGED <<file, tmp, onDisk, history>>
    BY <1>3 DEF WriteFails
  <2>3. QED
    BY <2>1, <2>2, EndsTyped DEF TypeOK, history
<1>4. CASE Sync(p)
  <2>1. handle[p] \in Inode
    BY <1>4 DEF Sync, TypeOK
  <2>2. text' \in [Inode -> Text] /\ synced' \subseteq Inode
    <3>1. Named' \subseteq Inode \cup {None}
      BY <1>4 DEF Sync, TypeOK, Named
    <3>2. synced \cup {handle[p]} \subseteq Inode /\ text \in [Inode -> Text]
      BY <2>1 DEF TypeOK
    <3>3. QED
      BY <1>4, <3>1, <3>2, KeepsTyped DEF Sync
  <2>3. QED
    BY <1>4, <2>2 DEF Sync, TypeOK, Goes, history, Saving
<1>5. CASE Rename(p)
  <2>1. text' \in [Inode -> Text] /\ synced' \subseteq Inode
    <3>1. Named' \subseteq Inode \cup {None}
      BY <1>5 DEF Rename, TypeOK, Named
    <3>2. QED
      BY <1>5, <3>1, KeepsTyped DEF Rename, TypeOK
  <2>2. possible' \subseteq Text \cup {None}
    BY <1>5 DEF Rename, Expects, TypeOK, Text
  <2>3. QED
    BY <1>5, <2>1, <2>2 DEF Rename, TypeOK, Goes, Saving
<1>6. CASE RenameFails(p)
  BY <1>6, EndsTyped DEF TypeOK, RenameFails, directory, history
<1>7. CASE SyncDirectory(p)
  <2>1. text' \in [Inode -> Text] /\ synced' \subseteq Inode
    <3>1. Named' \subseteq Inode \cup {None}
      BY <1>7 DEF SyncDirectory, TypeOK, Named
    <3>2. QED
      BY <1>7, <3>1, KeepsTyped DEF SyncDirectory, TypeOK
  <2>2. possible' \subseteq Text \cup {None}
    BY <1>7 DEF SyncDirectory, Expects, TypeOK, Text
  <2>3. CASE p \in adopting
    BY <1>7, <2>1, <2>2, <2>3 DEF SyncDirectory, TypeOK, Goes, Saving
  <2>4. CASE p \notin adopting
    BY <1>7, <2>1, <2>2, <2>4, EndsTyped DEF SyncDirectory, TypeOK
  <2>5. QED
    BY <2>3, <2>4
<1>8. QED
  BY <1>1, <1>2, <1>3, <1>4, <1>5, <1>6, <1>7 DEF Save

LEMMA EnvironmentTyped ==
  ASSUME TypeOK, (\E p \in Process : Killed(p)) \/ HandEdit \/ PowerLoss
  PROVE  TypeOK'
<1> USE Constants
<1>1. ASSUME NEW p \in Process, Killed(p)
      PROVE  TypeOK'
  BY <1>1, EndsTyped DEF TypeOK, Killed, directory, history
<1>2. CASE HandEdit
  <2>1. PICK typed \in Policy \cup {Typo},
             i \in IF file = None THEN Free ELSE {file} :
          /\ file' = i /\ onDisk' = i /\ tmp' = tmp
          /\ Keeps([text EXCEPT ![i] = typed], synced \cup {i})
          /\ Expects({typed})
    BY <1>2 DEF HandEdit
  <2>2. i \in Inode /\ typed \in Text
    BY <2>1 DEF TypeOK, Free, Text
  <2>3. text' \in [Inode -> Text] /\ synced' \subseteq Inode
    <3>1. [text EXCEPT ![i] = typed] \in [Inode -> Text]
      BY <2>2 DEF TypeOK
    <3>2. Named' \subseteq Inode \cup {None}
      BY <2>1, <2>2 DEF TypeOK, Named
    <3>3. synced \cup {i} \subseteq Inode
      BY <2>2 DEF TypeOK
    <3>4. QED
      BY <2>1, <3>1, <3>2, <3>3, KeepsTyped
  <2>4. possible' \subseteq Text \cup {None} /\ clash' \in BOOLEAN
    BY <1>2, <2>1, <2>2 DEF HandEdit, Expects, TypeOK
  <2>5. QED
    BY <1>2, <2>1, <2>2, <2>3, <2>4 DEF HandEdit, TypeOK, process
<1>3. CASE PowerLoss
  <2>1. PICK lost \in SUBSET ({file', tmp'} \cap (Inode \ synced)) :
          Keeps([i \in Inode |-> IF i \in lost THEN Empty ELSE text[i]], Inode)
    BY <1>3 DEF PowerLoss
  <2>2. /\ file' \in Inode \cup {None} /\ onDisk' \in Inode \cup {None}
        /\ tmp' \in Inode \cup {None}
    BY <1>3 DEF PowerLoss, TypeOK
  <2>3. text' \in [Inode -> Text] /\ synced' \subseteq Inode
    <3>1. [i \in Inode |-> IF i \in lost THEN Empty ELSE text[i]] \in [Inode -> Text]
      BY DEF TypeOK
    <3>2. Named' \subseteq Inode \cup {None}
      BY <2>2 DEF Named
    <3>3. QED
      BY <2>1, <3>1, <3>2, KeepsTyped
  <2>4. QED
    BY <1>3, <2>2, <2>3 DEF PowerLoss, TypeOK, history, Saving
<1>4. QED
  BY <1>1, <1>2, <1>3

LEMMA TypeStep == TypeOK /\ [Next]_vars => TypeOK'
<1>1. ASSUME TypeOK, UNCHANGED vars
      PROVE  TypeOK'
  BY <1>1 DEF TypeOK, vars, directory, process, history
<1>2. QED
  BY <1>1, CommandTyped, SaveTyped, EnvironmentTyped DEF Next

(***************************************************************************)
(* The directory and the processes are well formed.                        *)
(***************************************************************************)
THEOREM TypeCorrect == Spec => []TypeOK
<1>1. Init => TypeOK
  BY Constants DEF Init, TypeOK, Saving
<1>2. QED
  BY <1>1, TypeStep, PTL DEF Spec

-----------------------------------------------------------------------------
(***************************************************************************)
(* Whatever runs, is killed or fails at the same time, a child is off the  *)
(* list only when somebody removed the rules, or when power was lost       *)
(* before they were final.                                                 *)
(***************************************************************************)
THEOREM RulesNeverVanish == Spec => RulesStay
<1>1. ASSUME TypeOK, Next, file # None, file' = None
      PROVE  (\E p \in Process : Remove(p)) \/ (PowerLoss /\ onDisk = None)
  <2>1. ASSUME NEW p \in Process, Command(p) \/ Save(p) \/ Killed(p)
        PROVE  Remove(p)
    BY <1>1, <2>1
       DEF Command, Begin, Adopt, Look, Prepare, Check, Save, Create, Write,
           WriteFails, Sync, Rename, RenameFails, SyncDirectory, Killed,
           directory
  <2>2. CASE HandEdit
    BY <1>1, <2>2, Constants DEF HandEdit, Free, TypeOK
  <2>3. CASE PowerLoss
    BY <1>1, <2>3 DEF PowerLoss
  <2>4. QED
    BY <1>1, <2>1, <2>2, <2>3 DEF Next
<1>2. TypeOK /\ [Next]_vars
        => [ Listed /\ ~Listed'
               => \/ \E p \in Process : Remove(p)
                  \/ PowerLoss /\ onDisk = None ]_vars
  BY <1>1 DEF Listed
<1>3. QED
  BY <1>2, TypeCorrect, PTL DEF Spec, RulesStay

-----------------------------------------------------------------------------
(***************************************************************************)
(* A clash is never forgotten, so a step without one comes from a state    *)
(* without one.                                                            *)
(***************************************************************************)
LEMMA ClashStays ==
  ASSUME TypeOK, Next, ~clash'
  PROVE  ~clash
<1>1. ASSUME NEW p \in Process, Command(p)
      PROVE  ~clash
  BY <1>1 DEF TypeOK, Command, Begin, Adopt, AdoptsRow, Look, Remove, Prepare,
              Check, StartsSaving, history
<1>2. ASSUME NEW p \in Process, Save(p) \/ Killed(p)
      PROVE  ~clash
  BY <1>2 DEF TypeOK, Save, Create, Write, WriteFails, Sync, Rename,
              RenameFails, SyncDirectory, Killed, history
<1>3. CASE HandEdit \/ PowerLoss
  BY <1>3 DEF TypeOK, HandEdit, PowerLoss, history
<1>4. QED
  BY <1>1, <1>2, <1>3 DEF Next

LEMMA IdleFindsItsWork ==
  ASSUME NEW p \in Process, pc[p] \notin Saving
  PROVE  FindsItsWork(p)
BY DEF FindsItsWork, Saving

(***************************************************************************)
(* Steps that leave the directory alone and save nothing.                  *)
(***************************************************************************)
LEMMA AsideKeeps ==
  ASSUME Undisturbed, UNCHANGED <<directory, possible>>, NEW p \in Process,
         pc'[p] \notin Saving,
         \A q \in Process \ {p} :
           pc'[q] = pc[q] /\ goal'[q] = goal[q] /\ handle'[q] = handle[q]
  PROVE  Undisturbed'
<1>1. DiskIsExpected'
  BY DEF Undisturbed, DiskIsExpected, directory, Loaded, TextOf
<1>2. OneSaves'
  BY DEF Undisturbed, OneSaves
<1>3. ASSUME NEW q \in Process
      PROVE  FindsItsWork(q)'
  <2>1. CASE q = p
    BY <2>1 DEF FindsItsWork, Saving
  <2>2. CASE q # p
    BY <2>2 DEF Undisturbed, FindsItsWork, directory, Loaded
  <2>3. QED
    BY <2>1, <2>2
<1>4. QED
  BY <1>1, <1>2, <1>3 DEF Undisturbed

(***************************************************************************)
(* A save begins with a goal newer than what it found.                     *)
(***************************************************************************)
LEMMA StartKeeps ==
  ASSUME TypeOK, Undisturbed, UNCHANGED directory, ~clash', NEW p \in Process,
         StartsSaving(p),
         \A q \in Process \ {p} : goal'[q] = goal[q],
         Loaded \in Policy => Loaded.version < goal'[p].version
  PROVE  Undisturbed'
<1>1. /\ pc' = [pc EXCEPT ![p] = "create"]
      /\ possible' = possible /\ UNCHANGED handle
  BY DEF StartsSaving, Goes, Expects
<1>2. \A q \in Process \ {p} : pc[q] \notin Saving
  BY DEF StartsSaving, SomebodyElseSaves
<1>3. DiskIsExpected'
  BY <1>1 DEF Undisturbed, DiskIsExpected, directory, Loaded, TextOf
<1>4. \A q \in Process \ {p} : pc'[q] \notin Saving
  BY <1>1, <1>2 DEF TypeOK
<1>5. pc'[p] = "create"
  BY <1>1 DEF TypeOK
<1>6. Loaded' = Loaded
  BY DEF Loaded, directory
<1>7. ASSUME NEW q \in Process
      PROVE  FindsItsWork(q)'
  BY <1>4, <1>5, <1>6 DEF FindsItsWork, Saving
<1>8. OneSaves'
  BY <1>4 DEF OneSaves
<1>9. QED
  BY <1>3, <1>7, <1>8 DEF Undisturbed

LEMMA NewerIsNewer ==
  ASSUME TypeOK, NEW p \in Process, goal[p] \in Policy,
         Loaded \in Policy, ~Refused(p)
  PROVE  Loaded.version < goal[p].version
<1>1. Loaded.version \in 1 .. MaxVersion /\ goal[p].version \in 1 .. MaxVersion
  BY DEF Policy
<1>2. Loaded # None
  BY Constants DEF Text
<1>3. QED
  BY <1>1, <1>2, Constants DEF Refused, VersionOf

LEMMA CommandKeeps ==
  ASSUME TypeOK, Undisturbed, ~clash', NEW p \in Process, Command(p)
  PROVE  Undisturbed'
<1>1. CASE Begin(p)
  BY <1>1, AsideKeeps DEF Begin, Opened, Goes, TypeOK, history, Saving
<1>2. CASE Adopt(p)
  <2>1. CASE AdoptNeeded
    BY <1>2, <2>1, StartKeeps DEF Adopt, AdoptsRow, AdoptNeeded, TypeOK
  <2>2. CASE ~AdoptNeeded
    BY <1>2, <2>2, AsideKeeps DEF Adopt, Goes, TypeOK, history, Saving
  <2>3. QED
    BY <2>1, <2>2
<1>3. CASE Look(p)
  BY <1>3, AsideKeeps DEF Look, Ends, Goes, TypeOK, history, Saving
<1>4. CASE Remove(p)
  <2>1. pc[p] \notin Saving
    BY <1>4 DEF Remove, Saving
  <2>2. \A q \in Process : pc'[q] \notin Saving
    BY <1>4, <2>1 DEF Remove, SomebodyElseSaves, Ends, Goes, TypeOK, Saving
  <2>3. DiskIsExpected'
    BY <1>4 DEF Undisturbed, DiskIsExpected, Remove, Expects, Keeps, Named,
                Loaded, TextOf, TypeOK
  <2>4. QED
    BY <2>2, <2>3 DEF Undisturbed, OneSaves, FindsItsWork, Saving
<1>5. CASE Prepare(p)
  <2>1. CASE Loaded \in Unusable
    BY <1>5, <2>1, AsideKeeps DEF Prepare, Ends, Goes, TypeOK, history, Saving
  <2>2. CASE Loaded \notin Unusable
    BY <1>5, <2>2, AsideKeeps DEF Prepare, Goes, TypeOK, history, Saving
  <2>3. QED
    BY <2>1, <2>2
<1>6. CASE Check(p)
  <2>1. CASE Loaded \in Unusable \/ Refused(p)
    BY <1>6, <2>1, AsideKeeps DEF Check, Ends, Goes, TypeOK, history, Saving
  <2>2. CASE ~(Loaded \in Unusable \/ Refused(p))
    <3>1. StartsSaving(p) /\ UNCHANGED <<directory, goal>>
      BY <1>6, <2>2 DEF Check
    <3>2. goal[p] \in Policy
      BY <1>6 DEF Check, TypeOK
    <3>3. Loaded \in Policy => Loaded.version < goal'[p].version
      BY <2>2, <3>1, <3>2, NewerIsNewer
    <3>4. QED
      BY <3>1, <3>3, StartKeeps
  <2>3. QED
    BY <2>1, <2>2
<1>7. QED
  BY <1>1, <1>2, <1>3, <1>4, <1>5, <1>6 DEF Command

(***************************************************************************)
(* While one saves, nobody else does, and the others find no work of       *)
(* theirs disturbed.                                                       *)
(***************************************************************************)
LEMMA SaverAlone ==
  ASSUME TypeOK, Undisturbed, NEW p \in Process, pc[p] \in Saving,
         \A q \in Process \ {p} : pc'[q] = pc[q]
  PROVE  /\ OneSaves'
         /\ FindsItsWork(p)' => \A q \in Process : FindsItsWork(q)'
<1>1. \A q \in Process \ {p} : pc'[q] \notin Saving
  BY DEF Undisturbed, OneSaves
<1>2. OneSaves'
  BY <1>1 DEF OneSaves
<1>3. \A q \in Process \ {p} : FindsItsWork(q)'
  BY <1>1 DEF FindsItsWork, Saving
<1>4. QED
  BY <1>2, <1>3

LEMMA SaveKeeps ==
  ASSUME TypeOK, Undisturbed, ~clash', NEW p \in Process, Save(p)
  PROVE  Undisturbed'
<1> USE Constants
<1>1. CASE Create(p)
  <2>1. PICK i \in IF tmp = None THEN Free ELSE {tmp} :
          /\ tmp' = i
          /\ handle' = [handle EXCEPT ![p] = i]
          /\ text' = [text EXCEPT ![i] = Empty]
          /\ synced' = synced \ {i}
    BY <1>1 DEF Create
  <2>2. i \in Inode /\ i \notin {file, onDisk}
    BY <2>1 DEF TypeOK, Free, Undisturbed, DiskIsExpected
  <2>3. /\ UNCHANGED <<file, onDisk, possible, goal>>
        /\ pc[p] = "create" /\ pc' = [pc EXCEPT ![p] = "write"]
    BY <1>1 DEF Create, Goes, history
  <2>4. Loaded' = Loaded /\ TextOf(onDisk)' = TextOf(onDisk)
    BY <2>1, <2>2, <2>3 DEF Loaded, TextOf, TypeOK
  <2>5. DiskIsExpected'
    BY <2>1, <2>2, <2>3, <2>4 DEF Undisturbed, DiskIsExpected
  <2>6. FindsItsWork(p)'
    BY <2>1, <2>2, <2>3, <2>4 DEF Undisturbed, FindsItsWork, TypeOK, Saving
  <2>7. QED
    BY <2>3, <2>5, <2>6, SaverAlone DEF Undisturbed, TypeOK, Saving
<1>2. CASE Write(p)
  <2>1. /\ handle[p] = tmp /\ tmp # None /\ text[tmp] = Empty
        /\ pc[p] = "write"
    BY <1>2 DEF Write, Undisturbed, FindsItsWork
  <2>2. Keeps([text EXCEPT ![tmp] = goal[p]], synced \ {tmp})
    BY <1>2, <2>1 DEF Write, Overwritten
  <2>3. /\ UNCHANGED <<file, tmp, onDisk, possible, goal, handle>>
        /\ pc' = [pc EXCEPT ![p] = "sync"]
    BY <1>2 DEF Write, Goes, history
  <2>4. tmp \in Inode /\ tmp \notin {file, onDisk}
    BY <2>1 DEF TypeOK, Undisturbed, DiskIsExpected
  <2>5. /\ Loaded' = Loaded /\ TextOf(onDisk)' = TextOf(onDisk)
        /\ text'[tmp] = goal[p]
    BY <2>2, <2>3, <2>4 DEF Keeps, Named, Loaded, TextOf, TypeOK
  <2>6. DiskIsExpected'
    BY <2>2, <2>3, <2>4, <2>5 DEF Keeps, Named, Undisturbed, DiskIsExpected
  <2>7. FindsItsWork(p)'
    BY <2>1, <2>3, <2>5 DEF Undisturbed, FindsItsWork, TypeOK, Saving
  <2>8. QED
    BY <2>1, <2>3, <2>6, <2>7, SaverAlone DEF Undisturbed, TypeOK, Saving
<1>3. CASE WriteFails(p)
  <2>1. handle[p] = tmp /\ tmp # None /\ pc[p] = "write"
    BY <1>3 DEF WriteFails, Undisturbed, FindsItsWork
  <2>2. /\ Keeps([text EXCEPT ![tmp] = Torn], synced \ {tmp})
        /\ UNCHANGED <<file, tmp, onDisk, possible>>
        /\ pc' = [pc EXCEPT ![p] = "idle"]
    BY <1>3, <2>1 DEF WriteFails, Ends, Goes, history
  <2>3. tmp \in Inode /\ tmp \notin {file, onDisk}
    BY <2>1 DEF TypeOK, Undisturbed, DiskIsExpected
  <2>4. Loaded' = Loaded /\ TextOf(onDisk)' = TextOf(onDisk)
    BY <2>2, <2>3 DEF Keeps, Named, Loaded, TextOf, TypeOK
  <2>5. DiskIsExpected'
    BY <2>2, <2>3, <2>4 DEF Keeps, Named, Undisturbed, DiskIsExpected
  <2>6. FindsItsWork(p)'
    BY <2>2 DEF FindsItsWork, TypeOK, Saving
  <2>7. QED
    BY <2>1, <2>2, <2>5, <2>6, SaverAlone DEF Undisturbed, TypeOK, Saving
<1>4. CASE Sync(p)
  <2>1. /\ handle[p] = tmp /\ tmp # None /\ text[tmp] = goal[p]
        /\ pc[p] = "sync"
    BY <1>4 DEF Sync, Undisturbed, FindsItsWork
  <2>2. /\ Keeps(text, synced \cup {tmp})
        /\ UNCHANGED <<file, tmp, onDisk, possible, goal>>
        /\ pc' = [pc EXCEPT ![p] = "rename"]
    BY <1>4, <2>1 DEF Sync, Goes, history
  <2>3. tmp \in Inode
    BY <2>1 DEF TypeOK
  <2>4. /\ Loaded' = Loaded /\ TextOf(onDisk)' = TextOf(onDisk)
        /\ text'[tmp] = goal[p]
    BY <2>1, <2>2, <2>3 DEF Keeps, Named, Loaded, TextOf, TypeOK
  <2>5. DiskIsExpected'
    BY <2>2, <2>4 DEF Keeps, Named, Undisturbed, DiskIsExpected
  <2>6. FindsItsWork(p)'
    BY <2>1, <2>2, <2>4
       DEF Keeps, Named, Undisturbed, FindsItsWork, TypeOK, Saving
  <2>7. QED
    BY <2>1, <2>2, <2>5, <2>6, SaverAlone DEF Undisturbed, TypeOK, Saving
<1>5. CASE Rename(p)
  <2>1. /\ tmp # None /\ text[tmp] = goal[p] /\ tmp \in synced
        /\ pc[p] = "rename"
    BY <1>5 DEF Rename, Undisturbed, FindsItsWork
  <2>2. /\ Keeps(text, synced)
        /\ file' = tmp /\ tmp' = None
        /\ possible' = possible \cup {goal[p]}
        /\ UNCHANGED <<onDisk, goal>>
        /\ pc' = [pc EXCEPT ![p] = "syncdir"]
    BY <1>5 DEF Rename, Goes, Expects
  <2>3. tmp \in Inode
    BY <2>1 DEF TypeOK
  <2>4. Loaded' = goal[p] /\ TextOf(onDisk)' = TextOf(onDisk)
    BY <2>1, <2>2, <2>3 DEF Keeps, Named, Loaded, TextOf, TypeOK
  <2>5. DiskIsExpected'
    BY <2>1, <2>2, <2>4 DEF Keeps, Named, Undisturbed, DiskIsExpected
  <2>6. FindsItsWork(p)'
    BY <2>2, <2>4 DEF FindsItsWork, TypeOK, Saving
  <2>7. QED
    BY <2>1, <2>2, <2>5, <2>6, SaverAlone DEF Undisturbed, TypeOK, Saving
<1>6. CASE RenameFails(p)
  BY <1>6, AsideKeeps DEF RenameFails, Ends, Goes, TypeOK, history, Saving
<1>7. CASE SyncDirectory(p)
  <2>1. pc[p] = "syncdir" /\ Loaded = goal[p]
    BY <1>7 DEF SyncDirectory, Undisturbed, FindsItsWork
  <2>2. /\ Keeps(text, synced)
        /\ onDisk' = file /\ UNCHANGED <<file, tmp>>
        /\ possible' = {goal[p]}
    BY <1>7 DEF SyncDirectory, Expects
  <2>3. /\ \A q \in Process \ {p} : pc'[q] = pc[q]
        /\ pc'[p] \in {"load", "idle"}
    BY <1>7 DEF SyncDirectory, Ends, Goes, TypeOK
  <2>4. Loaded' = goal[p] /\ TextOf(onDisk)' = goal[p]
    BY <2>1, <2>2 DEF Keeps, Named, Loaded, TextOf, TypeOK
  <2>5. DiskIsExpected'
    BY <2>2, <2>4 DEF Keeps, Named, Undisturbed, DiskIsExpected
  <2>6. FindsItsWork(p)'
    BY <2>3 DEF FindsItsWork, Saving
  <2>7. QED
    BY <2>1, <2>3, <2>5, <2>6, SaverAlone DEF Undisturbed, Saving
<1>8. QED
  BY <1>1, <1>2, <1>3, <1>4, <1>5, <1>6, <1>7 DEF Save

LEMMA EnvironmentKeeps ==
  ASSUME TypeOK, Undisturbed, ~clash',
         (\E p \in Process : Killed(p)) \/ HandEdit \/ PowerLoss
  PROVE  Undisturbed'
<1> USE Constants
<1>1. ASSUME NEW p \in Process, Killed(p)
      PROVE  Undisturbed'
  BY <1>1, AsideKeeps DEF Killed, Ends, Goes, TypeOK, history, Saving
<1>2. CASE HandEdit
  <2>1. PICK typed \in Policy \cup {Typo},
             i \in IF file = None THEN Free ELSE {file} :
          /\ file' = i /\ onDisk' = i /\ tmp' = tmp
          /\ Keeps([text EXCEPT ![i] = typed], synced \cup {i})
          /\ possible' = {typed}
    BY <1>2 DEF HandEdit, Expects
  <2>2. i \in Inode /\ (tmp # None => i # tmp)
    BY <2>1 DEF TypeOK, Free, Undisturbed, DiskIsExpected
  <2>3. Loaded' = typed /\ TextOf(onDisk)' = typed
    BY <2>1, <2>2 DEF Keeps, Named, Loaded, TextOf, TypeOK
  <2>4. DiskIsExpected'
    BY <2>1, <2>2, <2>3 DEF Keeps, Named, DiskIsExpected
  <2>5. \A p \in Process : pc'[p] \notin Saving
    BY <1>2 DEF HandEdit, process
  <2>6. QED
    BY <2>4, <2>5 DEF Undisturbed, OneSaves, FindsItsWork, Saving
<1>3. CASE PowerLoss
  <2>1. PICK lost \in SUBSET ({file', tmp'} \cap (Inode \ synced)) :
          Keeps([i \in Inode |-> IF i \in lost THEN Empty ELSE text[i]], Inode)
    BY <1>3 DEF PowerLoss
  <2>2. /\ file' \in {file, onDisk} /\ onDisk' = file'
        /\ tmp' # None => tmp' # file'
        /\ UNCHANGED possible
    BY <1>3 DEF PowerLoss, history, TypeOK
  <2>3. file' \in synced \cup {None} /\ file' \in Inode \cup {None}
    BY <2>2 DEF Undisturbed, DiskIsExpected, TypeOK
  <2>4. Loaded' = TextOf(file') /\ TextOf(onDisk)' = TextOf(file')
    BY <2>1, <2>2, <2>3 DEF Keeps, Named, Loaded, TextOf, TypeOK
  <2>5. TextOf(file') \in possible
    BY <2>2 DEF Undisturbed, DiskIsExpected, Loaded, TextOf
  <2>6. DiskIsExpected'
    BY <2>1, <2>2, <2>3, <2>4, <2>5 DEF Keeps, Named, DiskIsExpected
  <2>7. \A p \in Process : pc'[p] \notin Saving
    BY <1>3 DEF PowerLoss, Saving
  <2>8. QED
    BY <2>6, <2>7 DEF Undisturbed, OneSaves, FindsItsWork, Saving
<1>4. QED
  BY <1>1, <1>2, <1>3

LEMMA Inductive == IInv /\ [Next]_vars => IInv'
<1>1. ASSUME IInv, UNCHANGED vars
      PROVE  IInv'
  BY <1>1 DEF IInv, TypeOK, Undisturbed, DiskIsExpected, OneSaves,
              FindsItsWork, Loaded, TextOf, vars, directory, process, history
<1>2. ASSUME IInv, Next
      PROVE  IInv'
  <2>1. TypeOK'
    BY <1>2, TypeStep DEF IInv
  <2>2. ASSUME ~clash'
        PROVE  Undisturbed'
    <3>1. TypeOK /\ Undisturbed
      BY <1>2, <2>2, ClashStays DEF IInv
    <3>2. QED
      BY <1>2, <2>2, <3>1, CommandKeeps, SaveKeeps, EnvironmentKeeps DEF Next
  <2>3. QED
    BY <2>1, <2>2 DEF IInv
<1>3. QED
  BY <1>1, <1>2

LEMMA AlwaysInductive == Spec => []IInv
<1>1. Init => IInv
  <2>1. Init => TypeOK
    BY Constants DEF Init, TypeOK, Saving
  <2>2. Init => Undisturbed
    BY DEF Init, Undisturbed, DiskIsExpected, OneSaves, FindsItsWork, Loaded,
           TextOf, Saving
  <2>3. QED
    BY <2>1, <2>2 DEF IInv
<1>2. QED
  BY <1>1, Inductive, PTL DEF Spec

(***************************************************************************)
(* A reader sees the old policy or the new one, whatever was killed        *)
(* whenever and wherever the power was lost; after the reply only the new. *)
(***************************************************************************)
THEOREM ReadersSeeOldOrNew == Spec => []OldOrNew
<1>1. IInv => OldOrNew
  BY DEF IInv, Undisturbed, DiskIsExpected, OldOrNew
<1>2. QED
  BY <1>1, AlwaysInductive, PTL

(***************************************************************************)
(* Hand edits and power losses aside, the version in the file only grows.  *)
(***************************************************************************)
THEOREM VersionsOnlyGrow == Spec => VersionGrows
<1>1. ASSUME IInv, Next, {Loaded, Loaded'} \subseteq Policy,
             Loaded' # Loaded, ~clash', ~HandEdit, ~PowerLoss
      PROVE  Loaded'.version > Loaded.version
  <2>1. TypeOK /\ Undisturbed
    BY <1>1, ClashStays DEF IInv
  <2>2. PICK p \in Process : Command(p) \/ Save(p) \/ Killed(p)
    BY <1>1 DEF Next
  <2>3. ~Command(p)
    <3>1. ~Remove(p)
      BY <1>1, Constants DEF Remove, Loaded, Text
    <3>2. ~UNCHANGED directory
      BY <1>1 DEF directory, Loaded
    <3>3. QED
      BY <3>1, <3>2 DEF Command, Begin, Adopt, Look, Prepare, Check
  <2>4. Rename(p)
    <3>1. ~UNCHANGED directory
      BY <1>1 DEF directory, Loaded
    <3>2. ~Create(p)
      BY <1>1, <2>1, Constants
         DEF Create, Free, Loaded, TypeOK, Undisturbed, DiskIsExpected
    <3>3. ~Write(p) /\ ~WriteFails(p)
      BY <1>1, <2>1, Constants
         DEF Write, WriteFails, Keeps, Named, Loaded, TypeOK, Undisturbed,
             DiskIsExpected, FindsItsWork
    <3>4. ~Sync(p) /\ ~SyncDirectory(p)
      BY <1>1, <2>1, Constants DEF Sync, SyncDirectory, Keeps, Named, Loaded, TypeOK
    <3>5. QED
      BY <2>2, <2>3, <3>1, <3>2, <3>3, <3>4 DEF Save, RenameFails, Killed
  <2>5. /\ tmp \in Inode /\ text[tmp] = goal[p]
        /\ Loaded.version < goal[p].version
    BY <1>1, <2>1, <2>4 DEF Rename, Undisturbed, FindsItsWork, TypeOK, Saving
  <2>6. Loaded' = goal[p]
    BY <2>4, <2>5, Constants DEF Rename, Keeps, Named, Loaded
  <2>7. Loaded.version \in Int /\ goal[p].version \in Int
    BY <1>1, <2>6, Constants DEF Policy
  <2>8. QED
    BY <2>5, <2>6, <2>7
<1>2. IInv /\ [Next]_vars
        => [ {Loaded, Loaded'} \subseteq Policy /\ Loaded' # Loaded /\ ~clash'
               => \/ Loaded'.version > Loaded.version
                  \/ HandEdit \/ PowerLoss ]_vars
  BY <1>1
<1>3. QED
  BY <1>2, AlwaysInductive, PTL DEF Spec, VersionGrows
=============================================================================
