----------------------------- MODULE PolicyStore -----------------------------
(***************************************************************************)
(* The rules of one child as a file: load, save, remove and                *)
(* write_atomically of policystore.rs, save_policy and the adoption from   *)
(* an old database of store.rs, and the tbctl commands that call them.     *)
(*                                                                         *)
(* Every process, a tbctl or the daemon at its start, opens the store      *)
(* first and so goes through the adoption.  Nothing locks the directory:   *)
(* processes interleave at every system call, with each other and with a   *)
(* parent's editor, and may be killed; the machine may lose power.  The    *)
(* daemon's ticks and PAM only look (Loaded), at any moment.               *)
(*                                                                         *)
(* A text is a policy, or one of the texts that are none: empty, torn, or  *)
(* mistyped.  Rules other than the version are opaque.                     *)
(***************************************************************************)
EXTENDS Integers

CONSTANTS
  Process,     \* the processes that open the store
  Inode,       \* the files the directory has room for
  Rules,       \* everything in a policy but the version
  MaxVersion,  \* bound: no command starts from a version this high
  Legacy,      \* the row of the old policy table, or None
  Empty, Torn, Typo,  \* texts that are not policies
  None         \* no such file; nothing

Policy == [version : 1 .. MaxVersion, rules : Rules]

Unusable == {Empty, Torn, Typo}

Text == Policy \cup Unusable

ASSUME PolicyStoreAssumption ==
  /\ MaxVersion \in Nat \ {0}
  /\ Legacy \in Policy \cup {None}
  /\ (Unusable \cup {None}) \cap Policy = {}
  /\ None \notin Unusable \cup Inode
  /\ Typo \notin {Empty, Torn} /\ Empty # Torn

VARIABLES
  file,    \* what <subject>.toml names
  tmp,     \* what .<subject>.toml.tb-tmp names
  text,    \* the text in each inode
  onDisk,  \* what <subject>.toml names after a power loss, at the latest
  synced,  \* the inodes whose text survives a power loss
  pc,      \* where a process is in its code
  job,     \* what a process was started for
  goal,    \* the policy a process is about to save
  handle,  \* the file a process has open for writing
  adopting,  \* the processes that save the old row, not their own policy
  possible,  \* history: what a look at the file may find, if nobody clashed
  clash      \* history: two hands were at the file at the same time

directory == <<file, tmp, text, onDisk, synced>>
process == <<pc, job, goal, handle, adopting>>
history == <<possible, clash>>
vars == <<directory, process, history>>

Saving == {"create", "write", "sync", "rename", "syncdir"}

TypeOK ==
  /\ file \in Inode \cup {None}
  /\ tmp \in Inode \cup {None}
  /\ text \in [Inode -> Text]
  /\ onDisk \in Inode \cup {None}
  /\ synced \subseteq Inode
  /\ pc \in [Process -> {"idle", "adopt", "load", "check"} \cup Saving]
  /\ job \in [Process -> {"read", "set", "import", "remove"}]
  /\ goal \in [Process -> Policy \cup {None}]
  /\ handle \in [Process -> Inode \cup {None}]
  /\ adopting \subseteq Process
  /\ possible \subseteq Text \cup {None}
  /\ clash \in BOOLEAN
  /\ \A p \in Process : /\ handle[p] # None <=> pc[p] \in {"write", "sync"}
                        /\ pc[p] \in Saving \cup {"check"} => goal[p] # None
                        /\ pc[p] = "check" => job[p] \in {"set", "import"}
                        /\ pc[p] = "adopt" => Legacy # None

Init ==
  /\ file = None
  /\ tmp = None
  /\ text = [i \in Inode |-> Empty]
  /\ onDisk = None
  /\ synced = {}
  /\ pc = [p \in Process |-> "idle"]
  /\ job = [p \in Process |-> "read"]
  /\ goal = [p \in Process |-> None]
  /\ handle = [p \in Process |-> None]
  /\ adopting = {}
  /\ possible = {None}
  /\ clash = FALSE

-----------------------------------------------------------------------------
(***************************************************************************)
(* What PolicyStore::load finds.  A text that is no policy is an error,    *)
(* never an absence.                                                       *)
(***************************************************************************)
Loaded == IF file = None THEN None ELSE text[file]

(***************************************************************************)
(* PolicyStore::subjects: whose name a file has.  The temporary file has a *)
(* dot in front and is nobody's.                                           *)
(***************************************************************************)
Listed == file # None

VersionOf(found) == IF found = None THEN 0 ELSE found.version

(***************************************************************************)
(* PolicyEdit::apply on what is there, or on Policy::permissive; an import *)
(* takes the version after the one that is there.                          *)
(***************************************************************************)
PermissiveVersion == 1

NextVersion(p, found) ==
  1 + IF job[p] = "set" /\ found = None THEN PermissiveVersion
      ELSE VersionOf(found)

SomebodyElseSaves(p) == \E q \in Process \ {p} : pc[q] \in Saving

Free == {i \in Inode : /\ i \notin {file, tmp, onDisk}
                       /\ \A p \in Process : handle[p] # i}

(***************************************************************************)
(* What is left of texts and of synced inodes after a step: a file that no *)
(* name leads to can be read by nobody.                                    *)
(***************************************************************************)
Named == {file, tmp, onDisk}

Keeps(texts, inodes) ==
  /\ text' = [i \in Inode |-> IF i \in Named' THEN texts[i] ELSE Empty]
  /\ synced' = inodes \cap Named'

Expects(texts) == possible' = IF clash' THEN {} ELSE texts

Goes(p, there) == pc' = [pc EXCEPT ![p] = there]

EndsLeaking(p) ==
  /\ Goes(p, "idle")
  /\ job' = [job EXCEPT ![p] = "read"]
  /\ goal' = [goal EXCEPT ![p] = None]
  /\ adopting' = adopting \ {p}
  /\ UNCHANGED handle

(***************************************************************************)
(* The process ends, in an error or in a reply.                            *)
(***************************************************************************)
Ends(p) ==
  /\ Goes(p, "idle")
  /\ job' = [job EXCEPT ![p] = "read"]
  /\ goal' = [goal EXCEPT ![p] = None]
  /\ handle' = [handle EXCEPT ![p] = None]
  /\ adopting' = adopting \ {p}

StartsSaving(p) ==
  /\ Goes(p, "create")
  /\ clash' = (clash \/ SomebodyElseSaves(p))
  /\ UNCHANGED <<job, handle>>
  /\ Expects(possible)

AdoptsRow(p) ==
  /\ goal' = [goal EXCEPT ![p] = Legacy]
  /\ adopting' = adopting \cup {p}
  /\ StartsSaving(p)

-----------------------------------------------------------------------------
(***************************************************************************)
(* Store::init: whoever opens the store adopts the old rows first.         *)
(***************************************************************************)
Opened == IF Legacy = None THEN "load" ELSE "adopt"

(***************************************************************************)
(* tbctl: run() and open_store; the daemon's main() for "read".            *)
(***************************************************************************)
Begin(p) ==
  /\ pc[p] = "idle"
  /\ \E what \in {"read", "set", "import", "remove"} :
       job' = [job EXCEPT ![p] = what]
  /\ Goes(p, Opened)
  /\ UNCHANGED <<directory, goal, handle, adopting, history>>

(***************************************************************************)
(* adopt_policies_from_database: `is_ok_and' takes a text that is no       *)
(* policy for a missing one.                                               *)
(***************************************************************************)
AdoptNeeded == Loaded \notin Policy

Adopt(p) ==
  /\ pc[p] = "adopt"
  /\ IF AdoptNeeded
     THEN AdoptsRow(p)
     ELSE Goes(p, "load") /\ UNCHANGED <<job, goal, handle, adopting, history>>
  /\ UNCHANGED directory

(***************************************************************************)
(* The commands: what they read before they write.                         *)
(***************************************************************************)
Look(p) ==
  /\ pc[p] = "load" /\ job[p] = "read"
  /\ Ends(p)
  /\ UNCHANGED <<directory, history>>

Remove(p) ==
  /\ pc[p] = "load" /\ job[p] = "remove"
  /\ Ends(p)
  /\ file' = None
  /\ clash' = (clash \/ SomebodyElseSaves(p))
  /\ UNCHANGED <<tmp, onDisk>>
  /\ Expects(possible \cup {None})
  /\ Keeps(text, synced)

Prepare(p) ==
  /\ pc[p] = "load" /\ job[p] \in {"set", "import"}
  /\ IF Loaded \in Unusable
     THEN Ends(p)
     ELSE /\ NextVersion(p, Loaded) <= MaxVersion
          /\ \E rules \in Rules :
               goal' = [goal EXCEPT ![p] =
                          [version |-> NextVersion(p, Loaded), rules |-> rules]]
          /\ Goes(p, "check")
          /\ UNCHANGED <<job, handle, adopting>>
  /\ UNCHANGED <<directory, history>>

RefusedLater(p) == VersionOf(Loaded) > goal[p].version

(***************************************************************************)
(* save_policy reads the file a second time: a version that is not newer   *)
(* is refused.                                                             *)
(***************************************************************************)
Refused(p) == VersionOf(Loaded) >= goal[p].version

Check(p) ==
  /\ pc[p] = "check"
  /\ IF \/ Loaded \in Unusable
        \/ Refused(p)
     THEN Ends(p) /\ UNCHANGED history
     ELSE StartsSaving(p) /\ UNCHANGED <<goal, adopting>>
  /\ UNCHANGED directory

-----------------------------------------------------------------------------
(***************************************************************************)
(* write_atomically, one system call at a time.  All processes use the     *)
(* same temporary name, and File::create empties a file that is there.     *)
(***************************************************************************)
Create(p) ==
  /\ pc[p] = "create"
  /\ \E i \in IF tmp = None THEN Free ELSE {tmp} :
       /\ tmp' = i
       /\ handle' = [handle EXCEPT ![p] = i]
       /\ text' = [text EXCEPT ![i] = Empty]
       /\ synced' = synced \ {i}
  /\ Goes(p, "write")
  /\ UNCHANGED <<file, onDisk, job, goal, adopting, history>>

(***************************************************************************)
(* Writing from the start over another text leaves the rest of it behind   *)
(* unless the new text is at least as long; a full disk leaves a piece.    *)
(***************************************************************************)
Overwritten(old, new) == {new} \cup {Torn : t \in {old} \ {Empty}}

Write(p) ==
  /\ pc[p] = "write"
  /\ Goes(p, "sync")
  /\ UNCHANGED <<file, tmp, onDisk, job, goal, handle, adopting, history>>
  /\ \E new \in Overwritten(text[handle[p]], goal[p]) :
       Keeps([text EXCEPT ![handle[p]] = new], synced \ {handle[p]})

WriteFails(p) ==
  /\ pc[p] = "write"
  /\ Ends(p)
  /\ UNCHANGED <<file, tmp, onDisk, history>>
  /\ Keeps([text EXCEPT ![handle[p]] = Torn], synced \ {handle[p]})

SyncForgotten(p) ==
  /\ pc[p] = "sync"
  /\ handle' = [handle EXCEPT ![p] = None]
  /\ Goes(p, "rename")
  /\ UNCHANGED <<directory, job, goal, adopting, history>>

Sync(p) ==
  /\ pc[p] = "sync"
  /\ handle' = [handle EXCEPT ![p] = None]
  /\ Goes(p, "rename")
  /\ UNCHANGED <<file, tmp, onDisk, job, goal, adopting, history>>
  /\ Keeps(text, synced \cup {handle[p]})

RemoveThenRename(p) ==
  /\ pc[p] = "rename" /\ tmp # None
  /\ \/ file = None /\ file' = tmp /\ tmp' = None /\ Goes(p, "syncdir")
     \/ file # None /\ file' = None /\ UNCHANGED <<tmp, pc>>
  /\ UNCHANGED <<onDisk, job, goal, handle, adopting, clash>>
  /\ Expects(possible \cup {goal[p]})
  /\ Keeps(text, synced)

(***************************************************************************)
(* The rename fails when another process has taken the temporary file.     *)
(***************************************************************************)
Rename(p) ==
  /\ pc[p] = "rename" /\ tmp # None
  /\ file' = tmp
  /\ tmp' = None
  /\ Goes(p, "syncdir")
  /\ UNCHANGED <<onDisk, job, goal, handle, adopting, clash>>
  /\ Keeps(text, synced)
  /\ Expects(possible \cup {goal[p]})

RenameFails(p) ==
  /\ pc[p] = "rename" /\ tmp = None
  /\ Ends(p)
  /\ UNCHANGED <<directory, history>>

(***************************************************************************)
(* The directory is synced: from here on the save is final, and a command  *)
(* says so; after an adoption the command goes on.                         *)
(***************************************************************************)
SyncDirectory(p) ==
  /\ pc[p] = "syncdir"
  /\ onDisk' = file
  /\ IF p \in adopting
     THEN /\ Goes(p, "load")
          /\ goal' = [goal EXCEPT ![p] = None]
          /\ adopting' = adopting \ {p}
          /\ UNCHANGED <<job, handle>>
     ELSE Ends(p)
  /\ UNCHANGED <<file, tmp, clash>>
  /\ Keeps(text, synced)
  /\ Expects({goal[p]})

(***************************************************************************)
(* Any other system call of a save may fail, or the process be killed: the *)
(* directory stays as it is, the temporary file included.                  *)
(***************************************************************************)
Killed(p) ==
  /\ pc[p] # "idle"
  /\ Ends(p)
  /\ UNCHANGED <<directory, history>>

-----------------------------------------------------------------------------
(***************************************************************************)
(* A parent's editor saves in place and syncs; what the parent typed may   *)
(* have a mistake in it, and any version.                                  *)
(***************************************************************************)
HandEdit ==
  /\ clash' = (clash \/ \E p \in Process : pc[p] \in Saving)
  /\ \E typed \in Policy \cup {Typo} :
       /\ \E i \in IF file = None THEN Free ELSE {file} :
            /\ file' = i
            /\ onDisk' = i
            /\ tmp' = tmp
            /\ Keeps([text EXCEPT ![i] = typed], synced \cup {i})
       /\ Expects({typed})
  /\ UNCHANGED process

(***************************************************************************)
(* A rename or removal the disk has not seen is undone or not, and a text  *)
(* it has not seen is there or not; every process is gone.                 *)
(***************************************************************************)
PowerLoss ==
  /\ file' \in {file, onDisk}
  /\ onDisk' = file'
  /\ tmp' \in {None} \cup ({tmp, file} \ {file'})
  /\ \E lost \in SUBSET ({file', tmp'} \cap (Inode \ synced)) :
       Keeps([i \in Inode |-> IF i \in lost THEN Empty ELSE text[i]], Inode)
  /\ pc' = [p \in Process |-> "idle"]
  /\ job' = [p \in Process |-> "read"]
  /\ goal' = [p \in Process |-> None]
  /\ handle' = [p \in Process |-> None]
  /\ adopting' = {}
  /\ UNCHANGED history

Save(p) ==
  \/ Create(p) \/ Write(p) \/ WriteFails(p) \/ Sync(p)
  \/ Rename(p) \/ RenameFails(p) \/ SyncDirectory(p)

Command(p) ==
  \/ Begin(p) \/ Adopt(p) \/ Look(p) \/ Remove(p) \/ Prepare(p) \/ Check(p)

Next ==
  \/ \E p \in Process : Command(p) \/ Save(p) \/ Killed(p)
  \/ HandEdit
  \/ PowerLoss

Spec == Init /\ [][Next]_vars

-----------------------------------------------------------------------------
(***************************************************************************)
(* write_atomically: a reader sees the old policy or the new one and never *)
(* half of either, while a save runs, after it was killed at any system    *)
(* call and after a power loss at any moment; and once the command said    *)
(* that it is done, only the new one.  All of this as long as no two hands *)
(* were at the file at the same time.                                      *)
(***************************************************************************)
OldOrNew == ~clash => Loaded \in possible

(***************************************************************************)
(* save_policy never replaces a newer policy with an older one, nor the    *)
(* adoption: hand edits and power losses aside, the version in the file    *)
(* only grows, however commands interleave that look at the file at the    *)
(* same time but do not write it at the same time.                         *)
(***************************************************************************)
VersionGrows ==
  [][ {Loaded, Loaded'} \subseteq Policy /\ Loaded' # Loaded /\ ~clash'
        => Loaded'.version > Loaded.version \/ HandEdit \/ PowerLoss ]_vars

(***************************************************************************)
(* Limits do not silently stop applying: whatever runs at the same time,   *)
(* is killed or fails, a child is off the list only when somebody removed  *)
(* the rules, or when the power was lost before they were ever final.      *)
(***************************************************************************)
RulesStay ==
  [][ Listed /\ ~Listed'
        => (\E p \in Process : Remove(p)) \/ (PowerLoss /\ onDisk = None) ]_vars

(***************************************************************************)
(* store.rs: a file that already exists is what the administrator is       *)
(* looking at and wins over the database it was migrated from.             *)
(***************************************************************************)
FileWins ==
  [][ \A p \in adopting : Rename(p) => file = None \/ clash ]_vars
=============================================================================
