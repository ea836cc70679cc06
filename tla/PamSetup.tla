-------------------------------- MODULE PamSetup --------------------------------
(***************************************************************************)
(* `tbctl pam enable' and `tbctl pam disable' at work on /etc/pam.d        *)
(* (pamconf.rs): one process goes through the managed services, reading,   *)
(* backing up, renaming and syncing, while administrators edit the files,  *)
(* the distribution installs and removes them, the process is killed or    *)
(* fails half way, and the power goes.                                     *)
(*                                                                         *)
(* Edits keep out of the markers, as the block asks.  A dry run takes the  *)
(* reading steps and no other; it is left out.                             *)
(***************************************************************************)
EXTENDS Doctor

CONSTANTS
  Torn,          \* a copy that breaks off
  Managed,       \* MANAGED: the services in the order they are gone through
  Shipped,       \* what the distribution ships for each
  Placements,    \* where it may have put them: "etc", "vendor" or "nowhere"
  OwnLines,      \* lines administrators add, per service
  MaxLines,      \* bound on the lines of a file that are not ours
  MaxAccidents   \* bound on the times others change the files

Service == {Managed[i] : i \in DOMAIN Managed}

ASSUME PamSetupAssumption ==
  /\ Managed \in Seq(Service) /\ Managed # <<>>
  /\ Service = DOMAIN StackOf
  /\ {MaxLines, MaxAccidents} \subseteq Nat
  /\ {None, Torn} \cap File = {}
  /\ None # Torn
  /\ Shipped \in [Service -> File]
  /\ \A s \in Service : \A i \in DOMAIN Shipped[s] :
       Shipped[s][i].does \in {"require", "suffice"}
  /\ Placements \subseteq [Service -> {"etc", "vendor", "nowhere"}]
  /\ OwnLines \in [Service -> SUBSET Line]
  /\ \A s \in Service : \A l \in OwnLines[s] :
       l.does \in {"require", "suffice"}

VARIABLES
  etc,       \* /etc/pam.d
  vendor,    \* /usr/lib/pam.d
  stored,    \* what of etc a power loss brings back
  backup,    \* the copies taken by backup_once
  loose,     \* services whose copy is not on the disk yet
  pc,        \* what the process does next
  job,       \* "enable", "disable" or "none"
  at,        \* the service it is at
  seen,      \* the content it has read
  accidents, \* how often others interfered
  own,       \* history: the lines of administrators and the distribution
  trusted,   \* history: services nobody interfered with since the job began
  promised,  \* history: "veto" or "clear" as the last job left it in good order
  spoiled    \* history: services whose copy was cut off or lost

files == <<etc, vendor, stored>>
copies == <<backup, loose>>
process == <<pc, job, at, seen>>
history == <<own, trusted, promised, spoiled>>
vars == <<files, copies, process, accidents, history>>

TypeOK ==
  /\ {etc, vendor, stored} \subseteq [Service -> {None} \cup File]
  /\ backup \in [Service -> {None, Torn} \cup File]
  /\ loose \subseteq Service
  /\ pc \in {"idle", "resolve", "adopt", "settle", "read", "backup",
             "rename", "sync"}
  /\ job \in {"none", "enable", "disable"}
  /\ at \in 1 .. Len(Managed)
  /\ seen \in {None} \cup File
  /\ accidents \in 0 .. MaxAccidents
  /\ own \in [Service -> File]
  /\ trusted \subseteq Service
  /\ promised \in [Service -> {"none", "veto", "clear"}]
  /\ spoiled \subseteq Service

\* Each service is installed in one of the two directories, or not at all.
Init ==
  /\ \E where \in Placements :
       /\ etc = [s \in Service |-> IF where[s] = "etc" THEN Shipped[s] ELSE None]
       /\ vendor =
            [s \in Service |-> IF where[s] = "vendor" THEN Shipped[s] ELSE None]
       /\ own = [s \in Service |-> IF where[s] = "etc" THEN Shipped[s] ELSE <<>>]
  /\ stored = etc
  /\ backup = [s \in Service |-> None]
  /\ loose = {}
  /\ pc = "idle" /\ job = "none" /\ at = 1 /\ seen = None
  /\ accidents = 0
  /\ trusted = {}
  /\ promised = [s \in Service |-> "none"]
  /\ spoiled = {}

Here == Managed[at]

-----------------------------------------------------------------------------
(* The process. *)

Word(j) == IF j = "enable" THEN "veto" ELSE "clear"

\* The word of the opposite job is taken back.  A job that finds a service as
\* it should be does not sync; it is not trusted with a rename that an earlier
\* one, killed before it could sync or failing at it, left to the disk.
BeginJob ==
  /\ pc = "idle"
  /\ job' \in {"enable", "disable"}
  /\ pc' = "resolve" /\ at' = 1
  /\ trusted' = {s \in Service : stored[s] = etc[s]}
  /\ promised' = [s \in Service |->
       IF promised[s] = Word(job') THEN promised[s] ELSE "none"]
  /\ UNCHANGED <<files, copies, seen, accidents, own, spoiled>>

\* No job is under way any more.
Over ==
  /\ pc' = "idle" /\ job' = "none" /\ at' = 1 /\ seen' = None
  /\ trusted' = {}

\* Mutant: one service too many.
AdvanceBeyond(sure) ==
  /\ pc' = "resolve" /\ at' = at + 1 /\ seen' = None
  /\ trusted' = sure
  /\ UNCHANGED <<job, promised>>

\* On to the next service.  After the last one the command reports success,
\* and its user takes its word for what nobody else has touched.
Advance(sure) ==
  \/ /\ at < Len(Managed)
     /\ pc' = "resolve" /\ at' = at + 1 /\ seen' = None
     /\ trusted' = sure
     /\ UNCHANGED <<job, promised>>
  \/ /\ at = Len(Managed)
     /\ Over
     /\ promised' = [s \in Service |->
          IF s \in sure THEN Word(job) ELSE promised[s]]

Resolve ==
  /\ pc = "resolve"
  /\ \/ /\ etc[Here] # None
        /\ pc' = "read"
        /\ UNCHANGED <<job, at, seen, trusted, promised>>
     \/ /\ etc[Here] = None /\ job = "enable" /\ vendor[Here] # None
        /\ pc' = "adopt" /\ seen' = vendor[Here]
        /\ UNCHANGED <<job, at, trusted, promised>>
     \/ /\ etc[Here] = None /\ (job = "disable" \/ vendor[Here] = None)
        /\ Advance(trusted)
  /\ UNCHANGED <<files, copies, accidents, own, spoiled>>

\* The rename of write_atomically: the text replaces whatever is there by now,
\* changes made since it was read included.
Replace(text) ==
  /\ etc' = [etc EXCEPT ![Here] = text]
  /\ own' = [own EXCEPT ![Here] =
               IF seen = etc[Here] THEN @ ELSE Own(seen)]
  /\ UNCHANGED <<vendor, stored>>

\* The comment on top of the copy does nothing.
Adopt ==
  /\ pc = "adopt" /\ pc' = "settle"
  /\ Replace(seen)
  /\ seen' = None
  /\ UNCHANGED <<copies, job, at, accidents, trusted, promised, spoiled>>

\* Mutant: nothing is synced.
SyncNothing(sure) == sure = trusted /\ UNCHANGED stored

\* Syncing the directory; when that fails nobody learns of it.
SyncDirectory(sure) ==
  \/ sure = trusted /\ stored' = etc
  \/ sure = trusted \ {Here} /\ UNCHANGED stored

Settle ==
  /\ pc = "settle" /\ pc' = "read"
  /\ \E sure \in SUBSET trusted : SyncDirectory(sure) /\ trusted' = sure
  /\ UNCHANGED <<etc, vendor, copies, job, at, seen, accidents, own, promised,
                 spoiled>>

Updated(content) ==
  IF job = "enable" THEN InsertBlock(content, StackOf[Here])
  ELSE RemoveBlock(content)

\* A file removed in the meantime is an error (Stop).
Read ==
  /\ pc = "read" /\ etc[Here] # None
  /\ IF IF job = "enable" THEN Updated(etc[Here]) = etc[Here]
        ELSE ~HasBlock(etc[Here])
     THEN Advance(trusted)
     ELSE /\ pc' = "backup" /\ seen' = etc[Here]
          /\ UNCHANGED <<job, at, trusted, promised>>
  /\ UNCHANGED <<files, copies, accidents, own, spoiled>>

\* Mutant: a copy of every version, so that it shows the one before.
BackupAlways ==
  /\ pc = "backup" /\ etc[Here] # None
  /\ backup' = [backup EXCEPT ![Here] = etc[Here]]
  /\ loose' = loose \cup {Here}
  /\ pc' = "rename"
  /\ UNCHANGED <<files, job, at, seen, accidents, history>>

\* fs::copy does not sync.
BackupOnce ==
  /\ pc = "backup" /\ pc' = "rename"
  /\ IF backup[Here] # None THEN UNCHANGED copies
     ELSE /\ etc[Here] # None
          /\ backup' = [backup EXCEPT ![Here] = etc[Here]]
          /\ loose' = loose \cup {Here}
  /\ UNCHANGED <<files, job, at, seen, accidents, history>>

Rename ==
  /\ pc = "rename" /\ pc' = "sync"
  /\ Replace(Updated(seen))
  /\ UNCHANGED <<copies, job, at, seen, accidents, trusted, promised, spoiled>>

Sync ==
  /\ pc = "sync"
  /\ \E sure \in SUBSET trusted : SyncDirectory(sure) /\ Advance(sure)
  /\ UNCHANGED <<etc, vendor, copies, accidents, own, spoiled>>

\* An error ends the job at this service and leaves the later ones as they
\* are, and so does a signal; a copy may be cut off.
Stop ==
  /\ pc # "idle"
  /\ Over
  /\ \/ UNCHANGED <<backup, spoiled>>
     \/ /\ pc = "backup" /\ backup[Here] = None
        /\ backup' = [backup EXCEPT ![Here] = Torn]
        /\ spoiled' = spoiled \cup {Here}
  /\ UNCHANGED <<files, loose, accidents, own, promised>>

-----------------------------------------------------------------------------
(* The others. *)

Accident == accidents < MaxAccidents /\ accidents' = accidents + 1

\* What they write is taken to be on the disk.
Interfere(s) ==
  /\ Accident
  /\ stored' = [stored EXCEPT ![s] = etc'[s]]
  /\ trusted' = trusted \ {s}
  /\ promised' = [promised EXCEPT ![s] = "none"]
  /\ UNCHANGED <<copies, process, spoiled>>

Outside(file, i) == i = 1 \/ file[i - 1].does \notin {"begin", "veto"}

Edited(s) ==
  {InsertAt(etc[s], i, l) : l \in OwnLines[s],
                            i \in {k \in 1 .. Len(etc[s]) + 1 :
                                     /\ Outside(etc[s], k)
                                     /\ Len(Own(etc[s])) < MaxLines}}
    \cup {RemoveAt(etc[s], i) : i \in {k \in DOMAIN etc[s] :
                                   etc[s][k].does \in {"require", "suffice"}}}

Edit(s) ==
  /\ etc[s] # None
  /\ \E text \in Edited(s) :
       /\ etc' = [etc EXCEPT ![s] = text]
       /\ own' = [own EXCEPT ![s] = Own(text)]
  /\ UNCHANGED vendor
  /\ Interfere(s)

\* The package of the service comes, goes, or is upgraded, in either directory.
Distribute(s) ==
  /\ \E text \in {None, Shipped[s]} :
       \/ /\ etc' = [etc EXCEPT ![s] = text]
          /\ own' = [own EXCEPT ![s] = IF text = None THEN <<>> ELSE text]
          /\ UNCHANGED vendor
       \/ vendor' = [vendor EXCEPT ![s] = text] /\ UNCHANGED <<etc, own>>
  /\ Interfere(s)

\* The package of this program is removed: its script deletes every block.
Uninstall ==
  /\ Accident
  /\ etc' = [s \in Service |->
               IF etc[s] # None /\ HasBlock(etc[s]) THEN RemoveBlock(etc[s])
               ELSE etc[s]]
  /\ stored' = etc'
  /\ trusted' = {}
  /\ promised' = [s \in Service |-> "none"]
  /\ UNCHANGED <<vendor, copies, process, own, spoiled>>

WriteBack ==
  /\ stored' = etc /\ loose' = {}
  /\ UNCHANGED <<etc, vendor, backup, process, accidents, history>>

\* Renames not yet on the disk are undone or not, each for itself; copies not
\* yet on the disk are whole, cut off or gone.
PowerLoss ==
  /\ \E undone \in SUBSET {s \in Service : stored[s] # etc[s]} :
       /\ etc' = [s \in Service |-> IF s \in undone THEN stored[s] ELSE etc[s]]
       /\ own' = [s \in Service |->
                    IF s \notin undone THEN own[s]
                    ELSE IF stored[s] = None THEN <<>> ELSE Own(stored[s])]
  /\ stored' = etc'
  /\ \E hit \in SUBSET loose :
       /\ \E left \in [hit -> {None, Torn}] :
            backup' = [s \in Service |->
                         IF s \in hit THEN left[s] ELSE backup[s]]
       /\ spoiled' = spoiled \cup hit
  /\ loose' = {}
  /\ Over
  /\ UNCHANGED <<vendor, accidents, promised>>

Process ==
  \/ BeginJob \/ Resolve \/ Adopt \/ Settle \/ Read \/ BackupOnce \/ Rename
  \/ Sync \/ Stop

Next ==
  \/ Process
  \/ \E s \in Service : Edit(s) \/ Distribute(s)
  \/ Uninstall
  \/ WriteBack
  \/ PowerLoss

Spec == Init /\ [][Next]_vars

-----------------------------------------------------------------------------
(* Properties. *)

\* Whatever tbctl does and wherever it is stopped, a service file keeps the
\* lines of its administrator and its distribution, all of them and in order.
\* What was changed between reading and renaming is lost; own knows.
OthersUntouched ==
  \A s \in Service : etc[s] # None => Own(etc[s]) = own[s]

\* Nothing is written without a backup, and the backup shows the file as it was
\* before tbctl touched it: it has no block, however often enable and disable
\* ran since and whatever power losses undid - unless the copy itself was cut
\* off or lost.
BackupIsOriginal ==
  \A s \in Service \ spoiled :
    /\ etc[s] # None /\ HasBlock(etc[s]) => backup[s] # None
    /\ backup[s] # None => ~HasBlock(backup[s])

\* While the module stands aside, and when it is not even there, a file with a
\* rule in it admits and refuses exactly as it would without, if it has any
\* line of that stack of its own.
AdultsGetIn ==
  \A s \in Service, answer \in {"ignore", "unknown"} :
    /\ etc[s] # None
    /\ \E i \in DOMAIN own[s] : own[s][i].stack = StackOf[s]
    => (Admits(etc[s], StackOf[s], answer) <=> Admits(own[s], StackOf[s], answer))

\* A command that reported success has done what it said, at every installed
\* service nobody else touched since, and a power loss does not take it back:
\* after enable a child whose time is up is refused, whichever directory the
\* service came from; after disable no block is left.
WordKept ==
  \A s \in Service :
    /\ promised[s] = "veto" /\ Effective(etc, vendor, s) # None
         => ~Admits(Effective(etc, vendor, s), StackOf[s], "refusal")
    /\ promised[s] = "clear" /\ etc[s] # None => ~HasBlock(etc[s])

\* When tbctl doctor says that everything checks out, a child whose time is up
\* is refused at every installed service, half a job, an undone rename or an
\* upgrade notwithstanding - unless somebody put a line that suffices before
\* the rule.
DoctorIsRight ==
  LET pam == CheckPam(etc, vendor)
      sound == {w \in World : DoctorCommand(pam, w) = "ok"}
      answers == {Answers(w) : w \in sound}
  IN \A s \in Service :
       LET file == Effective(etc, vendor, s)
       IN file # None /\ ~Overtaken(file, StackOf[s]) =>
            \A answer \in answers : ~Admits(file, StackOf[s], answer)
=============================================================================
