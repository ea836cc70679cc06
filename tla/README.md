# A verified model of Time Bandits

Time Bandits limits children's screen time on a shared Linux machine. A root
daemon looks at the login sessions every few seconds, adds up how long each
child has used the computer, and warns, locks or ends sessions when a limit is
reached; a PAM module keeps a child whose time is up from logging in or
unlocking; an agent in the child's session reports focus and idle time and shows
the warnings. Getting this wrong in one direction charges a child for time the
machine was asleep or throws away their homework, in the other it lets them play
all night.

This directory holds TLA+ specifications of that program, configurations that
model-check them with TLC, and theorems checked with TLAPS. Definitions carry
the names of the functions they stand for; `PROJECT.json` maps every one of them
to its lines.

## 1. Inventory

| Part | State | Operations | Correct when |
|---|---|---|---|
| `tb-core::usage` | the open segment of one user | `observe`, `flush` | no second is charged twice, none the machine was asleep, and little is lost in a crash |
| `tb-core::engine`, `schedule`, `policy` | none (pure) | `evaluate`, `policy_day`, windows | a verdict follows from rules, figures and instant; denial does not flicker; time left never overstated |
| `tb-daemon::tick` | per user: phase of the escalation, warnings given, last tick, open segment | `tick_user`, `apply_verdict`, `enforce`, `flush` | warnings escalate; a session ends only after notice and grace; locking is an edge; every lockout takes hold and every restoration undoes it |
| `tb-daemon::store` | SQLite: segments, bonus grants, events | `insert_segment`, `usage_between`, `add_bonus`, `record_event`, `save_policy` | sums count each second once, a row written twice counts once |
| `tb-daemon::policystore` and the policy commands of `tbctl` | one TOML file per child, its temporary file | `load`, `save`, `remove`, `save_policy`, `adopt_policies_from_database`; `policy set`, `import`, `remove` | a reader sees an old policy or a new one, also after a crash; versions never go back; rules do not vanish |
| `tb-daemon::logind` | the machine's sessions (in logind) | `sessions`, `lock`, `terminate` | only people's sessions are touched |
| `tb-daemon::pamserver`, `tb-pam` | none | one query, one answer, timeout and fallback | agrees with the tick loop; never costs an administrator the machine |
| `tb-daemon::agentserver` | last report per user | `record`, `fresh`, `expire`, `record_request` | a stale report says nothing; parents are asked once per quiet period |
| `tb-agent` | focus, last answer, announcements, pending request | `set_focus`, `report_once`, `ingest` | what a child is told is true, said once, and said in time |
| `tb-daemon::main` | the tick thread | `run_ticks`, shutdown | ticks for ever, survives logind, saves on exit |
| `tb-cli::pamconf` (`tbctl pam enable`, `disable`, `status`) | service files in `/etc/pam.d`, backups beside them | `insert_block`, `remove_block`, `adopt_service`, `backup_once`, `write_atomically` | nobody else's lines are lost, the backup is the original, adults get in, a reported success lasts |
| `tb-cli::doctor` | none (reads) | the checks and their exit code | "everything checks out" means that a child whose time is up is refused |
| KWin script, plasmoid, `tb-hub`, packaging | see the notes in `PROJECT.json` | | |

**How they interact.** The tick thread, the PAM server and the agent server
share one `Mutex<Store>` and the map of agent reports; each takes the lock for
one call at a time. PAM and agent connections carry one message and one answer.
The command line is another process that writes the same files and database, and it
alone writes to `/etc/pam.d`, where libpam, administrators and packages are at work too.
logind and the desktops change sessions on their own, and a lock request is only
a signal: the desktop engages its lock later and then reports `LockedHint`.

**What is hard here.** Not parallel code, but time and things that happen
between two ticks: suspend, a clock set back or forward, a crash or a lost bus connection
that drops the in-memory state, a database that refuses one write, a policy day
that turns over in the middle of a segment, bonus time granted at any moment,
rules edited during a grace period, a logout and login nobody saw, desktops that
obey late, notifications that never appear or outlive the agent that sent them, a machine
in another time zone than its rules, a tool killed half way through
the files that decide who may log in. `PROJECT.json` lists these as hazards with the line where each bites.

## 2. The modules

| Module | Models | Lines of thought |
|---|---|---|
| `UsageSegments` | the decisions of `SegmentBuilder` as operators | shared by the two machines below; no state |
| `SegmentBuilder` | one user's builder over the life of the daemon | ticks, idle ticks dated back, sleep, clock set back, shutdown, crash, refused rows |
| `UsageLedger` | abstract: what a ledger of usage promises | consecutive instants of observation are credited, whole or lost |
| `SegmentLedger` | `SegmentBuilder` implements `UsageLedger` | refinement by `INSTANCE ... WITH` |
| `Ticker` | the enforcement half of the tick loop | phases, sessions and what logind fails to say of them, lock requests on their way, PAM, edits, brake, group, sleep, a clock set back or forward, a failing database, restarts |
| `Escalation` | abstract: the ladder drawn in `docs/architecture.md` | Running, Grace, Enforced and the edges a setting has |
| `TickerEscalation` | `Ticker` implements `Escalation` | refinement, by every step, whatever fails |
| `Announcements` | `AgentState::ingest` and what is on the screen | thresholds, refusals and restorations, with the marks that keep the child from being told twice, and notifications that do not appear, are dismissed or were left by an agent that is gone |
| `Agent` | the agent's report round, the daemon's agent socket and the script (extends `Announcements`) | lost, late and abandoned exchanges, the request for more time, focus freshness, restarts on both sides, sleep |
| `TickAccounting` | the accounting half of the tick loop | the idle clock, `build_tick`, rows, quota with bonus, verdict, warnings, policy days |
| `Verdict` | `evaluate` with the calendar, windows and quotas it rests on, and how a refusal's time is put into words | pure operators: policy days, merged windows, the order of the rules, the time of return |
| `PolicyStore` | a child's rules as a file: load, save, remove, adoption of old rows, and the commands that call them | processes interleaving at every system call, an editor, kills, full disks, power loss |
| `Access` | one login or unlock: PAM module, its thread and the daemon's answer (extends `Verdict`) | the deadline against the answer, failing lookups, what the line in `/etc/pam.d` says, every reason to stand aside, a daemon that dies or is upgraded, time and rules moving during the call |
| `PamFiles` | the text transformations of `pamconf.rs` and what libpam makes of the result | pure: removing and inserting the block, the control words, a stack gone through line by line |
| `Doctor` | `tbctl doctor` and `pam status`, beside what the module will answer (extends `PamFiles`) | pure functions of the service files and of everything else the checks look at |
| `PamSetup` | `tbctl pam enable` and `disable` at work (extends `Doctor`) | every system call an action; errors, kills and power losses between them, edits, packages, the uninstaller |
| `SegmentBuilderProofs`, `TickerProofs`, `TickAccountingProofs`, `AgentProofs`, `AccessProofs`, `PolicyStoreProofs`, `PamSetupProofs` | the theorems | |
| `FoldLemmas` | lemmas the proofs share | least elements, chains of intermediate results, sums: what a fold over a sequence returns |
| `MC*` | symmetry and the small sets of policies, lines and files for TLC | |

The tick loop is split where its two halves meet: what the enforcement half needs
from the accounting half is one bit, "time is up", and `Ticker` lets that bit come
and go at will, which covers every way the figures, the clock, a bonus or a policy
window could move it. What the accounting half needs from the enforcement half is
which ticks see somebody at work, and `TickAccounting` lets that vary at will.
Users share nothing inside the loop, so one user is enough: `tick()` keeps one
`UserState` each and logs an error without stopping.

### State and code

*SegmentBuilder*: `open` is `SegmentBuilder.open` without title and provenance;
`rows` is the table `usage_segment` (a UUID is the position in the sequence);
`clock` is the last instant the daemon did something; `seen` and `setBack` are
history. Times are whole seconds, as the table stores them.

*Ticker*: `phase` and `waited` are `Phase`; `Grace { since }` is kept as the ticks
waited since then by the wall clock, capped at the longest grace period of any rules, so that
a run needs no horizon; `ClockSetBack` makes it negative, which `Elapsed` reads as the code
does, and `ClockSetForward` lets it grow without anybody waiting. How long the grace period
is, `GraceOver` reads from the rules in force at that tick, as `enforce` does.
`session[s]` is what is true of a session (`gone`, `unlocked`, `locked`) and `Views` what
`Logind::sessions` may make of it: one that cannot be read is left out, one without a
`LockedHint` counts as unlocked. `asked` are the lock signals a desktop has not yet
obeyed, `policy` the rules file (`None` for no file or an unreadable one), `member` and
`flag` the managed group and the emergency brake, `timeUp` the engine's view of the
stored figures, `silent` blind tracking, `broken` a database that may refuse any call.
`did` and `notice` are history variables the properties speak about; `notice` is
the notice of the running lockout that is on record, so that a tick whose
event could not be written leaves none, with the ticks since and what the clock was set
forward by.
Every early return of `tick_user` is `Skipped`; each branch of `enforce` is an
action named after what it does, and the `?` after `record_event` is the second
disjunct in `CloseSession`. `TickerLost` is a restart or a lost bus: `Ticker::new`.

*TickAccounting*: `warned`, `warnedOn`, `lastTick` and `open` are fields of
`UserState`; `bonus` is the sum over `bonus_grant` per policy day. `typed` is when
somebody last touched the machine, `idled` the agent's `IdleClock`, which the listener
(`watching`) sets from what the compositor says; `ListenerEnds` is its connection
dropping. A tick without a report counts as activity, as `build_tick` has it.
A report is taken as of the tick. `worked`, `active`, `losses` are history, and so is what
was told: `said` the warnings of the policy day, `renewed` how many of them an earlier ticker
gave, `refused` the limit at the last denial of the day. These outlive `TickerLost`, which
forgets what the ticker knows and not what the user was told.

*Announcements*: `shown`, `announced`, `blockedAnnounced` are fields of `AgentState`
(`last_remaining` is always the time in `shown`); an answer is its `blocked` flag
and its time left. `banner` is what this agent last got onto the screen (`last_id`), which its
next notification replaces, `closed` that the child has dismissed it, and `stale` the critical
notifications of agents that are gone: they have no timeout, and a new agent, whose
`last_id` is 0, neither replaces nor removes them. `Forget` is that new process, `Dismissed`
the child. `lost`, `said` and `low` are history. `Show` is `Notifier::show`: with
`MayNotShow` the server may refuse or be missing, and what was announced counts
as announced all the same. An agent without a notifier is one whose every show fails.

*Agent*: `pending` is `pending_request`, `focusAge` the age of `focus_at`, `observed`
the user's entry of `AgentReports`, `lastAsked` the age of the last
`MoreTimeRequested` event, `late` a report whose connection the agent has given up
on and the daemon may still read. `report_once` is one step with three ends
(`Answered`, `AnswerLost`, `NoAnswer`), since the loop awaits it and looks at the button
only between rounds. `owed` is history: a press the parents do not know of yet.
`TrackingBlind` is what `tick_user` computes and `Ticker` calls `silent`; the
verdict comes and goes at will, as `timeUp` does there.

*Verdict*: a policy is the four fields `evaluate` reads besides the time zone; instants are
readings of the policy's clock. `Facts` is given the retry on that clock and `here`, the same
moment as now on the clock of the machine, since `deny_facts` subtracts the date of
`Zoned::now()` in the system's zone from the date of the retry in the policy's; `Meant` is
how somebody reads the words who has the date from the machine and the time of day from the
policy. A week schedule keeps its shape, a default and overrides. `Merged` says without a loop what
the sort-and-merge loop of `concrete_windows` computes. Units of time, the length of a
day and of a week are constants, and so is the number of days `upcoming_windows`
searches; the code has 24 hours, 7 and 9. `Reason` is the order of the early returns.

*Access*: `usage` is the `UsageSnapshot`, which `Later` carries over the start of a day
and of a week as the two sums of `Store::snapshot` do; `health` is why a running
daemon would stand aside (`aside`: the emergency brake, or an unreadable policy or
table; `poisoned`: a panic under the store lock, cured by a restart); `daemon` is the
process and with it the socket (`Listening`); `thread` is `tb-pam-query` and its result;
`call` is `run()`, entered through `pam_sm_authenticate` or `pam_sm_acct_mgmt`, which
differ in the code of a refusal. A lookup in NSS may fail as `None`, or,
when it is the group that cannot be read, as a plain no, on either side. The arguments of
the line are looked at where they first matter, so the line is chosen there;
that its two groups are the right ones is assumed on both sides. `seen`, `unsure` and
`lenient` are history: how the account stood at each moment of the call, whether a lookup
misled it, and whether the line asks for the lenient fallback. Windows of
one day that reach into the next policy day are cut there by `evaluate` itself.

*PolicyStore*: `file` and `tmp` are what the two names in the directory lead to, `text`
what is in each inode, `onDisk` and `synced` how much of it a power loss leaves.
`pc`, `job`, `goal` and `handle` are a process in the middle of `run`, `save_policy` or
`write_atomically`; the daemon is the job `read`, since it writes only when it adopts.
Each system call of `write_atomically` is an action, and so is each look at the file: a
`set` looks three times (adoption, its base, the check of `save_policy`). The version is
the only field of the rules that is told apart from the others, and an import does
not depend on it. What the file system does is assumed: a rename is atomic, a
directory entry or text not yet synced may or may not survive, `sync_all` does what
it says (the code ignores a failing sync of the directory), a file overwritten by two
writers parses only if it is one of the two texts. `possible` is history: what the
completed, running and broken-off saves allow to be found; `clash` notes that two
hands were at the file at the same time.

*PamFiles*, *Doctor* and *PamSetup*: a service file is a sequence of lines; a line is the
stack `line_stack` finds in it and what it does there: `require`, `suffice`, our
rule (`veto`), a marker. Comments, other stacks and the wording of other control words
do not matter to the tool or to the properties. `Own` is said line by line and `Admits` by
positions in the file, so that both can be reasoned about. `Admits` is libpam (external): `ok`,
`done`, `bad`, `die` and `ignore` as the control words of the block have them. `etc`
and `vendor` are the two directories, `stored` what a power loss would leave of the
first, `backup` the `.timebandits-backup` files, `loose` those `fs::copy` has not
synced. `pc`, `job`, `at` and `seen` are the process in `enable` or `disable`: `Resolve` looks where
the service lives, `Adopt` copies the vendor's file, `Read`, `BackupOnce`, `Rename` and
`Sync` follow the code, and `Stop` is an error or a signal at any of these points. A
failing sync of the directory is ignored by the code and an ordinary outcome here. `own`,
`trusted`, `promised` and `spoiled` are history: whose lines belong there, what nobody
interfered with, what the user was told, and which copies are no copies. A `World` is
everything else the doctor looks at; `Answers` is what module and daemon make of
it. What others write is taken to be on disk at once, and one process is at
work: the tool has no lock, but an administrator types one command at a time. A dry run
takes the reading steps only and is left out.

## 3. What is checked

Seven runs hold, five show a violation each. `SegmentBuilder` and `TickAccounting` stop at a
horizon, where `Done` stutters; the others never stop. Deadlock is checked in all.

| Run | Shows |
|---|---|
| `segments` | `Chronological`: rows and the open segment never overlap. `OnlyObservedTimeCredited`: each credited second lies within `MaxGap` of a tick that saw the same application. `LossBounded`: what a crash can take stays below a segment. `LedgerKept`: the machine implements the abstract ledger. |
| `ticker` | With everything failing and everything editable at once: `EndedOnlyAfterGrace` (a session is ended after a notice and when the clock says that the grace period of the rules then in force has passed); `LockIsAnEdge`; `EscalationKept`, the refinement of the documented ladder; `LockedInTheEnd`, `RestoredInTheEnd` and `GraceEnds`, the three liveness promises. |
| `accounting` | `OverrunBounded`: how far past the quota a child can get. `WarningsEscalate`: on one day each warning of a ticker names less time than all before it, and one of a ticker started anew may repeat but never says that less was used. `DenialLasts`: no tick of a day allows more once one has denied, past skipped and failed ticks and restarts, until a bonus raises the limit. |
| `agent` | `ScreenAgrees`: the last notification of the running agent is "time is up" exactly while the last answer refused, and one standing otherwise was left by an agent that is gone. `WarnedWhenDue`: the child is warned exactly when a threshold has newly been passed. `RequestKept` and `RequestHeard`: a press is not dropped and reaches the parents. `ToldInTheEnd`: a lasting refusal is the last thing the agent said, and under lasting access no "time is up" stands once those of agents gone have been dismissed. `SilenceNoticed`: a dead agent or script is noticed for good. |
| `access` | `OnlyChildrenRefused`. `ReasonHeldDuringCall`: a refusal gives a reason that was true at a moment of this call. `NothingGainedByKilling`: a child denied all through a call is refused, whatever becomes of the daemon, unless the line in `/etc/pam.d` says otherwise. Of the verdict, at every instant, usage and policy reached: `TimeLeftIsExact` (checked hour by hour against `evaluate` itself), `VainBeforeRetry` (what the time of return does promise), `SentenceMeansRetry` (the clock time and weekday on the screen, read on the date of the machine, mean the same instant). |
| `policy_files` | `OldOrNew`: a reader finds the old policy or the new one, after kills and power losses too, and the new one once the command has reported it. `VersionGrows`: no save and no adoption goes back. `RulesStay`: the file is only gone when it was removed, or never was on disk. |
| `setup` | `OthersUntouched`: a service file keeps its administrator's and its package's lines, in order. `BackupIsOriginal`: nothing is written without a backup, and the backup has no block. `AdultsGetIn`: while the module stands aside or is missing, a file with the block admits and refuses as it would without. `WordKept`: what a command reported holds, also after a power loss. `DoctorIsRight`: when the doctor finds no fault, a child whose time is up is refused everywhere. |
| `retry_at`, `observe_only`, `idle_credit`, `silent_script`, `file_wins` | violations, see section 6. |

**Bounds.** `segments` runs seven seconds with a tick of 2, a gap of 3 and a cut at 4, so that cuts,
gaps, single-tick segments, a step back and a crash all occur together, with two
applications, which are interchangeable and declared symmetric.

`ticker` needs no horizon: its counters are capped by `LongestGrace`, 2 ticks, long
enough to tell "early" from "on time" from "late"; the clock goes back by up to 1
tick beyond the notice, which is enough to make the wait negative, and forward at will. Rules
with `terminate` have a grace period of 1 and those with `lock_then_terminate` one of 2, so that
an edit may shorten or lengthen one that runs. Three
sessions, two desktops and a console, give one session time to be locked while
another is unlocked or logs in; one of the desktops is the one logind may fail to
read. The policies are the three settings of `on_exhausted` and no rules at all, with
`lock_immediately` (an agent that is never silent makes them the lenient households).

`accounting` spans a day boundary at second 9 of 11, thresholds 1 and 2 with a
quota of 2 (the upper one is crossed at the start, the lower by use), one grant, of one
second, and one loss, which is a failed write or the loss of the ticker with what was open; a
segment (3 s) is longer than the quota, and the tick that closes one may add a gap
(4 s). In these bounds a ticker started anew repeats a warning, one repeated after a grant
names more time than before, and a bonus brings access back after a denial; larger constants
are the business of the theorems. The compositor says `idled` after 1 s, the household
tolerates 3.

`idle_credit` has on-time ticks every 2 s, a gap no longer than that and no cut, so that only
ticks that come in time extend the segment, and a threshold of three of them.

`agent` has two thresholds and three values of time left, so that growth can stay
below a threshold or cross it; ages are one round long: focus is fresh for the round after it
was reported, a report counts until the next round is due, and a request is recent within its
round, so that a late report can find each of them fresh and stale. One abandoned report at a
time is enough to arrive after a newer one. Any set of banners may be left behind.

`access` has weeks of three days of four hours that begin at hour 1, so that there are
clock times in either half of a policy day, a day start that is not midnight and a
"day after tomorrow"; instants range over a week and its turn, and the properties look
further ahead than the clock goes. Its five households have quotas for day and week, a day
without any, windows that touch and one past midnight, windows on one day only, and rules
that only observe; two hours of use reach and pass every quota, and one of bonus gives back
a day. The machine's zone is the policy's, or an hour or a whole day east or west of it
(`MachineZones`). Five lines: none, an unknown word, a misspelt value, the lenient fallback, and both.

`policy_files` has two processes, each of which may be any command at any time and again,
on a machine with an old row of version 1. Versions go up to 2 (`MaxVersion` bounds the
version a command starts from: one that would go higher does not begin), which is enough to
be refused, to be newer and to go back, and two sets of rules tell two policies of one
version apart. Three inodes are the file, the temporary file and the one on disk; a process
waits for a free one otherwise, which loses nothing with two processes. Processes and inodes
are symmetric.

`setup` has two services, one guarded in `auth` and one in `account`, placed in the two
directories in two ways (`Placements`), a line that suffices for an administrator to add to
each, at most two lines of others per file (`MaxLines`: enough for one before and one after
the rule) and one interference (`MaxAccidents`) at any moment. Jobs, errors, kills and
power losses are not bounded.

**Fairness.** `Ticker!FairSpec` assumes that `run_ticks` keeps ticking (its loop has no
exit but shutdown and catches every error), that a desktop gets to its lock
requests, and that logind does not refuse the same request every time it is made
(strong fairness on `Tick /\ s \in did'.locks`: ticks that ask are enabled again
and again, not continuously, because the user may unlock and lock in between).
Its liveness properties have their premises on the world: the database and the verdict
settle, and the clock is not set back for ever (`ClockSettles`). The strong fairness also
says that a session is not left out of the list every time it would have been locked: one
that logind can never read would never be locked, and the code can do nothing about it.
For the agent, time passes (`WF` on `TimePasses`: its interval fires, or nobody is
there to report) and rounds succeed again and again (`SF` on `Answered`): the daemon
serves every connection in a task of its own, and nothing says that a particular
round is answered in time. `agent` sets `StoreMayFail` to FALSE, since an error while
recording a request is not noticed by anybody.
Nothing is assumed of users, parents, administrators, the clock or restarts.

## 4. What is proved

`tlapm` checks all of it for every value of the constants allowed by the
assumptions in the modules.

*`SegmentBuilderProofs`.* `TypeCorrect`, `RowsAreChronological`,
`SleepIsNotUsage` and `LossIsBounded` follow from one inductive invariant. None
of the three properties is inductive as it stands: that rows do not overlap needs that
the last row ends no later than the clock plus the rounding of a single-tick
segment, which the next tick is at least an interval after; that each credited second was
observed needs the ticks that extended the open segment to be in `seen`, spaced
no wider than the gap. The proof goes tick by tick through the cases of
`observe`, with lemmas on `NextOpen`, `Closed` and `Flushed` stated once.
`SegmentsKeepTheLedger` is the refinement of `UsageLedger`: under the mapping of
`SegmentLedger` every step settles, holds or loses what the abstract ledger
would. The stored total is a fold over the rows, so it needs that the total of a longer
sequence is the old one and the new row's length (`FoldLemmas`).

*`FoldLemmas`.* The prover has no induction over operators, but it knows that numbers are well
ordered, so each claim about all prefixes is shown at the least one that would fail it
(`LeastExists`, `Climb`). With that a fold has a chain of intermediate results
(`FoldExists`, `ChainOfFold`), and sums grow with what is summed (`SumsGrow`, `SumsAppend`,
`SumsAgree`).

*`TickAccountingProofs`.* `TypeCorrect`, `OverrunIsBounded`, `WarningsOnlyEscalate` and `DenialStands`,
for every quota, day length and configuration. `OverrunBounded` follows from an accounting
identity, one-sided since idle ticks are charged too (`Accounted`): what was worked today is stored, open or went with a loss. For that
an open segment has to end at the last tick and be short (`OpenInv`), somebody at work has to
have one open (`WorkIsOpen`), and a verdict has to be true still of the rows it was reached on
(`Judged`), since rows only change together with it. Trying to prove it showed that an
earlier form of the property was too strong: a segment lost with a failed write may have been
prolonged by a gap in the tick that closed it, which a day of ten seconds had hidden from
TLC. `WarningsEscalate` needs that whatever the running ticker said has marked every threshold
above it (`MarkedAreSaid`); a bonus raises what is left but unmarks nothing. Across a
restart the marks are gone, and what remains is that a warning named what the rows of the day
leave of the limit, and that the rows have only grown since (`SaidIsUsed`). `DenialLasts`
needs the same of the limit that was refused (`RefusedIsUsed`), whatever happened since:
sums over rows do not shrink within a day.

*`TickerProofs`.* `TypeCorrect`, `NobodyEndedUnannounced` (`EndedOnlyAfterGrace`),
`LockingIsAnEdge` and `TickerClimbsTheLadder` (the refinement), all without any premise
on rules, database, logind or clock. The inductive invariant adds to the type invariant
that in `Grace` a notice is on record and the wall clock is not ahead of it by more than it
was set forward (`GraceRunsFromNotice`: setting the clock back can only prolong), and that a notice on
record is a step away from `Running` (`NoticeLeavesRunning`). `ViewsAreNoFiction` says what
an incomplete list of sessions still guarantees: it invents none, and takes none for
unlocked whose `LockedHint` could be read. One lemma (`TickCases`) splits a tick into
its paths, and each proof goes path by path.

*`AgentProofs`.* `TypeCorrect`, `ScreenTellsTheTruth`, `BannersTakeTurns`,
`WarnedInTime`, and `NoPressIsLost` for a database that works. The inductive
invariant says that the flag and the last answer tell the same story of a refusal
(`MarkedWhenBlocked`), and so does the agent's last banner as long as it came through
(`BannerAgrees`), and that the thresholds marked are exactly those at or above the least time warned of
(`MarkedAreWarnedOf`); that a refusal never counts as more time (`RefusalIsNoGrowth`) is
why clearing the marks on growth cannot announce a refusal twice. One lemma per kind of
answer, one case per action. What dead agents left on the screen is no part of the invariant: nothing
an agent does depends on it. `BannersAlternate` is proved and not among the properties of
the run.

*`PolicyStoreProofs`.* `TypeCorrect`, `ReadersSeeOldOrNew` (`OldOrNew`), `VersionsOnlyGrow` and
`RulesNeverVanish`, for any number of processes, any rules and versions. `OldOrNew` is not
inductive: it needs that at most one process is saving (`OneSaves`), that this one finds
in its temporary file what it has put there, and after the sync finds it on disk
(`FindsItsWork`), and that what a power loss would bring back is allowed as well
(`DiskIsExpected`). All of it holds only until two hands meet, which is why the
invariant reads `~clash => Undisturbed`. `VersionsOnlyGrow` needs of a save on its way that its
policy is newer than the file it was checked against.

*`AccessProofs`.* `TypeCorrect`, `AdultsGetIn`, `ReasonsAreTrue` and
`KillingGainsNothing`, for every calendar, all valid rules, all lines and every bound. None
is inductive: what is missing is that the answer on its way was earned in this call
(`AnswerEarned`: a refusal carries a reason noted during it, anything else an instant
of being allowed, out of reach or a lookup that misled) and that a running call has always
noted how the account stands (`Witnessed`). `AnswerTrue` says that once of the daemon's
answer, `WatchingKeeps` once for all steps of the world. `evaluate` enters only through
`ReasonType`, so these four do not depend on the arithmetic of windows and quotas.

Three more are about that arithmetic and hold in every well-typed state: `ComingEarlierIsVain`
(`VainBeforeRetry`), `TimeLeftIsTrue` (`TimeLeftIsExact`) and `SentencesAreUnderstood`
(`SentenceMeansRetry`). They rest on a small theory of the calendar, from the uniqueness of
division up: each moment lies on exactly one policy day, days follow one another, weekdays
name dates for a week (`DayHolds`, `DayIs`, `DayReached`, `WeekIs`, `WeekdayNames`). Of the merged
windows one needs that they begin where a window begins and end where none runs
(`MergedIs`), hence that those running at one moment end together and that none runs there
(`MergedApart`). That the search finds a window at all needs it to look further than
a week (`Lookahead`, 9 days in the code for a week of 7), which is an assumption of
`Verdict`; that words are understood needs the instant to be no later than the policy day a
week ahead (`RetryIsNear`, `DatesAhead`), because "Tuesday" is looked for up to a week after
tomorrow (`WordsMean`, of whichever date the machine shows).
`MergingKeepsTheTime` says that merging loses and adds nothing, whatever order, overlap
or touching the windows have.

*`PamSetupProofs`.* `BackupShowsTheOriginal` (`BackupIsOriginal`), for any services, files,
edits and accidents. It is not inductive: a backup is taken of what is in `/etc/pam.d`
now, so it has to be known that without a backup there is no block in the file nor in what a
power loss would bring back of it (`UntouchedIsClean`), nor in the vendor's directory
(`VendorIsClean`), and that the process does not write before there is a backup
(`BackupFirst`); `Shape` is as much of the type invariant as the domains need. And
`DoctorOkMeansRefusal`: for all files and every world, when no check finds
fault, each installed service has the block and the module's answer is a refusal.

`TypeCorrect`, `LinesOfOthersStay` (`OthersUntouched`), `RuleStandsAside` (`AdultsGetIn`) and
`DoctorSpeaksTheTruth` (`DoctorIsRight`) rest on what a service file can look like (`Formed`): in
`/etc/pam.d`, on the disk below it and in the hands of the process, every block of ours is whole
(`WellFormed`: the begin line, then the rule of that service's stack, then the end line, and none
of the three elsewhere); a vendor's file has no line of ours. From such a file `remove_block`
returns exactly the lines of others (`RemoveIsOwn`), and `insert_block` puts one whole block
between them and changes nothing the second time (`InsertIsPlaced`, `InsertFacts`); somebody who
inserts a line of their own outside a block, or removes one, leaves the blocks whole
(`InsertedWellFormed`, `RemovedWellFormed`). On an
`ignore` libpam meets the same lines with the block as without it (`AdmitsOwn`), and a refusal
ends there unless a line that suffices came first (`VetoRefuses`). `SuccessIsKept` (`WordKept`)
adds what the process knows on its way: services gone through meet the word of the job, on a
service nobody touched what is on disk is what is in the directory but for a rename that waits
for its sync, and a promise made is met by both (`GoneThrough`, `OnDisk`, `Promised`).

## 5. Only model-checked, and not modelled

Liveness (`LockedInTheEnd`, `RestoredInTheEnd`, `GraceEnds`, `RequestHeard`,
`ToldInTheEnd`, `SilenceNoticed`) is beyond the prover and checked on the small instances
only. Every invariant and every action property of the passing runs is a theorem. That the
violations of section 6 are violations is shown by TLC's counterexamples.

**Ticks.** `Ticker` does not say which second time is up at; `TickAccounting` knows the
daily quota only. Weekly quotas and allowed windows, which can only deny more, are
the business of `Verdict`; its time zone never changes its distance to UTC. Remote
sessions, which logind lists and nobody locks, are left out. The grace period is a matter of
the wall clock and of the rules in force when it is over, and `EndedOnlyAfterGrace` promises
no more than that: a clock set forward, by hand or by time synchronisation, ends it at once, and
so does an edit that makes `grace_period` shorter, both earlier than the notice said. A
`terminate` policy edited to `lock` during the grace period still ends the session, since
`Phase::Grace` does not ask again what it is for. A
suspend during grace ends it with the next tick; a clock set back prolongs it. While the
database cannot record an event each tick repeats notice and lock requests;
`LockIsAnEdge` therefore speaks of a notice on record. A session that cannot be read for a
moment is as good as logged out: if it is the only one, the escalation starts over with a
new notice and a new grace period; if the grace period ends at that moment, it is not among
those ended.

Two facts about the ladder are not what `docs/architecture.md` says, and no run shows them.
It says (line 109) that logging out resets the escalation; the reset happens only when an
enforcing tick finds no session, so a child who logs out and in between two such ticks keeps
the old deadline. And under `terminate` (line 106) a session that logind failed to end, or
one logged into while the emergency brake was on, stays open for the rest of the lockout:
`enforce` goes on to `Enforced` whatever `terminate()` returned, and never tries again there.

**Accounting.** `OverrunBounded` leaves one case out, in which it fails: when the idle
listener ends while nobody is at the machine, `IdleClock` keeps the instant it was left with,
and every later report calls the child idle for longer and longer, so nothing is
charged until the agent is restarted (which is not modelled, and neither is a suspend,
which the monotonic clock of the agent does not count). The warning in
`tb-agent/src/main.rs:60` expects the opposite, that all session time will count. The
thresholds a user was warned of are kept in memory only, so after a restart of the daemon, or when
logind was lost and a new ticker begins, a warning of the same day is given a second time, and
after a bonus it may then name more time than the first; `WarningsEscalate` allows that and
nothing else. A bonus
grant and its event are two statements; the event is only shown. The breakdown by
application in the outlook and in `tbctl usage` takes the segments that touch the
day whole, while the sums clip them to it, so the two can differ around the start of a day.

**Access.** The time left is exact within a policy day only: `evaluate` does not look past
the day's end, neither to the next day's quota nor to a window that goes on. Days without a
window are allowed as a whole, but `upcoming_windows` passes over them, so a child
refused outside the windows of one day is told a later time than need be;
`VainBeforeRetry` leaves such days out. A poisoned store lock makes the daemon answer
`ignore`, which the module takes for a decision; the comment in `Responder::answer` expects
its fallback to apply instead, and `NothingGainedByKilling` counts that state as standing
aside. The comment on `bind` trusts the database lock to keep two daemons apart; the
database runs in WAL mode and has no such lock, so a second daemon would take the socket over.
The model has one process. When the machine and the policy are in different time zones, the
calendars can differ by a date. If the machine's has passed the date of the retry, the difference
is negative and the sentence says "tomorrow" for what is today or even earlier on the
machine's calendar; `SentenceMeansRetry` leaves that out. It also takes for granted that the
reader knows the time to be the policy's, which the sentence does not say. The event of a refusal and a query that was given up leave no trace.

**Policy files.** `PolicyStore` promises nothing of what is found once two hands are at the file at
the same time. Two saves share one temporary file, so that one can rename what the other
has just emptied, and the reader then sees neither the old policy nor the new one; and two
commands that pass the check of `save_policy` together can leave the older policy. Nothing
locks the directory, but commands are typed by a parent, one after the other. Some things
are so without any clash: `policy import` says "imported" also when `save_policy` refused to
write; a removal is not synced and can be undone by a power loss; a hand edit that keeps
its version loses against a `set` that looked before it; on a machine with the old table
rules removed come back whenever the store is next opened, since the table stays; and a row
of it that does not parse keeps both daemon and `tbctl` from starting as long as there is no
file.

**PAM setup.** What others change between reading and renaming is lost (`OthersUntouched` counts
from there). A backup cut off by a kill counts as existing, and so does one
half written by a power loss, since `fs::copy` does not sync. A failing sync of the
directory is ignored, and a run after a kill between rename and sync finds the service in
order and reports success without syncing; `WordKept` trusts neither. A begin marker without its end makes
`remove_block` drop the rest of the file; the model's edits keep out of the markers. A
service file without any line of the guarded stack gets the block at its end, and a stack
that consists of the block alone refuses everybody; hence the premise of `AdultsGetIn`.
`tbctl pam disable` removes the block and leaves a copy adopted from `/usr/lib/pam.d`
in place, so later upgrades of it do not show; README.md:199-200,
docs/pam-setup.md:88 and docs/quickstart.md:86 say that it restores the backups, which it does not touch. The doctor
does not see a line that suffices before the rule (the premise of `DoctorIsRight`), the
exempt groups, the configuration a running daemon was started with, or its poisoned
lock.

**Agent.** Some facts are of single lines, which no property restates.
`state_for` answers "not managed" when the database fails, and the agent then tells
a refused child that time is back. Growth across an answer without a limit is not
seen (`ingest` compares neighbouring answers), so after a day without a limit the
thresholds of the day before are still marked and the child is not warned;
`WarnedWhenDue` compares neighbouring answers too, and like the marks begins anew with each
agent. A notification that was lost is
never repeated. "Time is up" has no timeout and can only be replaced by the agent that
sent it: when that one is restarted during a lockout, its successor announces the refusal a
second time beside it, and when access comes back takes only its own back. The old one stays
until somebody dismisses it, so `ScreenAgrees` and `ToldInTheEnd` speak of it only to say that
it is old. `available` is never reset, so the widget keeps the last countdown of a
daemon that is gone, although the comment at `main.rs:175` has it say "not connected".
And a request is delivered at least once, not once: if its answer is lost and the next ten
minutes of rounds fail, the parents are asked again for the same press.

Not modelled at all: text formats (durations, application names, TOML, messages,
policy edits on the command line), the schema and its migration, the outlook with its
week and application lists, D-Bus and socket plumbing, daylight saving, the hub (only token
hashing exists), installation, the plasmoid.

## 6. Where the code and its documents disagree

* **`AvailableAtRetry`.** `Denial::retry_at` is documented as the instant "when it becomes
  allowed again", and the lock screen says "Available again ...". It is when the
  first rule that refuses ends. A child who used up the day's quota in a household with a
  window from 15:00 is told to come back at 04:00 and is refused then.
* **`ObserveOnly`.** Rules with `enforcement = false` still lock the screen when
  tracking is blind and `on_tamper = "lock_immediately"`: `tick_user` calls
  `enforce` before the engine is asked.
* **`FileWins`.** A comment says that a file that exists wins over the database it was
  migrated from. `load(..).is_ok_and(|p| p.is_some())` takes a file with a mistake in it for
  a missing one, so on an upgraded machine the old row is written over what the parent typed,
  by the next command that opens the store, `doctor` included.
* **`CreditStopsWhenIdleBegan`.** A comment says that crediting stops when the inactivity
  began and the idle threshold is not charged. Ticks below the threshold extend the segment,
  and the backdated end is clamped to the last of them, so everything up to the last
  tick before the threshold is reached is charged. In the counterexample somebody types once,
  the ticks come in time, and the row ends two ticks later, at the one before the tick that
  notices.
* **`SilenceMeansNoScript`.** The comment on `FOCUS_FRESHNESS` says that five minutes
  without a report mean that the script is gone, not that nobody switched windows.
  The script speaks only when a window is activated, so a child who stays in one
  window that long counts as blind tracking: a tamper event, and under
  `lock_immediately` a lock.

## 7. Plan

1. *(done)* segments, ladder, tick loop, accounting, first proofs.
2. *(done)* `Announcements` and `Agent` with their proofs.
3. *(done)* `Verdict` and `Access` with their proofs.
4. *(done)* `PolicyStore` with its proofs.
5. *(done)* `Ticker` with a clock set back, a database that recovers and sessions that cannot be
   read; the idle clock in `TickAccounting`; lost notifications in `Agent`; arguments,
   NSS and restarts in `Access`.
6. *(done)* `PamFiles`, `Doctor`, `PamSetup` with their proofs.

7. *(done)* the remaining invariants and action properties as theorems: `TickAccounting`, the
   service files of `PamSetup`, the calendar, quotas and windows of `Verdict`, the refinement of
   `UsageLedger`.

What is left: daylight saving in `Verdict`; remote sessions in `Ticker`; the outlook as a pure
operator next to `evaluate`; the migration of old databases; as theorems, the safe half of
the liveness promises (what a tick that reaches a session leaves behind), and that the time left
shown by `TickAccounting` is what `Verdict` says for a day's quota.
