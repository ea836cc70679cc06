---------------------------- MODULE Announcements ----------------------------
(***************************************************************************)
(* When a child is spoken to: AgentState::ingest (tb-agent/src/state.rs)   *)
(* takes in the daemon's answers one by one and decides what the desktop   *)
(* shows.  An answer is reduced to the two fields the decision reads;      *)
(* `last_remaining' always equals the time in the last answer and is not   *)
(* kept twice.  Agent says when an answer arrives.                         *)
(***************************************************************************)
EXTENDS Integers

CONSTANTS
  MaxLeft,  \* the longest time an answer states
  WarnAt,   \* policy.warn_at: thresholds at which the child is warned
  None,     \* no limit to state
  MayNotShow  \* whether the desktop may fail to show a notification

ASSUME AnnouncementsAssumption ==
  /\ MaxLeft \in Nat
  /\ WarnAt \subseteq Nat
  /\ None \notin Int
  /\ MayNotShow \in BOOLEAN

VARIABLES
  shown,             \* AgentState.daemon: the last answer
  announced,         \* AgentState.announced
  blockedAnnounced,  \* AgentState.blocked_announced
  banner,            \* what this agent last got onto the screen (last_id)
  closed,            \* and the child has dismissed it since
  stale,             \* banners of agents gone that are still up, by kind
  lost,              \* history: the last announcement was never seen
  said,              \* history: what this step announced
  low                \* history: the least time warned of in this allowance

screen == <<banner, closed, stale>>
voice == <<shown, announced, blockedAnnounced, screen, lost, said, low>>

(***************************************************************************)
(* The answers Receiver::state_for composes.                               *)
(***************************************************************************)
Unmanaged == [blocked |-> FALSE, left |-> None]

Refused == [blocked |-> TRUE, left |-> 0]

Allowed(left) == [blocked |-> FALSE, left |-> left]

Answer == {Unmanaged, Refused} \cup {Allowed(left) : left \in 0 .. MaxLeft}

Kind == {"Nothing", "Warning", "Blocked", "Restored"}

(***************************************************************************)
(* Kind::offers_request: the notifications with a button for more time.    *)
(* They are the critical ones, too, which have no timeout and stay until   *)
(* they are dismissed.  That time is back goes away on its own, and        *)
(* nothing depends on when.                                                *)
(***************************************************************************)
OffersRequest(kind) == kind \in {"Warning", "Blocked"}

(***************************************************************************)
(* The banners with a button that the child has in front of it.            *)
(***************************************************************************)
Own == {kind \in {banner} : OffersRequest(kind) /\ ~closed}

Standing == Own \cup stale

VoiceTypeOK ==
  /\ shown \in Answer
  /\ announced \subseteq WarnAt
  /\ blockedAnnounced \in BOOLEAN
  /\ banner \in Kind
  /\ closed \in BOOLEAN
  /\ stale \subseteq {kind \in Kind : OffersRequest(kind)}
  /\ lost \in BOOLEAN
  /\ said \in Kind
  /\ low \in 0 .. MaxLeft \cup {None}

VoiceInit ==
  /\ shown = Unmanaged
  /\ announced = {}
  /\ blockedAnnounced = FALSE
  /\ banner = "Nothing"
  /\ closed = FALSE
  /\ stale = {}
  /\ lost = FALSE
  /\ said = "Nothing"
  /\ low = None

-----------------------------------------------------------------------------
(***************************************************************************)
(* More time than in the answer before: a new allowance.                   *)
(***************************************************************************)
Grew(answer) ==
  /\ answer.left # None
  /\ shown.left # None
  /\ answer.left > shown.left

Crossed(left) == {t \in WarnAt : left <= t}

KeptForever(answer) == announced

Kept(answer) == IF Grew(answer) THEN {} ELSE announced

BlockedKept(answer) == blockedAnnounced /\ ~Grew(answer)

LowKept(answer) == IF Grew(answer) THEN None ELSE low

(***************************************************************************)
(* Notifier::show: a notification replaces the one with last_id, which is  *)
(* this agent's last.  When there is no server or it refuses, the message  *)
(* is lost, and what was announced counts as announced all the same.       *)
(***************************************************************************)
Show(kind) ==
  \/ banner' = kind /\ closed' = FALSE /\ lost' = FALSE /\ UNCHANGED stale
  \/ MayNotShow /\ UNCHANGED screen /\ lost' = TRUE

Say(kind) ==
  /\ said' = kind
  /\ IF kind = "Nothing" THEN UNCHANGED <<screen, lost>> ELSE Show(kind)

HearRefusal(answer) ==
  /\ answer.blocked
  /\ Say(IF BlockedKept(answer) THEN "Nothing" ELSE "Blocked")
  /\ announced' = Kept(answer)
  /\ blockedAnnounced' = TRUE
  /\ low' = LowKept(answer)

HearRestoredStillMarked(answer) ==
  /\ ~answer.blocked
  /\ shown.blocked
  /\ Say("Restored")
  /\ announced' = {}
  /\ UNCHANGED blockedAnnounced
  /\ low' = None

HearRestored(answer) ==
  /\ ~answer.blocked
  /\ shown.blocked
  /\ Say("Restored")
  /\ announced' = {}
  /\ blockedAnnounced' = FALSE
  /\ low' = None

HearUnlimited(answer) ==
  /\ ~answer.blocked /\ ~shown.blocked
  /\ answer.left = None
  /\ Say("Nothing")
  /\ announced' = Kept(answer)
  /\ blockedAnnounced' = BlockedKept(answer)
  /\ low' = LowKept(answer)

(***************************************************************************)
(* Every threshold passed is marked, but the child is spoken to once.      *)
(***************************************************************************)
HearTimeLeft(answer) ==
  /\ ~answer.blocked /\ ~shown.blocked
  /\ answer.left # None
  /\ LET fresh == Crossed(answer.left) \ Kept(answer)
     IN  /\ Say(IF fresh # {} THEN "Warning" ELSE "Nothing")
         /\ low' = IF fresh # {} THEN answer.left ELSE LowKept(answer)
  /\ announced' = Kept(answer) \cup Crossed(answer.left)
  /\ blockedAnnounced' = BlockedKept(answer)

Ingest(answer) ==
  /\ \/ HearRefusal(answer)
     \/ HearRestored(answer)
     \/ HearUnlimited(answer)
     \/ HearTimeLeft(answer)
  /\ shown' = answer

(***************************************************************************)
(* A round without an answer, or anything that is none of the agent's.     *)
(***************************************************************************)
Silence ==
  /\ said' = "Nothing"
  /\ UNCHANGED <<shown, announced, blockedAnnounced, screen, lost, low>>

(***************************************************************************)
(* The child dismisses a banner, or pressing its button took it away.      *)
(***************************************************************************)
Dismissed ==
  /\ \/ Own # {} /\ closed' = TRUE /\ UNCHANGED stale
     \/ \E kind \in stale : stale' = stale \ {kind} /\ UNCHANGED closed
  /\ said' = "Nothing"
  /\ UNCHANGED <<shown, announced, blockedAnnounced, banner, lost, low>>

(***************************************************************************)
(* A new process: AgentState::new, and a notifier that has shown nothing   *)
(* and whose last_id is 0.  It can neither replace nor remove what the old *)
(* one left on the screen.                                                 *)
(***************************************************************************)
Forget ==
  /\ shown' = Unmanaged
  /\ announced' = {}
  /\ blockedAnnounced' = FALSE
  /\ banner' = "Nothing"
  /\ closed' = FALSE
  /\ stale' = Standing
  /\ lost' = FALSE
  /\ said' = "Nothing"
  /\ low' = None

-----------------------------------------------------------------------------
(***************************************************************************)
(* What the agent told the child and what the daemon last said agree: its  *)
(* last notification is "time is up" exactly while the last answer refused *)
(* access (Announcement::Blocked and Announcement::Restored), and a "time  *)
(* is up" on the screen is true or was left by an agent that is gone.  The *)
(* child may have dismissed it, and a notification the desktop did not     *)
(* show is made up for by the next one that it does.                       *)
(***************************************************************************)
ScreenAgrees ==
  ~lost => /\ shown.blocked <=> banner = "Blocked"
           /\ "Blocked" \in Standing \ stale => shown.blocked

(***************************************************************************)
(* One agent announces a refusal once and takes it back once: no second    *)
(* "time is up" without a "time is back" in between, no "time is back" out *)
(* of the blue, and no countdown over a refusal, whatever grants, policy   *)
(* days, failed queries and lost answers come in between.  An agent that   *)
(* is started again has forgotten: it announces a refusal once more,       *)
(* beside the banner the old one left.                                     *)
(***************************************************************************)
BannersAlternate ==
  [][~lost =>
       /\ said' = "Blocked" => banner # "Blocked"
       /\ said' = "Restored" => banner = "Blocked"
       /\ said' = "Warning" => banner # "Blocked"]_voice

(***************************************************************************)
(* state.rs: an agent that warns every few seconds is one a child learns   *)
(* to ignore, and one that never warns turns a limit into an ambush.  The  *)
(* child is warned exactly when the time left has passed a threshold below *)
(* everything this agent warned of since the last answer that named more   *)
(* time than the one before it; what it warned of is forgotten with it.    *)
(***************************************************************************)
PassesThreshold ==
  /\ ~shown'.blocked
  /\ shown'.left # None
  /\ \E t \in WarnAt :
       shown'.left <= t /\ (LowKept(shown') # None => t < LowKept(shown'))

WarnedWhenDue ==
  [][/\ said' = "Warning" => PassesThreshold
     /\ shown' # shown /\ PassesThreshold => said' # "Nothing"]_voice
=============================================================================
