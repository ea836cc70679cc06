-------------------------------- MODULE PamFiles --------------------------------
(***************************************************************************)
(* Service files in /etc/pam.d and the block tbctl writes into them: the   *)
(* text transformations of pamconf.rs, which are pure functions, and what  *)
(* libpam makes of the result.  A line is the stack it belongs to, as      *)
(* line_stack sees it, and what it does; comments, sessions and passwords  *)
(* do nothing.  Everything but the rule is a check the caller passes.      *)
(***************************************************************************)
EXTENDS Naturals, Sequences, Folds, SequencesExt

CONSTANTS
  StackOf,     \* MANAGED: the stack in which a service is guarded
  OtherAdmits  \* whether /etc/pam.d/other admits callers with no stack here

Stack == {"auth", "account"}

Line == [stack : Stack, does : {"require", "suffice", "veto"}]
          \cup [stack : {"none"}, does : {"nothing", "begin", "end"}]

File == Seq(Line)

ASSUME PamFilesAssumption ==
  /\ StackOf \in [DOMAIN StackOf -> Stack]
  /\ OtherAdmits \in BOOLEAN

Begin == [stack |-> "none", does |-> "begin"]

End == [stack |-> "none", does |-> "end"]

Veto(stack) == [stack |-> stack, does |-> "veto"]

Block(stack) == <<Begin, Veto(stack), End>>

(***************************************************************************)
(* What is in a file besides the block.                                    *)
(***************************************************************************)
Kept(own, line) ==
  IF line.does \in {"begin", "veto", "end"} THEN own ELSE Append(own, line)

Own(file) == FoldLeft(Kept, <<>>, file)

HasBlock(file) == \E i \in DOMAIN file : file[i] = Begin

-----------------------------------------------------------------------------
(***************************************************************************)
(* remove_block, line by line: a marker is dropped and says whether what   *)
(* follows is inside.                                                      *)
(***************************************************************************)
Passed(seen, line) ==
  IF line \in {Begin, End} THEN [inside |-> line = Begin, out |-> seen.out]
  ELSE [seen EXCEPT !.out = IF seen.inside THEN @ ELSE Append(@, line)]

RemoveBlock(file) ==
  FoldLeft(Passed, [inside |-> FALSE, out |-> <<>>], file).out

FirstOf(file, stack) ==
  CHOOSE i \in DOMAIN file :
    file[i].stack = stack /\ \A j \in 1 .. (i - 1) : file[j].stack # stack

\* Mutant: the line found is overwritten.
InsertBlockOver(file, stack) ==
  LET cleaned == RemoveBlock(file)
      at == FirstOf(cleaned, stack)
  IN IF \E i \in DOMAIN cleaned : cleaned[i].stack = stack
     THEN SubSeq(cleaned, 1, at - 1) \o Block(stack)
            \o SubSeq(cleaned, at + 1, Len(cleaned))
     ELSE cleaned \o Block(stack)

(***************************************************************************)
(* insert_block: the old block goes, the new one comes before the first    *)
(* line of its stack, or last when there is none.                          *)
(***************************************************************************)
InsertBlock(file, stack) ==
  LET cleaned == RemoveBlock(file)
      at == FirstOf(cleaned, stack)
  IN IF \E i \in DOMAIN cleaned : cleaned[i].stack = stack
     THEN SubSeq(cleaned, 1, at - 1) \o Block(stack)
            \o SubSeq(cleaned, at, Len(cleaned))
     ELSE cleaned \o Block(stack)

-----------------------------------------------------------------------------
(***************************************************************************)
(* The control words of AUTH_CONTROL and ACCOUNT_CONTROL: what libpam is   *)
(* to do with each answer of the module.  The module answers `ignore' or a *)
(* refusal (ModuleResult), and `unknown' stands for one that is not there. *)
(***************************************************************************)
\* Mutant: a module that is not there is an error like any other.
PlainControl(stack) ==
  [ignore |-> "ignore", unknown |-> "bad",
   refusal |-> IF stack = "auth" THEN "die" ELSE "bad"]

Control(stack) ==
  [ignore |-> "ignore", unknown |-> "ignore",
   refusal |-> IF stack = "auth" THEN "die" ELSE "bad"]

Answer == {"ignore", "unknown", "refusal"}

(***************************************************************************)
(* What libpam does on a line; `sufficient' is `done', `required' `ok'.    *)
(***************************************************************************)
Does(line, answer) ==
  CASE line.does = "veto" -> Control(line.stack)[answer]
    [] line.does = "suffice" -> "done"
    [] OTHER -> "ok"

(***************************************************************************)
(* libpam goes through the lines of one stack until one of them ends it.   *)
(* Access takes a success, and no failure before the end; when all lines   *)
(* are stepped over it is refused.  A file without the stack leaves the    *)
(* caller to /etc/pam.d/other.                                             *)
(***************************************************************************)
Admits(file, stack, answer) ==
  LET mine == {i \in DOMAIN file : file[i].stack = stack}
      act(i) == Does(file[i], answer)
      reached == {i \in mine :
                    \A j \in mine : j < i => act(j) \notin {"done", "die"}}
  IN IF mine = {} THEN OtherAdmits
     ELSE /\ \E i \in reached : act(i) \in {"ok", "done"}
          /\ \A i \in reached : act(i) \notin {"bad", "die"}
=============================================================================
