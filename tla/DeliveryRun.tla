------------------------------ MODULE DeliveryRun ------------------------------
(***************************************************************************)
(* One run of the development pipeline on one issue (adw_sdlc/src/         *)
(* orchestrator.ts), launched again with --resume after each stop: the     *)
(* phases, the bounded loops of resolve, patch and CI fixes, finalize and  *)
(* merge, and what survives in state.json (state.ts), in the working tree  *)
(* and on GitHub when the process dies between two of its calls.           *)
(*                                                                         *)
(* A content (of the tree, of a commit, of main) is the set of the edits   *)
(* in it; edit 0 is work the operator had left uncommitted before the run. *)
(* Agents are nondeterministic: they may edit at any moment of their call, *)
(* and their answer is any of those the pipeline tells apart.  Progress    *)
(* notes, the board's status and costs are left out.                       *)
(***************************************************************************)
EXTENDS Integers, Sequences

CONSTANTS
  Phases,        \* the phases in their order, after parsePhases
  MaxResolve, MaxPatch, MaxCiFix,  \* attempts of each loop
  MaxPolls,      \* polls of a pending CI
  SettlePolls,   \* NO_CHECKS_SETTLE_POLLS
  MaxBlockers,   \* bound: blockers a review reports
  MaxEdits,      \* bound: edits agents make
  MaxLaunches,   \* bound: launches of the pipeline
  DirtyStart,    \* the operator may have uncommitted work at first
  SaveMayFail,   \* state.json may fail to be written
  None           \* no state.json, no branch

ASSUME NumbersAssumption ==
  /\ {MaxResolve, MaxPatch, MaxCiFix, MaxPolls, SettlePolls, MaxBlockers,
      MaxEdits, MaxLaunches} \subseteq Nat
  /\ DirtyStart \in BOOLEAN /\ SaveMayFail \in BOOLEAN

(* AGENT_PHASES; parsePhases takes any list of them, in any order.         *)
AgentPhases == {"classify", "plan", "implement", "tests", "resolve", "e2e", "review",
                "patch", "document"}
ASSUME PhasesAssumption == Phases \in Seq(AgentPhases)

(* What state.json keeps that a later launch depends on.                   *)
State == [done : SUBSET (AgentPhases \cup {"setup", "merge"}), found : Nat]
(* What the tree, a commit or main may have.                               *)
Content == SUBSET (0 .. MaxEdits)

ASSUME NoneAssumption ==
  None \notin Nat /\ None \notin State /\ \A content \in Content : content # None

VARIABLES
  disk,      \* state.json as load() reads it, None when it cannot
  mem,       \* AdwState of the running process
  pc,        \* what the process does next; "off" when it does not run
  loop,      \* locals of the process
  repo,      \* the checkout: base branch, its own branch and the tree
  hub,       \* GitHub: branch, pull request, its checks and the content they
             \* are of, main, the issue
  launches,
  edits,     \* edits made so far
  seen       \* reds not run again, what reviews said, what was refused
             \* (for properties)

vars == <<disk, mem, pc, loop, repo, hub, launches, edits, seen>>

Fresh == [done |-> {}, found |-> 0]
NoLocals == [for |-> "none", nudged |-> FALSE, attempt |-> 0, left |-> 0,
             polls |-> 0, nones |-> 0, review |-> None]

Init ==
  /\ disk = None /\ mem = None /\ pc = "off" /\ loop = NoLocals
  /\ \E tree \in IF DirtyStart THEN {{}, {0}} ELSE {{}} :
       repo = [on |-> "base", base |-> {}, head |-> None, root |-> {},
               tree |-> tree]
  /\ hub = [branch |-> None, pr |-> FALSE, shown |-> None, ci |-> "none", main |-> {},
            issue |-> "OPEN", merges |-> <<>>]
  /\ launches = 0 /\ edits = 0
  /\ seen = [red |-> {}, reviewed |-> 0, open |-> 0, unrecorded |-> FALSE,
             refused |-> FALSE]

(* What HEAD has; the tree is dirty when it has something else.            *)
HeadContent == IF repo.on = "branch" THEN repo.head ELSE repo.base
Dirty == repo.tree # HeadContent

(* save(): best effort; a write that fails half way leaves a file that     *)
(* load() cannot read.                                                     *)
Save(state) ==
  /\ mem' = state
  /\ disk' \in IF SaveMayFail THEN {state, disk, None} ELSE {state}

Done(phase) == [mem EXCEPT !.done = @ \cup {phase}]

(* throw: the process ends, its memory is lost, the rest stays.            *)
Throw == pc' = "off" /\ mem' = None /\ loop' = NoLocals
Continue(label) == pc' = label

-----------------------------------------------------------------------------
(* The launch                                                              *)

(* save() of a run whose merge was recorded may lose that record.          *)
Recorded(d) == d # None /\ "merge" \in d.done

LaunchUnclean ==                                                    \* mutant
  /\ pc = "off" /\ launches < MaxLaunches /\ hub.issue = "OPEN"
  /\ launches' = launches + 1
  /\ disk' = (IF disk = None THEN Fresh ELSE disk) /\ mem' = disk' /\ pc' = "setup"
  /\ UNCHANGED <<loop, repo, hub, edits, seen>>

(* Preflight, resolveState and its save, then the clean tree that a fresh  *)
(* run needs.                                                              *)
Launch ==
  LET state   == IF disk = None THEN Fresh ELSE disk
      refused == disk = None /\ Dirty
  IN /\ pc = "off" /\ launches < MaxLaunches
     /\ hub.issue = "OPEN"
     /\ launches' = launches + 1
     /\ disk' \in IF SaveMayFail THEN {state, disk, None} ELSE {state}
     /\ IF refused THEN Throw
                   ELSE mem' = state /\ pc' = "setup" /\ UNCHANGED loop
     /\ seen' = [seen EXCEPT !.refused = @ \/ refused,
                             !.unrecorded = @ \/ (Recorded(disk) /\ disk' = None)]
     /\ UNCHANGED <<repo, hub, edits>>

(* createOrCheckoutBranch carries uncommitted edits along, or fails on a   *)
(* conflict.                                                               *)
CheckOut ==
  LET head == IF repo.head = None THEN hub.main ELSE repo.head
  IN repo' = [repo EXCEPT !.on = "branch", !.head = head,
                          !.root = IF repo.head = None THEN hub.main ELSE @,
                          !.tree = head \cup (repo.tree \ HeadContent)]

Setup ==
  /\ pc = "setup"
  /\ \/ /\ "setup" \in mem.done
        /\ Continue("phase") /\ UNCHANGED <<disk, mem, repo, loop>>
     \/ /\ "setup" \notin mem.done
        /\ CheckOut
        /\ Save(Done("setup")) /\ Continue("phase") /\ UNCHANGED loop
     \/ /\ "setup" \notin mem.done /\ Dirty
        /\ Throw /\ UNCHANGED <<disk, repo>>
  /\ UNCHANGED <<hub, launches, edits, seen>>

-----------------------------------------------------------------------------
(* The phases                                                              *)

(* The phase of the next turn of the loop: those before it are done.       *)
NextUp(i) == Phases[i] \notin mem.done /\ \A j \in 1 .. i - 1 : Phases[j] \in mem.done
Skippable == {"e2e", "document"}

Ask(for, locals) ==
  /\ loop' = [locals EXCEPT !.for = for, !.nudged = FALSE]
  /\ Continue("agent")

Finish(phase, state) ==
  /\ Save([state EXCEPT !.done = @ \cup {phase}])
  /\ Continue("phase")

(* findings of this process's review, or those that state.json kept.       *)
FindingsForgotten == IF loop.review = None THEN 0 ELSE loop.review  \* mutant
Findings == IF loop.review = None THEN mem.found ELSE loop.review

TakePhase(phase) ==
  \/ /\ phase \notin {"resolve", "patch"}
     /\ Ask(phase, loop) /\ UNCHANGED <<disk, mem>>
  \/ /\ phase \in Skippable                       \* gateConditional
     /\ Finish(phase, mem) /\ UNCHANGED loop
  \/ /\ phase = "resolve"
     /\ loop' = [loop EXCEPT !.attempt = 0]
     /\ Continue("tests") /\ UNCHANGED <<disk, mem>>
  \/ /\ phase = "patch"
     /\ loop' = [loop EXCEPT !.attempt = 0, !.left = Findings]
     /\ Continue("patch") /\ UNCHANGED <<disk, mem>>

NextPhase ==
  /\ pc = "phase"
  /\ \/ /\ \A i \in DOMAIN Phases : Phases[i] \in mem.done
        /\ Continue("gates") /\ UNCHANGED <<disk, mem, loop>>
     \/ \E i \in DOMAIN Phases : NextUp(i) /\ TakePhase(Phases[i])
  /\ UNCHANGED <<repo, hub, launches, edits, seen>>

(* resolveLoop: the test gate; whatever it returns, the phase is done.     *)
Tests ==
  /\ pc = "tests"
  /\ \/ Finish("resolve", mem) /\ UNCHANGED loop   \* green, or out of attempts
     \/ /\ loop.attempt < MaxResolve               \* red
        /\ Ask("resolve", [loop EXCEPT !.attempt = @ + 1])
        /\ UNCHANGED <<disk, mem>>
  /\ UNCHANGED <<repo, hub, launches, edits, seen>>

(* patchLoop: the blockers only; whatever it returns, the phase is done.   *)
Patch ==
  /\ pc = "patch"
  /\ IF loop.left > 0 /\ loop.attempt < MaxPatch
     THEN Ask("patch", [loop EXCEPT !.attempt = @ + 1]) /\ UNCHANGED <<disk, mem>>
     ELSE Finish("patch", mem) /\ UNCHANGED loop
  /\ UNCHANGED <<repo, hub, launches, edits, seen>>

-----------------------------------------------------------------------------
(* runAgentPhase                                                           *)

AgentEdits ==
  /\ pc = "agent" /\ edits < MaxEdits
  /\ edits' = edits + 1
  /\ repo' = [repo EXCEPT !.tree = @ \cup {edits + 1}]
  /\ UNCHANGED <<disk, mem, pc, loop, hub, launches, seen>>

(* An unparsable answer is asked for once more, unless the runner was      *)
(* stopped by its timeout or its budget: that throws, like a second one.   *)
Nudge ==
  /\ pc = "agent" /\ ~loop.nudged
  /\ loop' = [loop EXCEPT !.nudged = TRUE]
  /\ UNCHANGED <<disk, mem, pc, repo, hub, launches, edits, seen>>

AgentFails ==
  /\ pc = "agent"
  /\ Throw
  /\ UNCHANGED <<disk, repo, hub, launches, edits, seen>>

PhaseReply ==
  /\ pc = "agent" /\ loop.for \notin {"review", "resolve", "patch", "ci"}
  /\ Finish(loop.for, mem)
  /\ UNCHANGED <<loop, repo, hub, launches, edits, seen>>

ReviewReplyUnsaved ==                                               \* mutant
  /\ pc = "agent" /\ loop.for = "review"
  /\ \E n \in 0 .. MaxBlockers :
       /\ loop' = [loop EXCEPT !.review = n]
       /\ seen' = [seen EXCEPT !.reviewed = n, !.open = n]
       /\ Finish("review", mem)
  /\ UNCHANGED <<repo, hub, launches, edits>>

(* The findings are persisted with the phase, for a later --resume.        *)
ReviewReply ==
  /\ pc = "agent" /\ loop.for = "review"
  /\ \E n \in 0 .. MaxBlockers :
       /\ loop' = [loop EXCEPT !.review = n]
       /\ seen' = [seen EXCEPT !.reviewed = n, !.open = n]
       /\ Finish("review", [mem EXCEPT !.found = n])
  /\ UNCHANGED <<repo, hub, launches, edits>>

(* resolved = 0 stops the loop.                                            *)
ResolveReply ==
  /\ pc = "agent" /\ loop.for = "resolve"
  /\ \/ Continue("tests") /\ UNCHANGED <<disk, mem>>
     \/ Finish("resolve", mem)
  /\ UNCHANGED <<loop, repo, hub, launches, edits, seen>>

(* Without progress the loop stops with what the agent says remains.       *)
PatchReply ==
  /\ pc = "agent" /\ loop.for = "patch"
  /\ \E remaining \in 0 .. MaxBlockers :
       /\ seen' = [seen EXCEPT !.open = remaining]
       /\ loop' = [loop EXCEPT !.left = remaining]
       /\ \/ /\ remaining < loop.left
             /\ Continue("patch") /\ UNCHANGED <<disk, mem>>
          \/ Finish("patch", mem)
  /\ UNCHANGED <<repo, hub, launches, edits>>

-----------------------------------------------------------------------------
(* finalizeAndMerge                                                        *)

(* The resume guard, then the gates on the tree.                           *)
Gates ==
  /\ pc = "gates"
  /\ \/ "merge" \in mem.done /\ Continue("verify") /\ UNCHANGED <<mem, loop>>
     \/ "merge" \notin mem.done /\ Continue("commit") /\ UNCHANGED <<mem, loop>>
     \/ "merge" \notin mem.done /\ Throw
  /\ UNCHANGED <<disk, repo, hub, launches, edits, seen>>

Committed == IF repo.on = "branch" THEN [repo EXCEPT !.head = repo.tree]
                                   ELSE [repo EXCEPT !.base = repo.tree]

(* commitAll: a clean tree is a success.                                   *)
Commit ==
  /\ pc = "commit"
  /\ \/ repo' = Committed /\ Continue("push") /\ UNCHANGED <<mem, loop>>
     \/ Dirty /\ Throw /\ UNCHANGED repo
  /\ UNCHANGED <<disk, hub, launches, edits, seen>>

(* GitHub takes the content; its pull request shows it a little later.     *)
Pushed(head) == [hub EXCEPT !.branch = head]

Push ==
  /\ pc = "push"
  /\ \/ /\ repo.head # None
        /\ hub' = Pushed(repo.head) /\ Continue("pr") /\ UNCHANGED <<mem, loop>>
     \/ Throw /\ UNCHANGED hub
  /\ UNCHANGED <<disk, repo, launches, edits, seen>>

(* prForBranch, createPr; gh opens none for a branch without a commit.     *)
OpenPr ==
  /\ pc = "pr"
  /\ \/ /\ hub.pr \/ repo.head # repo.root
        /\ hub' = IF hub.pr THEN hub
                 ELSE [hub EXCEPT !.pr = TRUE, !.shown = hub.branch, !.ci = "none"]
        /\ Save(mem)
        /\ loop' = [loop EXCEPT !.attempt = 0, !.polls = 0, !.nones = 0]
        /\ Continue("ci")
     \/ ~hub.pr /\ Throw /\ UNCHANGED <<disk, hub>>
  /\ UNCHANGED <<repo, launches, edits, seen>>

(* No checks: wait for them a little, then there is nothing to gate on.    *)
CiNone ==
  /\ hub.ci = "none"
  /\ loop' = [loop EXCEPT !.nones = @ + 1]
  /\ Continue(IF loop'.nones > SettlePolls THEN "confirm" ELSE "ci")
  /\ UNCHANGED mem

CiPending ==
  /\ hub.ci = "pending"
  /\ \/ /\ loop.polls < MaxPolls
        /\ loop' = [loop EXCEPT !.polls = @ + 1]
        /\ Continue("ci") /\ UNCHANGED mem
     \/ loop.polls >= MaxPolls /\ Throw

CiFailureGivenUp ==                                                 \* mutant
  /\ hub.ci = "failure"
  /\ IF loop.attempt < MaxCiFix
     THEN Ask("ci", [loop EXCEPT !.attempt = @ + 1]) /\ UNCHANGED mem
     ELSE Continue("confirm") /\ UNCHANGED <<mem, loop>>

CiFailureUncounted ==                                               \* mutant
  hub.ci = "failure" /\ Ask("ci", loop) /\ UNCHANGED mem

CiFailure ==
  /\ hub.ci = "failure"
  /\ IF loop.attempt < MaxCiFix
     THEN Ask("ci", [loop EXCEPT !.attempt = @ + 1]) /\ UNCHANGED mem
     ELSE Throw

(* One poll of ciFixLoop, of the checks that the pull request shows; the   *)
(* status may also be unknown.                                             *)
CiPoll ==
  /\ pc = "ci"
  /\ \/ hub.ci = "success" /\ Continue("confirm") /\ UNCHANGED <<mem, loop>>
     \/ CiNone \/ CiPending \/ CiFailure
     \/ Throw
  /\ seen' = [seen EXCEPT !.red =
       IF hub.ci = "failure" THEN @ \cup {hub.shown} ELSE @]
  /\ UNCHANGED <<disk, repo, hub, launches, edits>>

(* The agent's fix: nothing resolved or nothing changed ends the loop, a   *)
(* failed commit or push does not.                                         *)
CiFixReply ==
  /\ pc = "agent" /\ loop.for = "ci"
  /\ \/ Throw /\ UNCHANGED <<repo, hub>>
     \/ /\ Dirty
        /\ Continue("ci") /\ UNCHANGED mem
        /\ \/ UNCHANGED <<repo, hub, loop>>
           \/ /\ repo' = Committed /\ loop' = [loop EXCEPT !.polls = 0]
              /\ \/ hub' = Pushed(repo'.head) \/ UNCHANGED hub
  /\ UNCHANGED <<disk, launches, edits, seen>>

Confirm ==
  /\ pc = "confirm"
  /\ \/ Continue("merge") /\ UNCHANGED <<mem, loop>>
     \/ Throw
  /\ UNCHANGED <<disk, repo, hub, launches, edits, seen>>

(* squashMerge on GitHub; the text of the commit may forget to close the   *)
(* issue.                                                                  *)
Merge ==
  /\ pc = "merge"
  /\ \/ /\ \E issue \in {"OPEN", "CLOSED"} :
             hub' = [hub EXCEPT !.pr = FALSE, !.branch = None, !.issue = issue,
                                !.shown = None, !.ci = "none",
                                !.main = @ \cup hub.branch,
                                !.merges = Append(@, hub.branch)]
        /\ Continue("tidy") /\ UNCHANGED <<mem, loop>>
     \/ Throw /\ UNCHANGED hub
  /\ UNCHANGED <<disk, repo, launches, edits, seen>>

(* --delete-branch locally, pullRebase: back on the base branch.           *)
Tidy ==
  /\ pc = "tidy"
  /\ LET base == repo.base \cup hub.main
     IN repo' = [on |-> "base", base |-> base, head |-> None, root |-> {},
                 tree |-> base]
  /\ Continue("record")
  /\ UNCHANGED <<disk, mem, loop, hub, launches, edits, seen>>

RecordSkipped ==                                                    \* mutant
  /\ pc = "record"
  /\ Continue("verify")
  /\ UNCHANGED <<disk, mem, loop, repo, hub, launches, edits, seen>>

Record ==
  /\ pc = "record"
  /\ Save(Done("merge"))
  /\ seen' = [seen EXCEPT !.unrecorded = @ \/ ~Recorded(disk')]
  /\ Continue("verify")
  /\ UNCHANGED <<loop, repo, hub, launches, edits>>

(* Returns 0 or throws by the issue's state: either way the process ends.  *)
Verify ==
  /\ pc = "verify"
  /\ Throw
  /\ UNCHANGED <<disk, repo, hub, launches, edits, seen>>

-----------------------------------------------------------------------------
(* The pull request shows the content that was pushed.                     *)
HubCatchesUp ==
  /\ hub.pr /\ hub.shown # hub.branch
  /\ hub' = [hub EXCEPT !.shown = hub.branch, !.ci = "none"]
  /\ UNCHANGED <<disk, mem, pc, loop, repo, launches, edits, seen>>

(* GitHub runs the checks of the content it shows, if there are any ...    *)
CiRuns ==
  /\ hub.pr
  /\ \/ hub.ci = "none" /\ hub' = [hub EXCEPT !.ci = "pending"]
     \/ /\ hub.ci = "pending"
        /\ \E ci \in {"success", "failure"} : hub' = [hub EXCEPT !.ci = ci]
  /\ UNCHANGED <<disk, mem, pc, loop, repo, launches, edits, seen>>

(* ... and somebody may run them again.                                    *)
CiRunsAgain ==
  /\ hub.pr /\ hub.ci \in {"success", "failure"}
  /\ hub' = [hub EXCEPT !.ci = "pending"]
  /\ seen' = [seen EXCEPT !.red = @ \ {hub.shown}]
  /\ UNCHANGED <<disk, mem, pc, loop, repo, launches, edits>>

(* The process is killed, or the machine stops.                            *)
Crash ==
  /\ pc # "off"
  /\ Throw
  /\ seen' = [seen EXCEPT !.unrecorded = @ \/ pc \in {"tidy", "record"}]
  /\ UNCHANGED <<disk, repo, hub, launches, edits>>

Agent ==
  \/ AgentEdits \/ Nudge \/ AgentFails
  \/ PhaseReply \/ ReviewReply \/ ResolveReply \/ PatchReply \/ CiFixReply
Run ==
  \/ Setup \/ NextPhase \/ Tests \/ Patch \/ Agent
  \/ Gates \/ Commit \/ Push \/ OpenPr \/ CiPoll
  \/ Confirm \/ Merge \/ Tidy \/ Record \/ Verify

GitHub == HubCatchesUp \/ CiRuns \/ CiRunsAgain

Next == Launch \/ Run \/ GitHub \/ Crash

Spec == Init /\ [][Next]_vars

(* The process runs: agents and gh calls return or are stopped.            *)
FairSpec == Spec /\ WF_vars(Run)

-----------------------------------------------------------------------------
(* Properties                                                              *)

(* The patch phase works on what the last review found, even when a crash  *)
(* and a --resume came between the two phases.                             *)
PatchGetsFindings ==
  [][pc = "phase" /\ pc' = "patch" => loop'.left = seen.reviewed]_vars

(* A second merge of the issue needs a window of the code: a stop after    *)
(* GitHub merged and before state.json says so, or a state.json that could *)
(* not be written.  No other stop, retry or --resume merges again.         *)
MergedOnce == Len(hub.merges) <= 1 \/ seen.unrecorded

(* A content whose checks the CI watch has seen failing is merged only if  *)
(* GitHub has run them again since: not by this launch and not by a later  *)
(* one, whatever is fixed, pushed and shown late in between.  The watch    *)
(* remembers no red, and what it reads may be the checks of an older       *)
(* content.                                                                *)
RedNeverMerged == [][hub.merges' # hub.merges => hub.branch \notin seen.red]_vars

(* Work the operator had not committed is in a commit of the pipeline only *)
(* after a launch that refused the dirty tree (and saved a state.json that *)
(* lets the next --resume take it for the run's own edits).                *)
ForeignWorkOnlyAfterRefusal ==
  repo.head # None /\ 0 \in repo.head => seen.refused

(* Every launch ends: retries, nudges, polls and fixes are all bounded.    *)
RunEnds == (pc # "off") ~> (pc = "off")

(* .pi/prompts/review_phase.md: a blocker must be fixed before merge.  The *)
(* result of patchLoop is ignored: refuted.                                *)
NoBlockerMerged == pc = "merge" => seen.open = 0
=============================================================================
