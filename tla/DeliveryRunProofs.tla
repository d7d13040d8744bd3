--------------------------- MODULE DeliveryRunProofs ---------------------------
(***************************************************************************)
(* Proofs about DeliveryRun, for every list of phases, every bound of the  *)
(* loops and every number of launches: what a --resume may rely on after   *)
(* a stop between any two calls.                                           *)
(***************************************************************************)
EXTENDS DeliveryRun, TLAPS

Labels == {"off", "setup", "phase", "tests", "patch", "agent", "gates", "commit", "push",
           "pr", "ci", "confirm", "merge", "tidy", "record", "verify"}
Locals == [for : AgentPhases \cup {"none", "ci"}, nudged : BOOLEAN, attempt : Nat,
           left : Nat, polls : Nat, nones : Nat, review : Nat \cup {None}]
Repo == [on : {"base", "branch"}, base : Content, head : Content \cup {None},
         root : Content, tree : Content]
Hub == [branch : Content \cup {None}, pr : BOOLEAN, shown : Content \cup {None},
        ci : {"none", "pending", "success", "failure"}, main : Content,
        issue : {"OPEN", "CLOSED"}, merges : Seq(Content)]
Seen == [red : SUBSET Content, reviewed : Nat, open : Nat, unrecorded : BOOLEAN,
         refused : BOOLEAN]

(* The process works on an agent phase; it is past the gates and before    *)
(* the merge.                                                              *)
InPhase == pc \in {"tests", "patch"} \/ (pc = "agent" /\ loop.for # "ci")
Merging == pc \in {"commit", "push", "pr", "ci", "confirm", "merge"}
           \/ (pc = "agent" /\ loop.for = "ci")

(* Types, and what the labels say of the process and of the checkout.      *)
TypeOK ==
  /\ disk \in State \cup {None} /\ mem \in State \cup {None}
  /\ pc \in Labels /\ (pc = "off" <=> mem = None)
  /\ loop \in Locals
  /\ pc = "agent" => loop.for # "none"
  /\ repo \in Repo /\ (repo.on = "branch" => repo.head \in Content)
  /\ (repo.on = "base" => repo.head = None)
  /\ hub \in Hub /\ (hub.ci # "none" => hub.pr)
  /\ hub.pr => hub.branch \in Content /\ hub.shown \in Content
  /\ pc \in {"pr", "ci", "confirm", "merge"} \/ (pc = "agent" /\ loop.for = "ci") =>
       repo.on = "branch" /\ hub.branch \in Content
  /\ launches \in Nat /\ edits \in 0 .. MaxEdits
  /\ seen \in Seen

(* The merge comes last.                                                   *)
AllDone(st) == "setup" \in st.done /\ \A i \in DOMAIN Phases : Phases[i] \in st.done
MergeLast ==
  /\ mem # None /\ "merge" \in mem.done => AllDone(mem)
  /\ disk # None /\ "merge" \in disk.done => AllDone(disk)
  /\ pc \notin {"off", "setup"} => "setup" \in mem.done
  /\ InPhase => "merge" \notin mem.done
  /\ Merging => "merge" \notin mem.done
  /\ Merging \/ pc \in {"gates", "tidy", "record"} => AllDone(mem)

(* A merge is recorded, or about to be, and the process knows it.          *)
MergeKnown ==
  seen.unrecorded \/
    /\ Len(hub.merges) <= 1
    /\ Len(hub.merges) = 1 => pc \in {"tidy", "record"} \/ Recorded(disk)
    /\ pc \in {"tidy", "record"} => Len(hub.merges) = 1
    /\ mem # None /\ Recorded(disk) => "merge" \in mem.done

(* The operator's work stays in the tree of a run that has not started.    *)
ForeignWorkAside ==
  seen.refused \/
    /\ 0 \notin repo.base \cup hub.main
    /\ repo.head # None => 0 \notin repo.head
    /\ hub.branch # None => 0 \notin hub.branch
    /\ 0 \in repo.tree => pc = "off" /\ disk = None /\ repo.on = "base"

(* A content whose checks were seen failing is that of the branch, shown   *)
(* with checks that still fail, or less than what is built on it; the one  *)
(* that is shown is never more than the branch.                            *)
RedBehind ==
  /\ repo.on = "branch" => repo.head \subseteq repo.tree
  /\ repo.on = "base" => hub.branch = None
  /\ hub.branch # None => hub.branch \subseteq repo.head
  /\ hub.pr => hub.shown \subseteq hub.branch
  /\ pc \in {"ci", "confirm", "merge"} \/ (pc = "agent" /\ loop.for = "ci") => hub.pr
  /\ pc = "tidy" => hub.branch = None
  /\ \A c \in seen.red :
       /\ hub.branch # None => c \subseteq hub.branch
       /\ c = hub.branch => /\ hub.pr /\ hub.shown = hub.branch /\ hub.ci = "failure"
                            /\ pc \notin {"confirm", "merge"}
       /\ hub.branch = None => c \subseteq hub.main /\ c # hub.main
       /\ hub.branch = None /\ repo.on = "branch" => c \subseteq repo.head /\ c # repo.head

(* What state.json and the process keep of the last review.                *)
Keeps(st) == st # None => st.found = IF "review" \in st.done THEN seen.reviewed ELSE 0
ReviewKept ==
  /\ Keeps(mem) /\ Keeps(disk)
  /\ mem # None /\ disk # None => disk.done \subseteq mem.done
  /\ loop.review # None => /\ pc # "off" /\ loop.review = seen.reviewed
                           /\ "review" \in mem.done
  /\ pc = "agent" /\ loop.for = "review" =>
       "review" \notin mem.done /\ \E i \in DOMAIN Phases : Phases[i] = "review"
  /\ (\A i \in DOMAIN Phases : Phases[i] # "review") => seen.reviewed = 0

IInv == TypeOK /\ MergeLast /\ MergeKnown /\ ForeignWorkAside /\ RedBehind /\ ReviewKept

-----------------------------------------------------------------------------
(***************************************************************************)
(* Types.                                                                  *)
(***************************************************************************)

LEMMA PhaseIsAgents == \A i \in DOMAIN Phases : Phases[i] \in AgentPhases
  BY PhasesAssumption

LEMMA BlockersAreCounted == \A n \in 0 .. MaxBlockers : n \in Nat
  BY NumbersAssumption

LEMMA FreshState == Fresh \in State /\ NoLocals \in Locals
  BY DEF Fresh, State, NoLocals, Locals

(* What save() and the end of a phase make of memory and disk.             *)
Added(st, phase) == [st EXCEPT !.done = @ \cup {phase}]

LEMMA AddDone ==
  ASSUME NEW st \in State, NEW phase \in AgentPhases \cup {"setup", "merge"}
  PROVE  /\ Added(st, phase) \in State
         /\ Added(st, phase).done = st.done \cup {phase}
         /\ Added(st, phase).found = st.found
  BY DEF State, Added

LEMMA SetFound ==
  ASSUME NEW st \in State, NEW n \in Nat
  PROVE  /\ [st EXCEPT !.found = n] \in State
         /\ [st EXCEPT !.found = n].done = st.done /\ [st EXCEPT !.found = n].found = n
  BY DEF State

LEMMA SaveFacts ==
  ASSUME NEW st, Save(st)
  PROVE  mem' = st /\ disk' \in {st, disk, None}
  BY DEF Save

LEMMA FinishFacts ==
  ASSUME NEW phase \in AgentPhases, NEW st \in State, Finish(phase, st)
  PROVE  /\ mem' \in State /\ mem'.done = st.done \cup {phase} /\ mem'.found = st.found
         /\ disk' \in {mem', disk, None}
         /\ pc' = "phase"
<1>1. Save(Added(st, phase)) /\ pc' = "phase"
  BY DEF Finish, Continue, Added
<1> QED
  BY <1>1, SaveFacts, AddDone

LEMMA AskFacts ==
  ASSUME NEW l \in Locals, NEW f \in AgentPhases \cup {"ci"}, Ask(f, l)
  PROVE  loop' \in Locals /\ loop'.for = f /\ loop'.review = l.review /\ pc' = "agent"
  BY DEF Ask, Continue, Locals

LEMMA SetLocals ==
  ASSUME NEW l \in Locals, NEW n \in Nat
  PROVE  /\ [l EXCEPT !.nudged = TRUE] \in Locals
         /\ [l EXCEPT !.attempt = n] \in Locals
         /\ [l EXCEPT !.left = n] \in Locals
         /\ [l EXCEPT !.review = n] \in Locals
         /\ [l EXCEPT !.polls = n] \in Locals
         /\ [l EXCEPT !.nones = n] \in Locals
         /\ [l EXCEPT !.attempt = 0, !.left = n] \in Locals
         /\ [l EXCEPT !.attempt = 0, !.polls = 0, !.nones = 0] \in Locals
  BY DEF Locals

LEMMA Reads ==
  ASSUME TypeOK
  PROVE  /\ loop.for \in AgentPhases \cup {"none", "ci"}
         /\ loop.attempt + 1 \in Nat /\ loop.polls + 1 \in Nat /\ loop.nones + 1 \in Nat
         /\ loop.review \in Nat \cup {None}
         /\ pc # "off" => mem \in State /\ mem.found \in Nat
  BY DEF TypeOK, Locals, State

(* What GitHub does by itself leaves the process and the checkout alone,   *)
(* and what is on the branch, on main and merged.                          *)
LEMMA GitHubFacts ==
  ASSUME TypeOK, GitHub
  PROVE  /\ UNCHANGED <<disk, mem, pc, loop, repo, launches, edits>>
         /\ hub' \in Hub /\ hub.pr /\ hub'.pr /\ hub'.shown \in Content
         /\ hub'.branch = hub.branch /\ hub'.main = hub.main /\ hub'.merges = hub.merges
         /\ seen' \in Seen /\ seen'.red \subseteq seen.red
         /\ seen'.reviewed = seen.reviewed /\ seen'.unrecorded = seen.unrecorded
         /\ seen'.refused = seen.refused
<1>1. hub \in Hub /\ seen \in Seen
  BY DEF TypeOK
<1>2. hub.pr => hub.branch \in Content /\ hub.shown \in Content
  BY DEF TypeOK
<1>3. CASE HubCatchesUp
  BY <1>1, <1>2, <1>3 DEF HubCatchesUp, Hub
<1>4. CASE CiRuns
  BY <1>1, <1>2, <1>4 DEF CiRuns, Hub
<1>5. CASE CiRunsAgain
  <2>1. /\ hub' \in Hub /\ hub.pr /\ hub'.pr /\ hub'.shown \in Content
        /\ hub'.branch = hub.branch /\ hub'.main = hub.main /\ hub'.merges = hub.merges
    BY <1>1, <1>2, <1>5 DEF CiRunsAgain, Hub
  <2>2. /\ seen' \in Seen /\ seen'.red \subseteq seen.red
        /\ seen'.reviewed = seen.reviewed /\ seen'.unrecorded = seen.unrecorded
        /\ seen'.refused = seen.refused
    BY <1>1, <1>5 DEF CiRunsAgain, Seen
  <2> QED
    BY <1>5, <2>1, <2>2 DEF CiRunsAgain
<1> QED
  BY <1>3, <1>4, <1>5 DEF GitHub

(* A step takes one agent phase on, or has nothing to do with memory,      *)
(* disk and locals of a phase.                                             *)
LEMMA FindingsType == TypeOK /\ pc # "off" => Findings \in Nat
  BY Reads DEF Findings

LEMMA StateStep ==
  ASSUME TypeOK, [Next]_vars
  PROVE  /\ disk' \in State \cup {None} /\ mem' \in State \cup {None}
         /\ pc' = "off" <=> mem' = None
<1> DEFINE Goal == /\ disk' \in State \cup {None} /\ mem' \in State \cup {None}
                   /\ pc' = "off" <=> mem' = None
<1> SUFFICES Goal
  OBVIOUS
<1> USE NoneAssumption DEF TypeOK
<1>1. ASSUME NEW phase \in AgentPhases, NEW st \in State, Finish(phase, st) PROVE Goal
  BY <1>1, FinishFacts
<1>2. ASSUME Throw, disk' = disk PROVE Goal
  BY <1>2 DEF Throw
<1>3. ASSUME pc # "off", pc' # "off", UNCHANGED <<disk, mem>> PROVE Goal
  BY <1>3
<1>4. CASE Launch
  BY <1>4, FreshState DEF Launch, Throw
<1>5. CASE Setup
  <2>1. ASSUME pc = "setup", Save(Done("setup")), pc' = "phase" PROVE Goal
    BY <2>1, SaveFacts, AddDone DEF Done, Added
  <2> QED
    BY <1>2, <1>3, <1>5, <2>1 DEF Setup, Continue
<1>6. CASE NextPhase
  BY <1>1, <1>3, <1>6, PhaseIsAgents DEF NextPhase, TakePhase, Continue, Ask
<1>7. CASE Tests \/ Patch
  BY <1>1, <1>3, <1>7 DEF Tests, Patch, Continue, Ask, AgentPhases
<1>8. CASE PhaseReply
  BY <1>1, <1>8, Reads DEF PhaseReply
<1>9. CASE ReviewReply
  <2>1. PICK n \in 0 .. MaxBlockers : Finish("review", [mem EXCEPT !.found = n])
    BY <1>9 DEF ReviewReply
  <2>2. [mem EXCEPT !.found = n] \in State
    BY <1>9, SetFound DEF ReviewReply
  <2> QED
    BY <1>1, <2>1, <2>2 DEF AgentPhases
<1>10. CASE ResolveReply \/ PatchReply
  BY <1>1, <1>3, <1>10 DEF ResolveReply, PatchReply, Continue, AgentPhases
<1>11. CASE AgentEdits \/ Nudge
  BY <1>11 DEF AgentEdits, Nudge
<1>12. CASE AgentFails \/ CiFixReply
  BY <1>2, <1>3, <1>12 DEF AgentFails, CiFixReply, Continue
<1>13. CASE Gates \/ Commit \/ Push
  BY <1>2, <1>3, <1>13 DEF Gates, Commit, Push, Continue
<1>14. CASE OpenPr
  BY <1>2, <1>14, SaveFacts DEF OpenPr, Continue
<1>15. CASE CiPoll
  BY <1>2, <1>3, <1>15 DEF CiPoll, CiNone, CiPending, CiFailure, Continue, Ask
<1>16. CASE Confirm \/ Merge \/ Tidy
  BY <1>2, <1>3, <1>16 DEF Confirm, Merge, Tidy, Continue
<1>17. CASE Record
  <2>1. Save(Added(mem, "merge")) /\ pc' = "verify" /\ mem \in State
    BY <1>17 DEF Record, Done, Added, Continue
  <2> QED
    BY <2>1, SaveFacts, AddDone
<1>18. CASE Verify \/ Crash
  BY <1>2, <1>18 DEF Verify, Crash
<1>19. CASE GitHub
  BY <1>19, GitHubFacts
<1>20. CASE UNCHANGED vars
  BY <1>20 DEF vars
<1> QED
  BY <1>4, <1>5, <1>6, <1>7, <1>8, <1>9, <1>10, <1>11, <1>12, <1>13, <1>14, <1>15, <1>16,
     <1>17, <1>18, <1>19, <1>20 DEF Next, Run, Agent

LEMMA LoopStep ==
  ASSUME TypeOK, [Next]_vars
  PROVE  loop' \in Locals /\ (pc' = "agent" => loop'.for # "none")
<1> DEFINE Goal == loop' \in Locals /\ (pc' = "agent" => loop'.for # "none")
<1> SUFFICES Goal
  OBVIOUS
<1> USE NumbersAssumption DEF TypeOK
<1>1. ASSUME NEW l \in Locals, NEW f \in AgentPhases \cup {"ci"}, Ask(f, l) PROVE Goal
  BY <1>1, AskFacts DEF AgentPhases
<1>2. ASSUME Throw PROVE Goal
  BY <1>2, FreshState DEF Throw
<1>3. ASSUME pc' # "agent", UNCHANGED loop PROVE Goal
  BY <1>3
<1>4. CASE Launch \/ Setup
  BY <1>2, <1>3, <1>4 DEF Launch, Setup, Continue
<1>5. CASE NextPhase
  <2>1. [loop EXCEPT !.attempt = 0] \in Locals
    BY SetLocals
  <2>2. Findings \in Nat
    BY <1>5, FindingsType DEF NextPhase
  <2>3. [loop EXCEPT !.attempt = 0, !.left = Findings] \in Locals
    BY <2>2, SetLocals
  <2>4. ASSUME NEW phase \in AgentPhases, TakePhase(phase) PROVE Goal
    BY <1>1, <1>3, <2>1, <2>3, <2>4 DEF TakePhase, Continue, Finish
  <2> QED
    BY <1>3, <1>5, <2>4, PhaseIsAgents DEF NextPhase, Continue
<1>6. CASE Tests
  BY <1>1, <1>3, <1>6, Reads, SetLocals DEF Tests, Continue, Finish, AgentPhases
<1>7. CASE Patch
  BY <1>1, <1>3, <1>7, Reads, SetLocals DEF Patch, Continue, Finish, AgentPhases
<1>8. CASE AgentEdits
  BY <1>8 DEF AgentEdits
<1>9. CASE Nudge
  <2>1. loop' = [loop EXCEPT !.nudged = TRUE] /\ pc = "agent"
    BY <1>9 DEF Nudge
  <2> QED
    BY <2>1 DEF Locals
<1>10. CASE AgentFails \/ PhaseReply \/ ResolveReply \/ Verify \/ Crash
  BY <1>2, <1>3, <1>10
     DEF AgentFails, PhaseReply, ResolveReply, Verify, Crash, Finish, Continue
<1>11. CASE ReviewReply
  <2>1. \A n \in 0 .. MaxBlockers : [loop EXCEPT !.review = n] \in Locals
    BY SetLocals, BlockersAreCounted
  <2>2. PICK n \in 0 .. MaxBlockers : loop' = [loop EXCEPT !.review = n]
    BY <1>11 DEF ReviewReply
  <2>3. pc' # "agent"
    BY <1>11 DEF ReviewReply, Finish, Continue
  <2> QED
    BY <2>1, <2>2, <2>3
<1>12. CASE PatchReply
  <2>1. \A n \in 0 .. MaxBlockers : [loop EXCEPT !.left = n] \in Locals
    BY SetLocals, BlockersAreCounted
  <2>2. PICK n \in 0 .. MaxBlockers : loop' = [loop EXCEPT !.left = n]
    BY <1>12 DEF PatchReply
  <2>3. pc' # "agent"
    BY <1>12 DEF PatchReply, Finish, Continue
  <2> QED
    BY <2>1, <2>2, <2>3
<1>13. CASE CiFixReply
  <2>1. [loop EXCEPT !.polls = 0] \in Locals
    BY SetLocals
  <2> QED
    BY <1>2, <1>3, <1>13, <2>1 DEF CiFixReply, Continue
<1>14. CASE Gates \/ Commit \/ Push
  BY <1>2, <1>3, <1>14 DEF Gates, Commit, Push, Continue
<1>15. CASE OpenPr
  BY <1>2, <1>15, SetLocals DEF OpenPr, Continue
<1>16. CASE CiPoll
  <2>1. CASE CiNone
    BY <2>1, Reads, SetLocals DEF CiNone, Continue
  <2>2. CASE CiPending
    BY <1>2, <2>2, Reads, SetLocals DEF CiPending, Continue
  <2>3. CASE CiFailure
    BY <1>1, <1>2, <2>3, Reads, SetLocals DEF CiFailure
  <2> QED
    BY <1>2, <1>3, <1>16, <2>1, <2>2, <2>3 DEF CiPoll, Continue
<1>17. CASE Confirm \/ Merge \/ Tidy \/ Record
  BY <1>2, <1>3, <1>17 DEF Confirm, Merge, Tidy, Record, Continue
<1>18. CASE GitHub
  BY <1>18, GitHubFacts
<1>19. CASE UNCHANGED vars
  BY <1>19 DEF vars
<1> QED
  BY <1>4, <1>5, <1>6, <1>7, <1>8, <1>9, <1>10, <1>11, <1>12, <1>13, <1>14, <1>15, <1>16,
     <1>17, <1>18, <1>19 DEF Next, Run, Agent

LEMMA RepoStep ==
  ASSUME TypeOK, [Next]_vars
  PROVE  /\ repo' \in Repo /\ (repo.on = "branch" => repo.head \in Content)'
         /\ (repo.on = "base" => repo.head = None)'
<1> DEFINE Goal(r) == /\ r \in Repo /\ (r.on = "branch" => r.head \in Content)
                      /\ (r.on = "base" => r.head = None)
<1> SUFFICES Goal(repo')
  OBVIOUS
<1>1. Goal(repo) /\ edits \in 0 .. MaxEdits /\ MaxEdits \in Nat /\ hub.main \in Content
  BY NumbersAssumption DEF TypeOK, Hub
<1>2. CASE Setup /\ repo' # repo
  <2> DEFINE top == IF repo.head = None THEN hub.main ELSE repo.head
             tree == top \cup (repo.tree \ HeadContent)
             root == IF repo.head = None THEN hub.main ELSE repo.root
  <2>1. top \in Content /\ tree \in Content /\ root \in Content
    BY <1>1 DEF Repo, Content
  <2>2. repo' = [repo EXCEPT !.on = "branch", !.head = top, !.root = root, !.tree = tree]
    BY <1>2 DEF Setup, CheckOut
  <2> HIDE DEF top, tree, root
  <2> QED
    BY <1>1, <2>1, <2>2 DEF Repo
<1>3. CASE AgentEdits
  BY <1>1, <1>3 DEF AgentEdits, Repo, Content
<1>4. CASE repo' = Committed
  BY <1>1, <1>4 DEF Committed, Repo, Content
<1>5. CASE Tidy
  BY <1>1, <1>5 DEF Tidy, Repo, Content
<1>6. CASE UNCHANGED repo
  BY <1>1, <1>6
<1> QED
  BY <1>2, <1>3, <1>4, <1>5, <1>6, GitHubFacts
     DEF Next, Run, Agent, vars, Launch, Setup, NextPhase, Tests, Patch, Nudge, AgentFails,
         PhaseReply, ReviewReply, ResolveReply, PatchReply, CiFixReply, Gates, Commit, Push,
         OpenPr, CiPoll, Confirm, Merge, Record, Verify, Crash

LEMMA HubStep ==
  ASSUME TypeOK, [Next]_vars
  PROVE  hub' \in Hub
<1>1. hub \in Hub /\ repo \in Repo
  BY DEF TypeOK
<1>2. \A head \in Content \cup {None} : Pushed(head) \in Hub
  BY <1>1 DEF Pushed, Hub
<1>3. CASE Push
  BY <1>1, <1>2, <1>3 DEF Push, Repo
<1>4. CASE CiFixReply
  <2>1. repo'.head \in Content \cup {None}
    BY RepoStep DEF Repo
  <2> QED
    BY <1>1, <1>2, <1>4, <2>1 DEF CiFixReply
<1>5. CASE OpenPr
  BY <1>1, <1>5 DEF OpenPr, Hub
<1>6. CASE Merge
  <2>1. hub.branch \in Content /\ hub.merges \in Seq(Content) /\ hub.main \in Content
    BY <1>1, <1>6 DEF Merge, TypeOK, Hub
  <2>2. Append(hub.merges, hub.branch) \in Seq(Content) /\ hub.main \cup hub.branch \in Content
    BY <2>1 DEF Content
  <2> QED
    BY <1>1, <1>6, <2>2 DEF Merge, Hub
<1>7. CASE GitHub
  BY <1>7, GitHubFacts
<1>8. CASE UNCHANGED hub
  BY <1>1, <1>8
<1> QED
  BY <1>3, <1>4, <1>5, <1>6, <1>7, <1>8
     DEF Next, Run, Agent, vars, Launch, Setup, NextPhase, Tests, Patch, AgentEdits, Nudge,
         AgentFails, PhaseReply, ReviewReply, ResolveReply, PatchReply, Gates, Commit,
         CiPoll, Confirm, Tidy, Record, Verify, Crash

LEMMA LabelStep ==
  ASSUME TypeOK, [Next]_vars
  PROVE  pc' \in Labels /\ launches' \in Nat /\ edits' \in 0 .. MaxEdits
<1>1. pc \in Labels /\ launches \in Nat /\ edits \in 0 .. MaxEdits /\ MaxEdits \in Nat
  BY NumbersAssumption DEF TypeOK
<1> USE DEF Labels, Throw, Continue
<1>2. CASE Launch
  BY <1>1, <1>2 DEF Launch
<1>3. CASE AgentEdits
  BY <1>1, <1>3 DEF AgentEdits
<1>4. CASE NextPhase
  BY <1>1, <1>4 DEF NextPhase, TakePhase, Ask, Finish
<1>5. CASE CiPoll
  BY <1>1, <1>5 DEF CiPoll, CiNone, CiPending, CiFailure, Ask
<1>6. CASE Setup \/ Tests \/ Patch \/ Gates \/ Commit \/ Push \/ OpenPr
  BY <1>1, <1>6 DEF Setup, Tests, Patch, Gates, Commit, Push, OpenPr, Ask, Finish
<1>7. CASE Confirm \/ Merge \/ Tidy \/ Record \/ Verify \/ GitHub \/ Crash
  BY <1>1, <1>7, GitHubFacts DEF Confirm, Merge, Tidy, Record, Verify, Crash
<1>8. CASE Nudge \/ AgentFails \/ PhaseReply \/ ReviewReply \/ ResolveReply \/ PatchReply \/ CiFixReply
  BY <1>1, <1>8 DEF Nudge, AgentFails, PhaseReply, ReviewReply, ResolveReply, PatchReply,
                    CiFixReply, Finish
<1>9. CASE UNCHANGED vars
  BY <1>1, <1>9 DEF vars
<1> QED
  BY <1>2, <1>3, <1>4, <1>5, <1>6, <1>7, <1>8, <1>9 DEF Next, Run, Agent

LEMMA SeenStep ==
  ASSUME TypeOK, [Next]_vars
  PROVE  seen' \in Seen
<1>1. seen \in Seen
  BY DEF TypeOK
<1> USE BlockersAreCounted DEF Seen
<1>2. CASE Launch
  BY <1>1, <1>2 DEF Launch
<1>3. CASE ReviewReply
  BY <1>1, <1>3 DEF ReviewReply
<1>4. CASE PatchReply
  BY <1>1, <1>4 DEF PatchReply
<1>5. CASE CiPoll
  <2>1. hub.ci = "failure" => hub.shown \in Content
    BY DEF TypeOK
  <2> QED
    BY <1>1, <1>5, <2>1 DEF CiPoll
<1>6. CASE Record
  BY <1>1, <1>6 DEF Record
<1>7. CASE Crash
  BY <1>1, <1>7 DEF Crash
<1>8. CASE UNCHANGED seen
  BY <1>1, <1>8
<1>9. CASE GitHub
  BY <1>9, GitHubFacts
<1> QED
  BY <1>2, <1>3, <1>4, <1>5, <1>6, <1>7, <1>8, <1>9
     DEF Next, Run, Agent, vars, Setup, NextPhase, Tests, Patch, AgentEdits, Nudge, AgentFails,
         PhaseReply, ResolveReply, CiFixReply, Gates, Commit, Push, OpenPr, Confirm, Merge,
         Tidy, Verify

(* From the push to the merge the checkout is on its branch, which GitHub  *)
(* has.                                                                    *)
Pushing == pc \in {"pr", "ci", "confirm", "merge"} \/ (pc = "agent" /\ loop.for = "ci")

LEMMA PushingStep ==
  ASSUME TypeOK, [Next]_vars, Pushing'
  PROVE  repo'.on = "branch" /\ hub'.branch \in Content
<1> DEFINE Goal == repo'.on = "branch" /\ hub'.branch \in Content
<1> SUFFICES Goal
  OBVIOUS
<1>1. Pushing => repo.on = "branch" /\ hub.branch \in Content
  BY DEF TypeOK, Pushing
<1>2. hub \in Hub /\ hub' \in Hub /\ repo \in Repo /\ repo' \in Repo
  BY HubStep, RepoStep DEF TypeOK
<1>3. ASSUME Pushing, UNCHANGED <<repo, hub>> PROVE Goal
  BY <1>1, <1>3
<1>4. \A f \in AgentPhases : f # "ci"
  BY DEF AgentPhases
<1> USE DEF Pushing, Throw, Continue
<1>5. CASE Push
  BY <1>2, <1>5, RepoStep DEF Push, Pushed, Repo, Hub, TypeOK
<1>6. CASE OpenPr
  BY <1>1, <1>2, <1>6 DEF OpenPr, Hub
<1>7. CASE CiPoll
  BY <1>3, <1>7 DEF CiPoll
<1>8. CASE CiFixReply
  <2>1. repo.on = "branch" /\ hub.branch \in Content
    BY <1>1, <1>8 DEF CiFixReply
  <2>2. CASE repo' = Committed
    <3>1. repo'.on = "branch" /\ repo'.head = repo.tree /\ repo.tree \in Content
      BY <1>2, <2>1, <2>2 DEF Committed, Repo
    <3>2. hub' = hub \/ hub' = Pushed(repo.tree)
      BY <1>8, <3>1 DEF CiFixReply
    <3> QED
      BY <1>2, <2>1, <3>1, <3>2 DEF Pushed, Hub
  <2> QED
    BY <1>3, <1>8, <2>2 DEF CiFixReply
<1>9. CASE Confirm \/ Nudge
  BY <1>3, <1>9 DEF Confirm, Nudge, TypeOK, Locals
<1>10. CASE AgentEdits
  BY <1>1, <1>2, <1>10 DEF AgentEdits, Repo
<1>11. CASE GitHub
  BY <1>1, <1>11, GitHubFacts
<1>12. CASE NextPhase
  <2>1. ASSUME NEW phase \in AgentPhases, TakePhase(phase) PROVE ~Pushing'
    <3>1. Ask(phase, loop) => loop'.for = phase /\ pc' = "agent"
      BY AskFacts DEF TypeOK
    <3> QED
      BY <1>4, <2>1, <3>1 DEF TakePhase, Finish
  <2> QED
    BY <1>12, <2>1, PhaseIsAgents DEF NextPhase
<1>13. CASE Tests \/ Patch
  <2> DEFINE l == [loop EXCEPT !.attempt = @ + 1]
  <2>1. l \in Locals
    BY Reads, SetLocals DEF TypeOK
  <2>2. ASSUME NEW f \in AgentPhases, Ask(f, l) PROVE loop'.for = f /\ pc' = "agent"
    BY <2>1, <2>2, AskFacts
  <2> HIDE DEF l
  <2>3. "resolve" \in AgentPhases /\ "patch" \in AgentPhases
    BY DEF AgentPhases
  <2> QED
    BY <1>4, <1>13, <2>2, <2>3 DEF Tests, Patch, Finish, l
<1>17. CASE Launch \/ Setup \/ AgentFails \/ PhaseReply
  BY <1>17 DEF Launch, Setup, AgentFails, PhaseReply, Finish
<1>14. CASE ReviewReply \/ ResolveReply \/ PatchReply \/ Gates \/ Commit
  BY <1>14 DEF ReviewReply, ResolveReply, PatchReply, Gates, Commit, Finish
<1>15. CASE Merge \/ Tidy \/ Record \/ Verify \/ Crash
  BY <1>15 DEF Merge, Tidy, Record, Verify, Crash
<1>16. CASE UNCHANGED vars
  BY <1>3, <1>16 DEF vars
<1> QED
  BY <1>5, <1>6, <1>7, <1>8, <1>9, <1>10, <1>11, <1>12, <1>13, <1>14, <1>15, <1>16, <1>17
     DEF Next, Run, Agent

(* Checks belong to a pull request, which shows a content.                 *)
ShowsContent(h) == /\ h.ci # "none" => h.pr
                   /\ h.pr => h.branch \in Content /\ h.shown \in Content

LEMMA ShowsStep ==
  ASSUME TypeOK, [Next]_vars
  PROVE  ShowsContent(hub')
<1>1. hub \in Hub /\ repo \in Repo /\ ShowsContent(hub)
  BY DEF TypeOK, ShowsContent
<1>2. \A head \in Content : ShowsContent(Pushed(head))
  BY <1>1 DEF Pushed, Hub, ShowsContent
<1>3. CASE Push
  BY <1>1, <1>2, <1>3 DEF Push, Repo
<1>4. CASE CiFixReply
  <2>1. CASE hub' = Pushed(repo'.head) /\ repo' = Committed
    <3>1. repo.on = "branch"
      BY <1>4 DEF CiFixReply, TypeOK
    <3>2. repo'.head \in Content
      BY <1>1, <2>1, <3>1 DEF Committed, Repo
    <3> QED
      BY <1>2, <2>1, <3>2
  <2> QED
    BY <1>1, <1>4, <2>1 DEF CiFixReply
<1>5. CASE OpenPr
  <2>1. hub.branch \in Content
    BY <1>5 DEF OpenPr, TypeOK
  <2> QED
    BY <1>1, <1>5, <2>1 DEF OpenPr, Hub, ShowsContent
<1>6. CASE Merge
  BY <1>1, <1>6 DEF Merge, Hub, ShowsContent
<1>7. CASE GitHub
  BY <1>1, <1>7, GitHubFacts DEF ShowsContent, TypeOK
<1>8. CASE UNCHANGED hub
  BY <1>1, <1>8
<1> QED
  BY <1>3, <1>4, <1>5, <1>6, <1>7, <1>8
     DEF Next, Run, Agent, vars, Launch, Setup, NextPhase, Tests, Patch, AgentEdits, Nudge,
         AgentFails, PhaseReply, ReviewReply, ResolveReply, PatchReply, Gates, Commit,
         CiPoll, Confirm, Tidy, Record, Verify, Crash

LEMMA TypeStep == TypeOK /\ [Next]_vars => TypeOK'
  BY StateStep, LoopStep, RepoStep, HubStep, LabelStep, SeenStep, PushingStep, ShowsStep
     DEF TypeOK, Pushing, ShowsContent

-----------------------------------------------------------------------------
(***************************************************************************)
(* The merge is the last thing recorded.                                   *)
(***************************************************************************)

MergeIsLast(st) == st # None /\ "merge" \in st.done => AllDone(st)

LEMMA PhaseNames ==
  \A f \in AgentPhases : f \notin {"merge", "setup", "ci", "none"}
  BY DEF AgentPhases

LEMMA MergeLastStep == TypeOK /\ MergeLast /\ [Next]_vars => MergeLast'
<1> SUFFICES ASSUME TypeOK, MergeLast, [Next]_vars PROVE MergeLast'
  OBVIOUS
<1> DEFINE Kept == MergeIsLast(mem') /\ MergeIsLast(disk')
<1>1. MergeIsLast(mem) /\ MergeIsLast(disk) /\ MergeIsLast(None)
  BY DEF MergeLast, MergeIsLast
<1>2. ASSUME Kept, pc' \notin {"off", "setup"} => "setup" \in mem'.done,
             InPhase' \/ Merging' => "merge" \notin mem'.done,
             Merging' \/ pc' \in {"gates", "tidy", "record"} => AllDone(mem')
      PROVE  MergeLast'
  BY <1>2 DEF MergeLast, MergeIsLast, AllDone
<1>3. ASSUME Throw, UNCHANGED disk PROVE Kept /\ pc' = "off"
  BY <1>1, <1>3 DEF Throw
<1>4. pc # "off" => mem \in State /\ mem # None
  BY NoneAssumption DEF TypeOK
<1>5. ASSUME NEW phase \in AgentPhases, NEW st \in State, Finish(phase, st),
             "merge" \notin st.done, "setup" \in st.done
      PROVE  MergeLast'
  <2>1. /\ mem'.done = st.done \cup {phase} /\ disk' \in {mem', disk, None}
        /\ pc' = "phase"
    BY <1>5, FinishFacts
  <2>2. "merge" \notin mem'.done /\ "setup" \in mem'.done
    BY <1>5, <2>1, PhaseNames
  <2>3. Kept
    BY <1>1, <2>1, <2>2 DEF MergeIsLast
  <2> QED
    BY <1>2, <2>1, <2>2, <2>3 DEF InPhase, Merging
<1>6. ASSUME UNCHANGED <<disk, mem>> PROVE Kept
  BY <1>1, <1>6
<1>7. ASSUME UNCHANGED <<disk, mem, pc>>, loop'.for = loop.for PROVE MergeLast'
  BY <1>7 DEF MergeLast, InPhase, Merging, AllDone
<1>8. CASE Launch
  <2>1. MergeIsLast(Fresh)
    BY DEF MergeIsLast, Fresh
  <2>2. Kept /\ pc' \in {"off", "setup"}
    BY <1>1, <1>8, <2>1 DEF Launch, Throw
  <2> QED
    BY <1>2, <2>2 DEF InPhase, Merging
<1>9. CASE Setup
  <2>1. ASSUME "setup" \notin mem.done, Save(Added(mem, "setup")), pc = "setup", pc' = "phase"
        PROVE  MergeLast'
    <3>1. mem'.done = mem.done \cup {"setup"} /\ disk' \in {mem', disk, None}
      BY <1>4, <2>1, SaveFacts, AddDone
    <3>2. "merge" \notin mem.done
      BY <1>1, <1>4, <2>1 DEF MergeIsLast, AllDone
    <3> QED
      BY <1>1, <1>2, <2>1, <3>1, <3>2 DEF MergeIsLast, InPhase, Merging
  <2> QED
    BY <1>2, <1>3, <1>6, <1>9, <2>1 DEF Setup, Continue, Done, Added, InPhase, Merging
<1>10. CASE NextPhase
  <2>1. pc = "phase" /\ "setup" \in mem.done /\ mem \in State
    BY <1>4, <1>10 DEF NextPhase, MergeLast
  <2>2. ASSUME NEW i \in DOMAIN Phases, Phases[i] \notin mem.done, TakePhase(Phases[i])
        PROVE  MergeLast'
    <3>1. "merge" \notin mem.done /\ Phases[i] \in AgentPhases
      BY <1>1, <1>4, <2>1, <2>2, PhaseIsAgents DEF MergeIsLast, AllDone
    <3>2. CASE Finish(Phases[i], mem)
      BY <1>5, <2>1, <3>1, <3>2
    <3>3. CASE Ask(Phases[i], loop) /\ UNCHANGED <<disk, mem>>
      <4>1. loop'.for = Phases[i] /\ pc' = "agent"
        BY <3>1, <3>3, AskFacts DEF TypeOK
      <4> QED
        BY <1>2, <1>6, <2>1, <3>1, <3>3, <4>1, PhaseNames DEF InPhase, Merging
    <3>4. CASE pc' \in {"tests", "patch"} /\ UNCHANGED <<disk, mem>>
      BY <1>2, <1>6, <2>1, <3>1, <3>4 DEF InPhase, Merging
    <3> QED
      BY <2>2, <3>2, <3>3, <3>4 DEF TakePhase, Continue
  <2>3. CASE pc' = "gates" /\ UNCHANGED <<disk, mem>> /\ \A i \in DOMAIN Phases : Phases[i] \in mem.done
    BY <1>2, <1>6, <2>1, <2>3 DEF AllDone, InPhase, Merging
  <2> QED
    BY <1>10, <2>2, <2>3 DEF NextPhase, NextUp, Continue
<1>11. CASE InPhase /\ (Tests \/ Patch \/ Agent)
  <2>1. "merge" \notin mem.done /\ "setup" \in mem.done /\ mem \in State /\ loop \in Locals
    BY <1>4, <1>11 DEF MergeLast, InPhase, TypeOK
  <2>2. ASSUME pc' = "off", Throw, UNCHANGED disk PROVE MergeLast'
    BY <1>2, <1>3, <2>2 DEF InPhase, Merging
  <2>3. ASSUME NEW f \in AgentPhases, NEW l \in Locals, Ask(f, l), UNCHANGED <<disk, mem>>
        PROVE  MergeLast'
    BY <1>2, <1>6, <2>1, <2>3, AskFacts, PhaseNames DEF InPhase, Merging
  <2>4. ASSUME pc' \in {"tests", "patch"}, UNCHANGED <<disk, mem>> PROVE MergeLast'
    BY <1>2, <1>6, <2>1, <2>4 DEF InPhase, Merging
  <2>5. {"resolve", "patch", "review"} \subseteq AgentPhases
    BY DEF AgentPhases
  <2>6. CASE Tests \/ Patch
    <3>1. [loop EXCEPT !.attempt = @ + 1] \in Locals
      BY Reads, SetLocals DEF TypeOK
    <3> QED
      BY <1>5, <2>1, <2>3, <2>5, <2>6, <3>1 DEF Tests, Patch
  <2>7. CASE AgentEdits \/ Nudge
    BY <1>7, <2>1, <2>7 DEF AgentEdits, Nudge, Locals
  <2>8. CASE AgentFails
    BY <2>2, <2>8 DEF AgentFails, Throw
  <2>9. CASE PhaseReply
    BY <1>5, <2>1, <2>9, Reads DEF PhaseReply, TypeOK
  <2>10. CASE ReviewReply
    <3>1. PICK n \in 0 .. MaxBlockers : Finish("review", [mem EXCEPT !.found = n])
      BY <2>10 DEF ReviewReply
    <3>2. [mem EXCEPT !.found = n] \in State /\ [mem EXCEPT !.found = n].done = mem.done
      BY <2>1, SetFound, BlockersAreCounted
    <3> QED
      BY <1>5, <2>1, <2>5, <3>1, <3>2
  <2>11. CASE ResolveReply \/ PatchReply
    BY <1>5, <2>1, <2>4, <2>5, <2>11 DEF ResolveReply, PatchReply, Continue
  <2> QED
    BY <1>11, <2>6, <2>7, <2>8, <2>9, <2>10, <2>11 DEF Agent, CiFixReply, InPhase
<1>12. CASE Merging /\ UNCHANGED <<disk, mem>> /\ (Merging' \/ pc' = "tidy")
  BY <1>2, <1>6, <1>12 DEF MergeLast, InPhase, Merging
<1>13. CASE Throw /\ UNCHANGED disk
  BY <1>2, <1>3, <1>13 DEF InPhase, Merging
<1>14. CASE OpenPr
  BY <1>1, <1>2, <1>13, <1>14, SaveFacts DEF OpenPr, Continue, MergeLast, InPhase, Merging
<1>15. CASE Gates
  BY <1>2, <1>6, <1>13, <1>15 DEF Gates, Continue, MergeLast, InPhase, Merging
<1>16. CASE Tidy
  BY <1>2, <1>6, <1>16 DEF Tidy, Continue, MergeLast, InPhase, Merging
<1>17. CASE Record
  <2>1. mem'.done = mem.done \cup {"merge"} /\ disk' \in {mem', disk, None}
    <3>1. Save(Added(mem, "merge")) /\ mem \in State
      BY <1>4, <1>17 DEF Record, Done, Added
    <3> QED
      BY <3>1, SaveFacts, AddDone
  <2>2. AllDone(mem) /\ AllDone(mem') /\ pc' = "verify"
    BY <1>17, <2>1 DEF Record, Continue, MergeLast, AllDone
  <2> QED
    BY <1>1, <1>2, <2>1, <2>2 DEF MergeIsLast, InPhase, Merging, AllDone
<1>18. CASE UNCHANGED <<disk, mem, pc, loop>>
  BY <1>7, <1>18
<1>19. CASE Merging /\ (Agent \/ Commit \/ Push \/ CiPoll \/ Confirm \/ Merge)
  <2>1. "merge" \notin mem.done /\ loop \in Locals
    BY <1>19 DEF MergeLast, TypeOK
  <2>2. CASE AgentEdits \/ Nudge
    BY <1>7, <2>1, <2>2 DEF AgentEdits, Nudge, Locals
  <2>3. CASE AgentFails
    BY <1>13, <2>3 DEF AgentFails
  <2>4. CASE CiFixReply
    BY <1>7, <1>12, <1>13, <1>19, <2>4 DEF CiFixReply, Continue, Merging
  <2>5. CASE Commit \/ Push \/ Confirm \/ Merge
    BY <1>12, <1>13, <1>19, <2>5 DEF Commit, Push, Confirm, Merge, Continue, Merging
  <2>6. CASE CiPoll
    <3>1. ASSUME NEW l \in Locals, Ask("ci", l) PROVE Merging'
      BY <3>1, AskFacts DEF Merging
    <3>2. [loop EXCEPT !.attempt = @ + 1] \in Locals
      BY Reads, SetLocals DEF TypeOK
    <3>3. CASE CiFailure
      BY <1>12, <1>13, <1>19, <2>6, <3>1, <3>2, <3>3 DEF CiPoll, CiFailure
    <3> QED
      BY <1>12, <1>13, <1>19, <2>6, <3>3
         DEF CiPoll, CiNone, CiPending, Continue, Merging
  <2>7. ~(PhaseReply \/ ReviewReply \/ ResolveReply \/ PatchReply)
    BY <1>19 DEF Merging, PhaseReply, ReviewReply, ResolveReply, PatchReply
  <2> QED
    BY <1>19, <2>2, <2>3, <2>4, <2>5, <2>6, <2>7 DEF Agent
<1>20. Agent => InPhase \/ Merging
  BY DEF Agent, AgentEdits, Nudge, AgentFails, PhaseReply, ReviewReply, ResolveReply,
         PatchReply, CiFixReply, InPhase, Merging
<1>21. /\ Tests \/ Patch => InPhase
       /\ Commit \/ Push \/ CiPoll \/ Confirm \/ Merge => Merging
  BY DEF Tests, Patch, Commit, Push, CiPoll, Confirm, Merge, InPhase, Merging
<1>22. Verify \/ Crash => Throw /\ UNCHANGED disk
  BY DEF Verify, Crash
<1>23. GitHub \/ UNCHANGED vars => UNCHANGED <<disk, mem, pc, loop>>
  BY GitHubFacts DEF vars
<1> QED
  BY <1>8, <1>9, <1>10, <1>11, <1>13, <1>14, <1>15, <1>16, <1>17, <1>18, <1>19, <1>20, <1>21,
     <1>22, <1>23 DEF Next, Run

-----------------------------------------------------------------------------
(***************************************************************************)
(* One merge.                                                              *)
(***************************************************************************)

(* What state.json says after a save() of st, when it said less before.    *)
LEMMA RecordedStep ==
  ASSUME NEW st, NEW d, d \in {st, disk, None}, Recorded(d)
  PROVE  Recorded(st) \/ Recorded(disk)
  BY DEF Recorded

LEMMA MergeKnownStep == TypeOK /\ MergeLast /\ MergeKnown /\ [Next]_vars => MergeKnown'
<1> SUFFICES ASSUME TypeOK, MergeLast, MergeKnown, [Next]_vars, ~seen'.unrecorded
             PROVE  /\ Len(hub'.merges) <= 1
                    /\ Len(hub'.merges) = 1 => pc' \in {"tidy", "record"} \/ Recorded(disk')
                    /\ pc' \in {"tidy", "record"} => Len(hub'.merges) = 1
                    /\ mem' # None /\ Recorded(disk') => "merge" \in mem'.done
  BY DEF MergeKnown, Recorded
<1> DEFINE Goal == /\ Len(hub'.merges) <= 1
                   /\ Len(hub'.merges) = 1 => pc' \in {"tidy", "record"} \/ Recorded(disk')
                   /\ pc' \in {"tidy", "record"} => Len(hub'.merges) = 1
                   /\ mem' # None /\ Recorded(disk') => "merge" \in mem'.done
<1> SUFFICES Goal
  OBVIOUS
<1>1. ~seen.unrecorded
  BY GitHubFacts
     DEF Next, Run, Agent, vars, Launch, Setup, NextPhase, Tests, Patch, AgentEdits, Nudge,
         AgentFails, PhaseReply, ReviewReply, ResolveReply, PatchReply, CiFixReply, Gates,
         Commit, Push, OpenPr, CiPoll, Confirm, Merge, Tidy, Record, Verify, Crash,
         TypeOK, Seen
<1>2. /\ Len(hub.merges) <= 1
      /\ Len(hub.merges) = 1 => pc \in {"tidy", "record"} \/ Recorded(disk)
      /\ pc \in {"tidy", "record"} => Len(hub.merges) = 1
      /\ mem # None /\ Recorded(disk) => "merge" \in mem.done
      /\ Len(hub.merges) \in Nat
  BY <1>1 DEF MergeKnown, TypeOK, Hub
<1>3. pc # "off" => mem \in State /\ mem # None
  BY NoneAssumption DEF TypeOK
<1>4. pc \notin {"off", "tidy", "record"} /\ "merge" \notin mem.done =>
        Len(hub.merges) = 0 /\ ~Recorded(disk)
  <2> SUFFICES ASSUME pc \notin {"off", "tidy", "record"}, "merge" \notin mem.done
               PROVE  Len(hub.merges) = 0 /\ ~Recorded(disk)
    OBVIOUS
  <2>1. ~Recorded(disk)
    BY <1>2, <1>3
  <2>2. Len(hub.merges) # 1
    BY <1>2, <2>1
  <2>3. \A n \in Nat : n <= 1 /\ n # 1 => n = 0
    OBVIOUS
  <2> QED
    BY <1>2, <2>1, <2>2, <2>3
<1>5. ASSUME Throw, UNCHANGED disk, hub'.merges = hub.merges, pc \notin {"tidy", "record"}
      PROVE  Goal
  BY <1>2, <1>5 DEF Throw, Recorded
<1>6. ASSUME NEW phase \in AgentPhases, NEW st \in State, Finish(phase, st), UNCHANGED hub,
             "merge" \notin st.done, "merge" \notin mem.done, pc \notin {"off", "tidy", "record"}
      PROVE  Goal
  <2>1. /\ mem'.done = st.done \cup {phase} /\ disk' \in {mem', disk, None}
        /\ pc' = "phase"
    BY <1>6, FinishFacts
  <2>2. Len(hub'.merges) = 0 /\ ~Recorded(disk)
    BY <1>4, <1>6
  <2>3. ~Recorded(disk')
    BY <1>6, <2>1, <2>2, PhaseNames DEF Recorded
  <2> QED
    BY <2>1, <2>2, <2>3
<1>7. ASSUME UNCHANGED <<disk, mem, hub>>, pc \in {"tidy", "record"} <=> pc' \in {"tidy", "record"}
      PROVE  Goal
  BY <1>2, <1>7 DEF Recorded
<1>8. CASE Launch
  <2>1. seen'.unrecorded = (seen.unrecorded \/ (Recorded(disk) /\ disk' = None))
    BY <1>8 DEF Launch, TypeOK, Seen
  <2>2. disk' = None => ~Recorded(disk)
    BY <2>1
  <2>3. CASE disk = None
    BY <1>2, <1>8, <2>3 DEF Launch, Throw, Recorded, Fresh
  <2>4. CASE disk # None
    <3>1. disk' \in {disk, None} /\ mem' = disk /\ pc' = "setup" /\ pc = "off" /\ hub' = hub
      BY <1>8, <2>4 DEF Launch
    <3> QED
      BY <1>2, <2>2, <2>4, <3>1 DEF Recorded
  <2> QED
    BY <2>3, <2>4
<1>9. CASE Setup
  <2>1. ASSUME "setup" \notin mem.done, Save(Added(mem, "setup")), pc = "setup", pc' = "phase",
               UNCHANGED hub
        PROVE  Goal
    <3>1. mem'.done = mem.done \cup {"setup"} /\ disk' \in {mem', disk, None}
      BY <1>3, <2>1, SaveFacts, AddDone
    <3>2. "merge" \notin mem.done
      BY <1>3, <2>1 DEF MergeLast, AllDone
    <3>3. Len(hub'.merges) = 0 /\ ~Recorded(disk')
      BY <1>4, <2>1, <3>1, <3>2 DEF Recorded
    <3> QED
      BY <2>1, <3>3
  <2> QED
    BY <1>5, <1>7, <1>9, <2>1 DEF Setup, Continue, Done, Added
<1>10. CASE NextPhase
  <2>1. ASSUME NEW i \in DOMAIN Phases, Phases[i] \notin mem.done, Finish(Phases[i], mem)
        PROVE  Goal
    <3>1. "merge" \notin mem.done /\ Phases[i] \in AgentPhases /\ mem \in State
      BY <1>3, <1>10, <2>1, PhaseIsAgents DEF MergeLast, AllDone, NextPhase
    <3> QED
      BY <1>6, <1>10, <2>1, <3>1 DEF NextPhase
  <2> QED
    BY <1>7, <1>10, <2>1 DEF NextPhase, NextUp, TakePhase, Continue, Ask
<1>11. CASE InPhase /\ (Tests \/ Patch \/ Agent)
  <2>1. "merge" \notin mem.done /\ mem \in State
    BY <1>3, <1>11 DEF MergeLast, InPhase
  <2>2. {"resolve", "patch", "review"} \subseteq AgentPhases
    BY DEF AgentPhases
  <2>3. CASE Tests \/ Patch
    BY <1>6, <1>7, <2>1, <2>2, <2>3 DEF Tests, Patch, Ask, Continue
  <2>4. CASE AgentEdits \/ Nudge
    BY <1>7, <2>4 DEF AgentEdits, Nudge
  <2>5. CASE AgentFails
    BY <1>5, <2>5 DEF AgentFails
  <2>6. CASE PhaseReply
    BY <1>6, <2>1, <2>6, Reads DEF PhaseReply, TypeOK
  <2>7. CASE ReviewReply
    <3>1. PICK n \in 0 .. MaxBlockers : Finish("review", [mem EXCEPT !.found = n])
      BY <2>7 DEF ReviewReply
    <3>2. [mem EXCEPT !.found = n] \in State /\ [mem EXCEPT !.found = n].done = mem.done
      BY <2>1, SetFound, BlockersAreCounted
    <3> QED
      BY <1>6, <2>1, <2>2, <2>7, <3>1, <3>2 DEF ReviewReply
  <2>8. CASE ResolveReply \/ PatchReply
    BY <1>6, <1>7, <2>1, <2>2, <2>8 DEF ResolveReply, PatchReply, Continue
  <2> QED
    BY <1>11, <2>3, <2>4, <2>5, <2>6, <2>7, <2>8 DEF Agent, CiFixReply, InPhase
<1>12. CASE Merging /\ (Agent \/ Commit \/ Push \/ OpenPr \/ CiPoll \/ Confirm)
  <2>1. Len(hub.merges) = 0 /\ ~Recorded(disk) /\ mem \in State /\ "merge" \notin mem.done
    BY <1>3, <1>4, <1>12 DEF MergeLast, Merging
  <2>2. \A head : Pushed(head).merges = hub.merges
    BY DEF Pushed, TypeOK, Hub
  <2>3. hub'.merges = hub.merges
    <3>1. CASE Push \/ CiFixReply
      BY <2>2, <3>1 DEF Push, CiFixReply
    <3>2. CASE OpenPr
      BY <3>2 DEF OpenPr, TypeOK, Hub
    <3>3. CASE UNCHANGED hub
      BY <3>3
    <3> QED
      BY <1>12, <3>1, <3>2, <3>3 DEF Agent, Commit, CiPoll, Confirm, AgentEdits, Nudge,
         AgentFails, PhaseReply, ReviewReply, ResolveReply, PatchReply
  <2>4. pc' \notin {"tidy", "record"}
    BY <1>12 DEF Agent, Commit, Push, OpenPr, CiPoll, Confirm, AgentEdits, Nudge,
       AgentFails, PhaseReply, ReviewReply, ResolveReply, PatchReply, CiFixReply, Merging,
       CiNone, CiPending, CiFailure, Ask, Throw, Continue, Finish
  <2>5. ~Recorded(disk')
    BY <1>12, <2>1, SaveFacts DEF Agent, Commit, Push, OpenPr, CiPoll, Confirm, AgentEdits,
       Nudge, AgentFails, PhaseReply, ReviewReply, ResolveReply, PatchReply, CiFixReply,
       Merging, Recorded
  <2> QED
    BY SMTT(30), <2>1, <2>3, <2>4, <2>5
<1>13. CASE Gates
  BY <1>5, <1>7, <1>13 DEF Gates, Continue
<1>14. CASE Merge
  <2>1. Len(hub.merges) = 0 /\ ~Recorded(disk) /\ hub.branch \in Content
    BY <1>4, <1>14 DEF MergeLast, Merging, Merge, TypeOK
  <2>2. CASE Throw /\ UNCHANGED hub
    BY <1>5, <1>14, <2>2 DEF Merge
  <2>3. CASE hub'.merges = Append(hub.merges, hub.branch)
    <3>1. Len(hub'.merges) = 1
      BY <2>1, <2>3 DEF TypeOK, Hub
    <3> QED
      BY <1>14, <2>1, <2>3, <3>1 DEF Merge, Continue, Throw, Recorded
  <2> QED
    BY <1>14, <2>2, <2>3 DEF Merge, TypeOK, Hub
<1>15. CASE Tidy
  BY <1>7, <1>15 DEF Tidy, Continue
<1>16. CASE Record
  <2>1. Recorded(disk') /\ pc' = "verify" /\ hub' = hub
    BY <1>16 DEF Record, Continue, TypeOK, Seen
  <2>2. mem'.done = mem.done \cup {"merge"}
    <3>1. Save(Added(mem, "merge")) /\ mem \in State
      BY <1>3, <1>16 DEF Record, Done, Added
    <3> QED
      BY <3>1, SaveFacts, AddDone
  <2> QED
    BY <1>2, <2>1, <2>2
<1>17. CASE Verify
  BY <1>5, <1>17 DEF Verify
<1>18. CASE Crash
  BY <1>5, <1>18 DEF Crash, TypeOK, Seen
<1>19. CASE GitHub
  BY <1>2, <1>19, GitHubFacts DEF Recorded
<1>20. CASE UNCHANGED vars
  BY <1>7, <1>20 DEF vars
<1>21. Agent => InPhase \/ Merging
  BY DEF Agent, AgentEdits, Nudge, AgentFails, PhaseReply, ReviewReply, ResolveReply,
         PatchReply, CiFixReply, InPhase, Merging
<1>22. /\ Tests \/ Patch => InPhase
       /\ Commit \/ Push \/ OpenPr \/ CiPoll \/ Confirm => Merging
  BY DEF Tests, Patch, Commit, Push, OpenPr, CiPoll, Confirm, InPhase, Merging
<1> QED
  BY <1>8, <1>9, <1>10, <1>11, <1>12, <1>13, <1>14, <1>15, <1>16, <1>17, <1>18, <1>19, <1>20,
     <1>21, <1>22 DEF Next, Run

LEMMA MergeInvariant == Spec => [](TypeOK /\ MergeLast /\ MergeKnown)
<1>1. Init => TypeOK /\ MergeLast /\ MergeKnown
  <2> SUFFICES ASSUME Init PROVE TypeOK /\ MergeLast /\ MergeKnown
    OBVIOUS
  <2>1. TypeOK
    <3> MaxEdits \in Nat
      BY NumbersAssumption
    <3>1. repo \in Repo /\ repo.on = "base" /\ repo.head = None
      BY DEF Init, Repo, Content
    <3>2. hub \in Hub
      BY DEF Init, Hub, Content
    <3>3. seen \in Seen
      BY DEF Init, Seen, Content
    <3> QED
      BY <3>1, <3>2, <3>3, FreshState DEF Init, TypeOK, Labels
  <2> QED
    BY <2>1 DEF Init, MergeLast, MergeKnown, InPhase, Merging, Recorded
<1> QED
  BY <1>1, TypeStep, MergeLastStep, MergeKnownStep, PTL DEF Spec

(* state.json, the memory of the process, its label, the checkout and      *)
(* GitHub keep their types, whatever dies and whatever save() loses.       *)
THEOREM DeliveryTypeOK == Spec => []TypeOK
  BY MergeInvariant, PTL

(* finalizeAndMerge and its resume guard: an issue is merged twice only    *)
(* after a stop, or a failed save(), between GitHub's merge and its        *)
(* record, however often the run stops and is launched again.              *)
THEOREM IssueIsMergedOnce == Spec => []MergedOnce
<1>1. MergeKnown => MergedOnce
  BY DEF MergeKnown, MergedOnce
<1> QED
  BY <1>1, MergeInvariant, PTL

-----------------------------------------------------------------------------
(***************************************************************************)
(* The operator's own work.                                                *)
(***************************************************************************)

(* Edit 0 is nowhere in the checkout r and on GitHub.                      *)
Clean(r, h) ==
  /\ 0 \notin r.base \cup r.tree \cup h.main
  /\ r.head # None => 0 \notin r.head
  /\ h.branch # None => 0 \notin h.branch

LEMMA CleanStep ==
  ASSUME TypeOK, Clean(repo, hub), [Next]_vars
  PROVE  Clean(repo', hub')
<1>1. repo \in Repo /\ hub \in Hub /\ edits \in Nat
  BY NumbersAssumption DEF TypeOK
<1>2. CASE Setup /\ repo' # repo
  <2> DEFINE top == IF repo.head = None THEN hub.main ELSE repo.head
             tree == top \cup (repo.tree \ HeadContent)
  <2>1. repo'.base = repo.base /\ repo'.tree = tree /\ repo'.head = top /\ hub' = hub
    BY <1>1, <1>2 DEF Setup, CheckOut, Repo
  <2>2. 0 \notin top /\ 0 \notin tree
    BY DEF Clean
  <2> QED
    BY <2>1, <2>2 DEF Clean
<1>3. CASE AgentEdits
  <2>1. /\ repo'.tree = repo.tree \cup {edits + 1} /\ repo'.base = repo.base
        /\ repo'.head = repo.head /\ hub' = hub
    BY <1>1, <1>3 DEF AgentEdits, Repo
  <2>2. 0 # edits + 1
    BY <1>1
  <2> QED
    BY <2>1, <2>2 DEF Clean
<1>4. ASSUME repo' = Committed \/ repo' = repo, hub' = hub \/ hub' = Pushed(repo'.head) PROVE Clean(repo', hub')
  <2>1. /\ repo'.base \in {repo.base, repo.tree} /\ repo'.tree = repo.tree
        /\ repo'.head \in {repo.head, repo.tree}
    BY <1>1, <1>4 DEF Committed, Repo
  <2>2. hub'.main = hub.main /\ hub'.branch \in {hub.branch, repo'.head}
    BY <1>1, <1>4 DEF Pushed, Hub
  <2> QED
    BY <2>1, <2>2 DEF Clean
<1>5. CASE OpenPr \/ GitHub
  <2>1. repo' = repo /\ hub'.main = hub.main /\ hub'.branch = hub.branch
    BY <1>1, <1>5, GitHubFacts DEF OpenPr, Hub
  <2> QED
    BY <2>1 DEF Clean
<1>6. CASE Merge
  <2>1. /\ repo' = repo
        /\ hub' = hub \/ (hub'.main = hub.main \cup hub.branch /\ hub'.branch = None)
    BY <1>1, <1>6 DEF Merge, Hub
  <2>2. hub.branch # None
    BY <1>6, NoneAssumption DEF Merge, TypeOK
  <2> QED
    BY <2>1, <2>2 DEF Clean
<1>7. CASE Tidy
  BY <1>1, <1>7 DEF Tidy, Repo, Clean
<1>8. CASE UNCHANGED <<repo, hub>>
  BY <1>8
<1> QED
  BY <1>2, <1>3, <1>4, <1>5, <1>6, <1>7, <1>8
     DEF Next, Run, Agent, vars, Launch, Setup, NextPhase, Tests, Patch, Nudge, AgentFails,
         PhaseReply, ReviewReply, ResolveReply, PatchReply, CiFixReply, Gates, Commit, Push,
         CiPoll, Confirm, Record, Verify, Crash

LEMMA ForeignWorkStep == TypeOK /\ ForeignWorkAside /\ [Next]_vars => ForeignWorkAside'
<1> SUFFICES ASSUME TypeOK, ForeignWorkAside, [Next]_vars, ~seen'.refused
             PROVE  /\ 0 \notin repo'.base \cup hub'.main
                    /\ repo'.head # None => 0 \notin repo'.head
                    /\ hub'.branch # None => 0 \notin hub'.branch
                    /\ 0 \in repo'.tree => pc' = "off" /\ disk' = None /\ repo'.on = "base"
  BY DEF ForeignWorkAside
<1>1. ~seen.refused
  BY GitHubFacts
     DEF Next, Run, Agent, vars, Launch, Setup, NextPhase, Tests, Patch, AgentEdits, Nudge,
         AgentFails, PhaseReply, ReviewReply, ResolveReply, PatchReply, CiFixReply, Gates,
         Commit, Push, OpenPr, CiPoll, Confirm, Merge, Tidy, Record, Verify, Crash,
         TypeOK, Seen
<1>2. \/ Clean(repo, hub)
      \/ pc = "off" /\ disk = None /\ repo.on = "base" /\ 0 \in repo.tree
  BY <1>1 DEF ForeignWorkAside, Clean
<1>3. CASE Clean(repo, hub)
  BY <1>3, CleanStep DEF Clean
<1>4. CASE pc = "off" /\ disk = None /\ repo.on = "base" /\ 0 \in repo.tree
  <2>1. ~Launch
    <3> SUFFICES ASSUME Launch PROVE FALSE
      OBVIOUS
    <3>1. seen'.refused = (seen.refused \/ (disk = None /\ Dirty))
      BY DEF Launch, TypeOK, Seen
    <3>2. 0 \notin repo.base
      BY <1>1 DEF ForeignWorkAside
    <3> QED
      BY <1>4, <3>1, <3>2 DEF Dirty, HeadContent
  <2>2. CASE GitHub
    BY <1>1, <1>4, <2>2, GitHubFacts DEF ForeignWorkAside
  <2>3. CASE UNCHANGED vars
    BY <1>1, <1>4, <2>3 DEF vars, ForeignWorkAside
  <2> QED
    BY <1>4, <2>1, <2>2, <2>3
       DEF Next, Run, Agent, Setup, NextPhase, Tests, Patch, AgentEdits, Nudge, AgentFails,
           PhaseReply, ReviewReply, ResolveReply, PatchReply, CiFixReply, Gates, Commit, Push,
           OpenPr, CiPoll, Confirm, Merge, Tidy, Record, Verify, Crash
<1> QED
  BY <1>2, <1>3, <1>4

(* Launch, Setup and the commits: what the operator had not committed is   *)
(* in a commit of the run only if a launch has refused the dirty tree, and *)
(* left the state.json that makes the next one take it for its own work.   *)
THEOREM OperatorsWorkIsAside == Spec => []ForeignWorkOnlyAfterRefusal
<1>1. Init => ForeignWorkAside
  BY DEF Init, ForeignWorkAside
<1>2. ForeignWorkAside => ForeignWorkOnlyAfterRefusal
  BY DEF ForeignWorkAside, ForeignWorkOnlyAfterRefusal
<1> QED
  BY <1>1, <1>2, ForeignWorkStep, DeliveryTypeOK, PTL DEF Spec

-----------------------------------------------------------------------------
(***************************************************************************)
(* The findings of the review.                                             *)
(***************************************************************************)

LEMMA ReviewKeptStep == TypeOK /\ MergeLast /\ ReviewKept /\ [Next]_vars => ReviewKept'
<1> SUFFICES ASSUME TypeOK, MergeLast, ReviewKept, [Next]_vars PROVE ReviewKept'
  OBVIOUS
<1> DEFINE Kept(st, n) == st # None => st.found = IF "review" \in st.done THEN n ELSE 0
           Unlisted == \A i \in DOMAIN Phases : Phases[i] # "review"
<1>1. /\ Kept(mem, seen.reviewed) /\ Kept(disk, seen.reviewed) /\ Kept(None, seen.reviewed)
      /\ mem # None /\ disk # None => disk.done \subseteq mem.done
      /\ loop.review # None => /\ pc # "off" /\ loop.review = seen.reviewed
                           /\ "review" \in mem.done
      /\ Unlisted => seen.reviewed = 0
      /\ loop \in Locals
  BY DEF ReviewKept, Keeps, TypeOK
<1>2. pc # "off" => mem \in State /\ mem # None
  BY NoneAssumption DEF TypeOK
(* Steps that leave the last review alone and ask for no new one.          *)
<1>3. ASSUME Kept(mem', seen.reviewed), Kept(disk', seen.reviewed),
             mem' # None /\ disk' # None => disk'.done \subseteq mem'.done,
             \/ loop'.review = None
             \/ loop'.review = loop.review /\ mem.done \subseteq mem'.done /\ pc' # "off",
             pc' = "agent" => loop'.for # "review",
             seen'.reviewed = seen.reviewed
      PROVE  ReviewKept'
  BY <1>1, <1>3 DEF ReviewKept, Keeps
<1>4. ASSUME Throw, UNCHANGED disk, seen'.reviewed = seen.reviewed PROVE ReviewKept'
  BY <1>1, <1>3, <1>4 DEF Throw, NoLocals
<1>5. ASSUME NEW phase \in AgentPhases, Finish(phase, mem), UNCHANGED seen, pc # "off",
             phase # "review", loop'.review = loop.review
      PROVE  ReviewKept'
  <2>1. /\ mem' \in State /\ mem'.done = mem.done \cup {phase} /\ mem'.found = mem.found
        /\ disk' \in {mem', disk, None} /\ pc' = "phase"
    BY <1>2, <1>5, FinishFacts
  <2>2. Kept(mem', seen.reviewed) /\ Kept(disk', seen.reviewed)
    BY <1>1, <1>2, <1>5, <2>1
  <2>3. mem' # None /\ disk' # None => disk'.done \subseteq mem'.done
    BY <1>1, <1>2, <1>5, <2>1
  <2> QED
    BY <1>3, <1>5, <2>1, <2>2, <2>3
<1>6. ASSUME UNCHANGED <<disk, mem>>, seen'.reviewed = seen.reviewed, loop'.review = loop.review,
             pc' = "agent" => loop'.for # "review", pc' # "off"
      PROVE  ReviewKept'
  BY <1>1, <1>3, <1>6
<1>7. ASSUME UNCHANGED <<disk, mem, pc, seen>>, loop'.review = loop.review, loop'.for = loop.for
      PROVE  ReviewKept'
  BY <1>7 DEF ReviewKept, Keeps
<1>8. CASE Launch
  <2>1. seen'.reviewed = seen.reviewed
    BY <1>8 DEF Launch, TypeOK, Seen
  <2>2. Kept(Fresh, seen.reviewed)
    BY DEF Fresh
  <2>3. pc' # "agent" /\ loop'.review = None
    BY <1>1, <1>8 DEF Launch, Throw, NoLocals
  <2>4. CASE mem' = None /\ disk' \in {Fresh, disk, None}
    BY <1>1, <1>3, <2>1, <2>2, <2>3, <2>4
  <2>5. CASE disk # None /\ mem' = disk /\ disk' \in {disk, None}
    BY <1>1, <1>3, <2>1, <2>3, <2>5
  <2>6. CASE mem' = Fresh /\ disk' \in {Fresh, None}
    BY <1>1, <1>3, <2>1, <2>2, <2>3, <2>6
  <2> QED
    BY <1>8, <2>4, <2>5, <2>6 DEF Launch, Throw
<1>9. CASE Setup
  <2>1. ASSUME Save(Added(mem, "setup")), pc = "setup", pc' = "phase", UNCHANGED <<loop, seen>>
        PROVE  ReviewKept'
    <3>1. /\ mem'.done = mem.done \cup {"setup"} /\ mem'.found = mem.found
          /\ disk' \in {mem', disk, None}
      BY <1>2, <2>1, SaveFacts, AddDone
    <3> QED
      BY <1>1, <1>2, <1>3, <2>1, <3>1
  <2> QED
    BY <1>4, <1>6, <1>9, <2>1 DEF Setup, Continue, Done, Added
<1>10. CASE NextPhase
  <2>1. ASSUME NEW i \in DOMAIN Phases, Phases[i] \notin mem.done, TakePhase(Phases[i])
        PROVE  ReviewKept'
    <3>1. Phases[i] \in AgentPhases /\ pc = "phase" /\ UNCHANGED seen
      BY <1>10, PhaseIsAgents DEF NextPhase
    <3>2. CASE Finish(Phases[i], mem) /\ UNCHANGED loop /\ Phases[i] \in Skippable
      BY <1>5, <3>1, <3>2 DEF Skippable
    <3>3. CASE Ask(Phases[i], loop) /\ UNCHANGED <<disk, mem>>
      <4>1. loop'.for = Phases[i] /\ pc' = "agent" /\ loop'.review = loop.review
        BY <1>1, <3>1, <3>3, AskFacts
      <4> QED
        BY <1>1, <2>1, <3>1, <3>3, <4>1 DEF ReviewKept, Keeps
    <3>4. CASE pc' \in {"tests", "patch"} /\ UNCHANGED <<disk, mem>> /\ loop'.review = loop.review
      BY <1>6, <3>1, <3>4
    <3>5. [loop EXCEPT !.attempt = 0].review = loop.review
          /\ [loop EXCEPT !.attempt = 0, !.left = Findings].review = loop.review
      BY <1>1 DEF Locals
    <3> QED
      BY <2>1, <3>2, <3>3, <3>4, <3>5 DEF TakePhase, Continue
  <2>2. CASE pc' = "gates" /\ UNCHANGED <<disk, mem, loop, seen>>
    BY <1>6, <2>2
  <2> QED
    BY <1>10, <2>1, <2>2 DEF NextPhase, NextUp, Continue
<1>11. {"resolve", "patch", "review"} \subseteq AgentPhases /\ "ci" \notin AgentPhases
  BY DEF AgentPhases
<1>12. CASE Tests \/ Patch
  <2> DEFINE l == [loop EXCEPT !.attempt = @ + 1]
  <2>1. l \in Locals /\ l.review = loop.review
    BY <1>1, Reads, SetLocals DEF Locals
  <2>2. ASSUME NEW f \in {"resolve", "patch"}, Ask(f, l), UNCHANGED <<disk, mem, seen>>
        PROVE  ReviewKept'
    BY <1>6, <1>11, <2>1, <2>2, AskFacts
  <2> QED
    BY <1>5, <1>11, <1>12, <2>2 DEF Tests, Patch
<1>13. CASE AgentEdits \/ Nudge
  BY <1>1, <1>7, <1>13 DEF AgentEdits, Nudge, Locals
<1>14. CASE AgentFails \/ Verify
  BY <1>4, <1>14 DEF AgentFails, Verify
<1>15. CASE PhaseReply
  BY <1>5, <1>15, Reads, PhaseNames DEF PhaseReply, TypeOK
<1>16. CASE ReviewReply
  <2>1. PICK n \in 0 .. MaxBlockers :
          /\ loop' = [loop EXCEPT !.review = n]
          /\ seen' = [seen EXCEPT !.reviewed = n, !.open = n]
          /\ Finish("review", [mem EXCEPT !.found = n])
    BY <1>16 DEF ReviewReply
  <2>2. /\ [mem EXCEPT !.found = n] \in State /\ [mem EXCEPT !.found = n].done = mem.done
        /\ [mem EXCEPT !.found = n].found = n
    BY <1>2, <1>16, SetFound, BlockersAreCounted DEF ReviewReply
  <2>3. /\ mem' \in State /\ mem'.done = mem.done \cup {"review"} /\ mem'.found = n
        /\ disk' \in {mem', disk, None} /\ pc' = "phase"
    BY <1>11, <2>1, <2>2, FinishFacts
  <2>4. seen'.reviewed = n /\ loop'.review = n
    BY <1>1, <2>1 DEF TypeOK, Seen, Locals
  <2>5. /\ "review" \notin mem.done /\ ~Unlisted
        /\ disk # None => "review" \notin disk.done
    BY <1>1, <1>2, <1>16 DEF ReviewReply, ReviewKept
  <2>6. Kept(mem', n) /\ Kept(disk', n)
    BY <1>1, <2>3, <2>5
  <2>7. mem' # None /\ disk' # None => disk'.done \subseteq mem'.done
    BY <1>1, <1>2, <1>16, <2>3 DEF ReviewReply
  <2> QED
    BY <2>3, <2>4, <2>5, <2>6, <2>7 DEF ReviewKept, Keeps
<1>17. CASE ResolveReply
  BY <1>5, <1>6, <1>11, <1>17 DEF ResolveReply, Continue
<1>18. CASE PatchReply
  <2>1. loop'.review = loop.review /\ seen'.reviewed = seen.reviewed
    BY <1>1, <1>18 DEF PatchReply, TypeOK, Seen, Locals
  <2>2. CASE pc' = "patch" /\ UNCHANGED <<disk, mem>>
    BY <1>6, <2>1, <2>2
  <2>3. CASE Finish("patch", mem)
    <3>1. /\ mem' \in State /\ mem'.done = mem.done \cup {"patch"} /\ mem'.found = mem.found
          /\ disk' \in {mem', disk, None} /\ pc' = "phase"
      BY <1>2, <1>11, <1>18, <2>3, FinishFacts DEF PatchReply
    <3>2. Kept(mem', seen.reviewed) /\ Kept(disk', seen.reviewed)
      BY <1>1, <1>2, <1>18, <3>1 DEF PatchReply
    <3>3. mem' # None /\ disk' # None => disk'.done \subseteq mem'.done
      BY <1>1, <1>2, <1>18, <3>1 DEF PatchReply
    <3> QED
      BY <1>3, <2>1, <3>1, <3>2, <3>3
  <2> QED
    BY <1>18, <2>2, <2>3 DEF PatchReply, Continue
<1>19. CASE CiFixReply
  <2>1. [loop EXCEPT !.polls = 0].review = loop.review
    BY <1>1 DEF Locals
  <2> QED
    BY <1>4, <1>6, <1>19, <2>1 DEF CiFixReply, Continue
<1>20. CASE Gates \/ Commit \/ Push \/ Confirm \/ Merge \/ Tidy
  BY <1>4, <1>6, <1>20 DEF Gates, Commit, Push, Confirm, Merge, Tidy, Continue
<1>21. CASE OpenPr
  <2>1. [loop EXCEPT !.attempt = 0, !.polls = 0, !.nones = 0].review = loop.review
    BY <1>1 DEF Locals
  <2>2. ASSUME Save(mem), loop'.review = loop.review, pc' = "ci", UNCHANGED seen, pc = "pr"
        PROVE  ReviewKept'
    BY <1>1, <1>2, <1>3, <2>2, SaveFacts
  <2> QED
    BY <1>4, <1>21, <2>1, <2>2 DEF OpenPr, Continue
<1>22. CASE CiPoll
  <2>1. seen'.reviewed = seen.reviewed /\ disk' = disk
    BY <1>22 DEF CiPoll, TypeOK, Seen
  <2>2. [loop EXCEPT !.attempt = @ + 1] \in Locals
    BY <1>1, Reads, SetLocals
  <2>3. /\ [loop EXCEPT !.nones = @ + 1].review = loop.review
        /\ [loop EXCEPT !.polls = @ + 1].review = loop.review
        /\ [loop EXCEPT !.attempt = @ + 1].review = loop.review
    BY <1>1 DEF Locals
  <2>4. CASE CiFailure
    <3> DEFINE l == [loop EXCEPT !.attempt = @ + 1]
    <3>1. ASSUME Ask("ci", l), UNCHANGED mem PROVE ReviewKept'
      <4>1. loop'.for = "ci" /\ loop'.review = loop.review /\ pc' = "agent"
        BY <2>2, <2>3, <3>1, AskFacts
      <4> QED
        BY <1>6, <2>1, <3>1, <4>1
    <3> QED
      BY <1>4, <2>1, <2>4, <3>1 DEF CiFailure
  <2>5. CASE CiNone \/ CiPending
    BY <1>4, <1>6, <2>1, <2>3, <2>5 DEF CiNone, CiPending, Continue
  <2> QED
    BY <1>4, <1>6, <1>22, <2>1, <2>4, <2>5 DEF CiPoll, Continue
<1>23. CASE Record
  <2>1. Save(Added(mem, "merge")) /\ mem \in State /\ pc' = "verify" /\ UNCHANGED loop
    BY <1>2, <1>23 DEF Record, Done, Added, Continue
  <2>2. /\ mem'.done = mem.done \cup {"merge"} /\ mem'.found = mem.found
        /\ disk' \in {mem', disk, None}
    BY <2>1, SaveFacts, AddDone
  <2>3. seen'.reviewed = seen.reviewed
    BY <1>23 DEF Record, TypeOK, Seen
  <2> QED
    BY <1>1, <1>2, <1>3, <1>23, <2>1, <2>2, <2>3 DEF Record
<1>24. CASE Crash
  BY <1>4, <1>24 DEF Crash, TypeOK, Seen
<1>25. CASE GitHub
  BY <1>25, GitHubFacts DEF ReviewKept, Keeps
<1>26. CASE UNCHANGED vars
  BY <1>7, <1>26 DEF vars
<1> QED
  BY <1>8, <1>9, <1>10, <1>12, <1>13, <1>14, <1>15, <1>16, <1>17, <1>18, <1>19, <1>20, <1>21,
     <1>22, <1>23, <1>24, <1>25, <1>26 DEF Next, Run, Agent

LEMMA ReviewInvariant == Spec => [](TypeOK /\ ReviewKept)
<1>1. Init => ReviewKept
  BY DEF Init, ReviewKept, Keeps, NoLocals
<1> QED
  BY <1>1, ReviewKeptStep, MergeInvariant, PTL DEF Spec

(* The order of DEFAULT_PHASES, which --phases may change.                 *)
ReviewFirst ==
  \A i, j \in DOMAIN Phases : Phases[i] = "patch" /\ Phases[j] = "review" => j < i

(* run() and findingsFromState: where the review comes before the patch,   *)
(* the patch phase gets what the last review found, from the process that  *)
(* reviewed or from state.json, after any stop and any lost save().        *)
THEOREM PatchWorksOnFindings ==
  ASSUME ReviewFirst
  PROVE  Spec => PatchGetsFindings
<1> DEFINE Given == pc = "phase" /\ pc' = "patch" => loop'.left = seen.reviewed
<1>1. TypeOK /\ ReviewKept /\ [Next]_vars => [Given]_vars
  <2> SUFFICES ASSUME TypeOK, ReviewKept, Next, pc = "phase", pc' = "patch"
               PROVE  loop'.left = seen.reviewed
    OBVIOUS
  <2>1. NextPhase
    BY GitHubFacts
       DEF Next, Run, Agent, Launch, Setup, Tests, Patch, AgentEdits, Nudge, AgentFails,
           PhaseReply, ReviewReply, ResolveReply, PatchReply, CiFixReply, Gates, Commit, Push,
           OpenPr, CiPoll, Confirm, Merge, Tidy, Record, Verify, Crash, Throw
  <2>2. PICK i \in DOMAIN Phases : NextUp(i) /\ TakePhase(Phases[i])
    BY <2>1 DEF NextPhase, Continue
  <2>3. Phases[i] = "patch" /\ loop'.left = Findings
    BY <2>2 DEF TakePhase, Ask, Finish, Continue, TypeOK, Locals
  <2>4. mem \in State /\ mem # None
    BY NoneAssumption DEF TypeOK
  <2>5. CASE "review" \in mem.done
    BY <2>3, <2>4, <2>5 DEF ReviewKept, Keeps, Findings
  <2>6. CASE "review" \notin mem.done
    <3>1. \A j \in DOMAIN Phases : Phases[j] # "review"
      <4> SUFFICES ASSUME NEW j \in DOMAIN Phases, Phases[j] = "review" PROVE FALSE
        OBVIOUS
      <4>1. j < i /\ j \in 1 .. i - 1
        BY <2>3, PhasesAssumption DEF ReviewFirst
      <4> QED
        BY <2>2, <2>6, <4>1 DEF NextUp
    <3> QED
      BY <2>3, <2>4, <2>6, <3>1 DEF ReviewKept, Keeps, Findings
  <2> QED
    BY <2>5, <2>6
<1> QED
  BY <1>1, ReviewInvariant, PTL DEF Spec, PatchGetsFindings

-----------------------------------------------------------------------------
(***************************************************************************)
(* Red contents.                                                           *)
(***************************************************************************)

(* The part of the invariant that the label does not change.               *)
Behind(r, h, red) ==
  /\ r.on = "branch" => r.head \subseteq r.tree
  /\ r.on = "base" => h.branch = None
  /\ h.branch # None => h.branch \subseteq r.head
  /\ h.pr => h.shown \subseteq h.branch
  /\ \A c \in red :
       /\ h.branch # None => c \subseteq h.branch
       /\ c = h.branch => h.pr /\ h.shown = h.branch /\ h.ci = "failure"
       /\ h.branch = None => c \subseteq h.main /\ c # h.main
       /\ h.branch = None /\ r.on = "branch" => c \subseteq r.head /\ c # r.head

(* A commit and a push keep it, with or without one another.               *)
LEMMA PushBehind ==
  ASSUME TypeOK, Behind(repo, hub, seen.red), repo.on = "branch",
         NEW r \in Repo, r.on = "branch", r.tree = repo.tree, r.head \in {repo.head, repo.tree},
         NEW h \in {hub, Pushed(r.head)}
  PROVE  Behind(r, h, seen.red)
<1> DEFINE head == r.head
<1>1. /\ hub \in Hub /\ seen.red \in SUBSET Content
      /\ repo.head \subseteq head /\ head \subseteq r.tree /\ head \in Content /\ head # None
  BY NoneAssumption DEF TypeOK, Behind, Seen, Repo
<1>2. CASE h = hub
  BY <1>1, <1>2 DEF Behind
<1>3. CASE h = Pushed(head)
  <2>1. /\ h.branch = head /\ h.main = hub.main /\ h.pr = hub.pr
        /\ h.shown = hub.shown /\ h.ci = hub.ci
    BY <1>1, <1>3 DEF Pushed, Hub
  <2>2. hub.pr => hub.branch # None /\ hub.shown \subseteq head
    BY <1>1, NoneAssumption DEF TypeOK, Behind
  <2>3. ASSUME NEW c \in seen.red
        PROVE  /\ c \subseteq head
               /\ c = head => hub.pr /\ hub.shown = head /\ hub.ci = "failure"
    BY <1>1, <2>3 DEF Behind
  <2> QED
    BY <1>1, <2>1, <2>2, <2>3 DEF Behind
<1> QED
  BY <1>2, <1>3

LEMMA RedBehindStep == TypeOK /\ RedBehind /\ [Next]_vars => RedBehind'
<1> SUFFICES ASSUME TypeOK, RedBehind, [Next]_vars PROVE RedBehind'
  OBVIOUS
<1> DEFINE Watched == pc \in {"ci", "confirm", "merge"} \/ (pc = "agent" /\ loop.for = "ci")
           Sure == pc \in {"confirm", "merge"}
<1>1. /\ Behind(repo, hub, seen.red) /\ (Watched => hub.pr)
      /\ pc = "tidy" => hub.branch = None
      /\ Sure => hub.branch \notin seen.red
      /\ repo \in Repo /\ hub \in Hub /\ seen \in Seen
  BY DEF RedBehind, Behind, TypeOK
<1>2. ASSUME Behind(repo', hub', seen'.red), Watched' => hub'.pr,
             pc' = "tidy" => hub'.branch = None, Sure' => hub'.branch \notin seen'.red
      PROVE  RedBehind'
  BY <1>2 DEF RedBehind, Behind
<1>3. ASSUME UNCHANGED <<repo, hub>>, seen'.red = seen.red, ~Watched', pc' # "tidy"
      PROVE  RedBehind'
  BY <1>1, <1>2, <1>3
<1>4. ASSUME UNCHANGED <<repo, hub>>, seen'.red = seen.red, Throw PROVE RedBehind'
  BY <1>3, <1>4 DEF Throw
<1>5. CASE Launch
  BY <1>1, <1>3, <1>5 DEF Launch, Throw, Seen
<1>6. CASE Setup
  <2>1. CASE UNCHANGED repo
    BY <1>3, <1>6, <2>1 DEF Setup, Continue, Throw
  <2>2. CASE repo' # repo
    <3> DEFINE top == IF repo.head = None THEN hub.main ELSE repo.head
               tree == top \cup (repo.tree \ HeadContent)
    <3>1. /\ repo'.on = "branch" /\ repo'.tree = tree /\ repo'.head = top
          /\ UNCHANGED <<hub, seen>> /\ pc' = "phase"
      BY <1>1, <1>6, <2>2 DEF Setup, CheckOut, Continue, Throw, Repo
    <3>2. repo.on = "branch" => top = repo.head
      BY NoneAssumption DEF TypeOK
    <3>3. repo.on = "base" => top = hub.main /\ hub.branch = None
      BY <1>1 DEF TypeOK, Behind
    <3>4. Behind(repo', hub', seen'.red)
      BY <1>1, <3>1, <3>2, <3>3 DEF Behind, Repo
    <3> QED
      BY <1>2, <3>1, <3>4
  <2> QED
    BY <2>1, <2>2
<1>7. CASE AgentEdits
  <2>1. /\ repo'.tree = repo.tree \cup {edits + 1} /\ repo'.head = repo.head
        /\ repo'.on = repo.on /\ UNCHANGED <<hub, seen, pc, loop>> /\ pc = "agent"
    BY <1>1, <1>7 DEF AgentEdits, Repo
  <2>2. Behind(repo', hub', seen'.red)
    BY <1>1, <2>1 DEF Behind
  <2> QED
    BY <1>1, <1>2, <2>1, <2>2
<1>8. CASE Nudge
  <2>1. loop'.for = loop.for /\ UNCHANGED <<repo, hub, seen, pc>> /\ pc = "agent"
    BY <1>8 DEF Nudge, TypeOK, Locals
  <2> QED
    BY <1>1, <1>2, <2>1
<1>9. CASE NextPhase
  <2>1. ASSUME NEW phase \in AgentPhases, TakePhase(phase) PROVE ~Watched' /\ pc' # "tidy"
    <3>1. Ask(phase, loop) => loop'.for = phase /\ pc' = "agent"
      BY AskFacts DEF TypeOK
    <3> QED
      BY <2>1, <3>1, PhaseNames DEF TakePhase, Finish, Continue
  <2> QED
    BY <1>3, <1>9, <2>1, PhaseIsAgents DEF NextPhase, Continue
<1>10. CASE Tests \/ Patch
  <2> DEFINE l == [loop EXCEPT !.attempt = @ + 1]
  <2>1. l \in Locals
    BY Reads, SetLocals DEF TypeOK
  <2>2. {"resolve", "patch"} \subseteq AgentPhases
    BY DEF AgentPhases
  <2>3. ASSUME NEW f \in {"resolve", "patch"}, Ask(f, l) PROVE ~Watched' /\ pc' # "tidy"
    BY <2>1, <2>2, <2>3, AskFacts, PhaseNames
  <2> QED
    BY <1>3, <1>10, <2>3 DEF Tests, Patch, Finish, Continue
<1>11. CASE AgentFails \/ Verify
  BY <1>4, <1>11 DEF AgentFails, Verify
<1>12. CASE PhaseReply \/ ResolveReply
  BY <1>3, <1>12 DEF PhaseReply, ResolveReply, Finish, Continue
<1>13. CASE ReviewReply \/ PatchReply
  <2>1. seen'.red = seen.red
    BY <1>1, <1>13 DEF ReviewReply, PatchReply, Seen
  <2> QED
    BY <1>3, <1>13, <2>1 DEF ReviewReply, PatchReply, Finish, Continue
<1>14. CASE CiFixReply
  <2>1. CASE UNCHANGED <<repo, hub>>
    BY <1>1, <1>2, <1>4, <1>14, <2>1 DEF CiFixReply, Continue
  <2>2. CASE repo' = Committed
    <3>1. repo.on = "branch" /\ hub.pr /\ repo.tree \in Content
      BY <1>1, <1>14 DEF CiFixReply, TypeOK, Repo
    <3>2. /\ repo' \in Repo /\ repo'.on = "branch" /\ repo'.tree = repo.tree
          /\ repo'.head = repo.tree
      BY <1>1, <2>2, <3>1 DEF Committed, Repo
    <3>3. hub' \in {hub, Pushed(repo'.head)} /\ pc' \in {"ci", "off"} /\ seen' = seen
      BY <1>14 DEF CiFixReply, Continue, Throw
    <3>4. Behind(repo', hub', seen'.red)
      BY <1>1, <3>1, <3>2, <3>3, PushBehind
    <3>5. hub'.pr
      BY <1>1, <3>1, <3>3 DEF Pushed, Hub
    <3> QED
      BY <1>2, <3>3, <3>4, <3>5
  <2> QED
    BY <1>14, <2>1, <2>2 DEF CiFixReply
<1>15. CASE Gates
  BY <1>3, <1>15 DEF Gates, Continue, Throw
<1>16. CASE Commit
  <2>1. CASE UNCHANGED repo
    BY <1>3, <1>16, <2>1 DEF Commit, Continue, Throw
  <2>2. CASE repo' = Committed
    <3>1. hub' = hub /\ seen' = seen /\ pc' \in {"push", "off"}
      BY <1>16 DEF Commit, Continue, Throw
    <3>2. CASE repo.on = "branch"
      <4>1. /\ repo' \in Repo /\ repo'.on = "branch" /\ repo'.tree = repo.tree
            /\ repo'.head = repo.tree
        BY <1>1, <2>2, <3>2 DEF Committed, Repo
      <4> QED
        BY <1>1, <1>2, <3>1, <3>2, <4>1, PushBehind
    <3>3. CASE repo.on = "base"
      <4>1. repo'.on = "base" /\ repo'.head = repo.head
        BY <1>1, <2>2, <3>3 DEF Committed, Repo
      <4> QED
        BY <1>1, <1>2, <3>1, <3>3, <4>1 DEF Behind
    <3> QED
      BY <1>1, <3>2, <3>3 DEF Repo
  <2> QED
    BY <1>16, <2>1, <2>2 DEF Commit
<1>17. CASE Push
  <2>1. CASE UNCHANGED hub
    BY <1>3, <1>17, <2>1 DEF Push, Continue, Throw
  <2>2. CASE repo.head # None /\ hub' = Pushed(repo.head)
    <3>1. repo.on = "branch" /\ repo' = repo /\ seen' = seen /\ pc' \in {"pr", "off"}
      BY <1>1, <1>17, <2>2 DEF Push, Continue, Throw, TypeOK, Repo
    <3>2. Behind(repo', hub', seen'.red)
      BY <1>1, <2>2, <3>1, PushBehind
    <3> QED
      BY <1>2, <3>1, <3>2
  <2> QED
    BY <1>17, <2>1, <2>2 DEF Push
<1>18. CASE OpenPr
  <2>1. hub.branch # None
    BY <1>18, NoneAssumption DEF OpenPr, TypeOK
  <2>2. CASE UNCHANGED hub /\ hub.pr
    BY <1>1, <1>2, <1>18, <2>2 DEF OpenPr, Continue, Throw
  <2>3. CASE ~hub.pr /\ hub' = [hub EXCEPT !.pr = TRUE, !.shown = hub.branch, !.ci = "none"]
    <3>1. /\ hub'.pr /\ hub'.shown = hub.branch /\ hub'.branch = hub.branch
          /\ hub'.main = hub.main
      BY <1>1, <2>3 DEF Hub
    <3>2. Behind(repo', hub', seen'.red)
      BY <1>1, <1>18, <2>1, <2>3, <3>1 DEF Behind, OpenPr
    <3> QED
      BY <1>2, <1>18, <3>1, <3>2 DEF OpenPr, Continue, Throw
  <2>4. CASE Throw /\ UNCHANGED hub
    BY <1>4, <1>18, <2>4 DEF OpenPr
  <2> QED
    BY <1>18, <2>2, <2>3, <2>4 DEF OpenPr
<1>19. CASE CiPoll
  <2>1. /\ UNCHANGED <<repo, hub>> /\ hub.pr /\ hub.branch \in Content /\ hub.branch # None
        /\ seen'.red = IF hub.ci = "failure" THEN seen.red \cup {hub.shown} ELSE seen.red
    BY <1>1, <1>19, NoneAssumption DEF CiPoll, TypeOK, Seen
  <2>2. Behind(repo', hub', seen'.red)
    BY <1>1, <2>1 DEF Behind
  <2>3. pc' # "tidy" /\ (Sure' => hub.ci # "failure")
    BY <1>19 DEF CiPoll, CiNone, CiPending, CiFailure, Continue, Throw, Ask
  <2>4. hub.ci # "failure" => hub.branch \notin seen'.red
    BY <1>1, <2>1 DEF Behind
  <2> QED
    BY <1>2, <2>1, <2>2, <2>3, <2>4
<1>20. CASE Confirm
  BY <1>1, <1>2, <1>4, <1>20 DEF Confirm, Continue
<1>21. CASE Merge
  <2>1. CASE UNCHANGED hub /\ Throw
    BY <1>4, <1>21, <2>1 DEF Merge
  <2>2. CASE /\ hub'.branch = None /\ ~hub'.pr /\ hub'.main = hub.main \cup hub.branch
             /\ pc' = "tidy"
    <3>1. /\ repo' = repo /\ seen' = seen /\ hub.branch \notin seen.red
          /\ hub.branch # None /\ repo.on = "branch"
      BY <1>1, <1>21, NoneAssumption DEF Merge, TypeOK
    <3>2. ASSUME NEW c \in seen.red
          PROVE  /\ c \subseteq hub.branch /\ c # hub.branch /\ hub.branch \subseteq repo.head
                 /\ c \in Content
      BY <1>1, <3>1, <3>2 DEF Behind, Seen
    <3>3. \A c \in seen.red : c # None
      BY <3>2, NoneAssumption
    <3>4. Behind(repo', hub', seen'.red)
      BY <1>1, <2>2, <3>1, <3>2, <3>3 DEF Behind
    <3> QED
      BY <1>2, <2>2, <3>4
  <2> QED
    BY <1>1, <1>21, <2>1, <2>2 DEF Merge, Continue, Hub
<1>22. CASE Tidy
  <2>1. /\ repo'.on = "base" /\ UNCHANGED <<hub, seen>> /\ hub.branch = None /\ pc' = "record"
    BY <1>1, <1>22 DEF Tidy, Continue
  <2>2. Behind(repo', hub', seen'.red)
    BY <1>1, <2>1 DEF Behind
  <2> QED
    BY <1>2, <2>1, <2>2
<1>23. CASE Record
  BY <1>1, <1>3, <1>23 DEF Record, Continue, Seen
<1>24. CASE GitHub
  <2>1. /\ UNCHANGED <<repo, pc, loop>> /\ hub.pr /\ hub'.pr /\ hub.branch \in Content
        /\ hub'.branch = hub.branch /\ hub'.main = hub.main /\ seen'.red \subseteq seen.red
    BY <1>24, GitHubFacts DEF TypeOK
  <2>2. hub'.shown \in {hub.shown, hub.branch}
    BY <1>1, <1>24 DEF GitHub, HubCatchesUp, CiRuns, CiRunsAgain, Hub
  <2>3. ASSUME NEW c \in seen'.red
        PROVE  c # hub.branch \/ (hub'.shown = hub.branch /\ hub'.ci = "failure")
    <3>1. c \in seen.red
      BY <2>1, <2>3
    <3>2. CASE HubCatchesUp \/ CiRuns
      BY <1>1, <3>1, <3>2 DEF HubCatchesUp, CiRuns, Behind
    <3>3. CASE CiRunsAgain
      <4>1. c # hub.shown
        BY <1>1, <2>3, <3>3 DEF CiRunsAgain, Seen
      <4> QED
        BY <1>1, <3>1, <4>1 DEF Behind
    <3> QED
      BY <1>24, <3>2, <3>3 DEF GitHub
  <2>4. Behind(repo', hub', seen'.red)
    BY <1>1, <2>1, <2>2, <2>3, NoneAssumption DEF Behind
  <2> QED
    BY <1>1, <1>2, <2>1, <2>4
<1>25. CASE Crash
  BY <1>1, <1>4, <1>25 DEF Crash, Seen
<1>26. CASE UNCHANGED vars
  BY <1>1, <1>2, <1>26 DEF vars
<1> QED
  BY <1>5, <1>6, <1>7, <1>8, <1>9, <1>10, <1>11, <1>12, <1>13, <1>14, <1>15, <1>16, <1>17,
     <1>18, <1>19, <1>20, <1>21, <1>22, <1>23, <1>24, <1>25, <1>26 DEF Next, Run, Agent

(* ciFixLoop, confirmMerge and squashMerge: a content whose checks a poll  *)
(* saw failing, and that GitHub has not run again since, is never merged,  *)
(* by this launch or by a later one, whatever is committed, pushed, shown  *)
(* late or polled in between.                                              *)
THEOREM RedIsNeverMerged == Spec => RedNeverMerged
<1> DEFINE Green == hub.merges' # hub.merges => hub.branch \notin seen.red
<1>1. Init => RedBehind
  BY DEF Init, RedBehind
<1>2. TypeOK /\ RedBehind /\ [Next]_vars => [Green]_vars
  <2> SUFFICES ASSUME TypeOK, RedBehind, Next, hub.merges' # hub.merges
               PROVE  hub.branch \notin seen.red
    OBVIOUS
  <2>1. \A head : Pushed(head).merges = hub.merges
    BY DEF Pushed, TypeOK, Hub
  <2>2. ~(Push \/ CiFixReply)
    BY <2>1 DEF Push, CiFixReply
  <2>3. ~(OpenPr \/ GitHub)
    BY GitHubFacts DEF OpenPr, TypeOK, Hub
  <2>4. Merge
    BY <2>2, <2>3
       DEF Next, Run, Agent, Launch, Setup, NextPhase, Tests, Patch, AgentEdits, Nudge,
           AgentFails, PhaseReply, ReviewReply, ResolveReply, PatchReply, Gates, Commit,
           CiPoll, Confirm, Tidy, Record, Verify, Crash
  <2> QED
    BY <2>4 DEF Merge, RedBehind
<1> QED
  BY <1>1, <1>2, RedBehindStep, DeliveryTypeOK, PTL DEF Spec, RedNeverMerged
=============================================================================
