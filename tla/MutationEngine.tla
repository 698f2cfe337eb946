--------------------------- MODULE MutationEngine ---------------------------
(* MutationEngine: a sealed plan of file replacements applied path by path, *)
(* with a journalled fence before each step and recovery by observing the   *)
(* workspace, never by trusting the fence.  The engine may fail at any      *)
(* failpoint; somebody else may write the same paths.                       *)
EXTENDS Integers, FiniteSets

CONSTANTS
  N,              \* the plan has the paths 1..N, in order
  Pre, Post,      \* the sealed images of each path
  Images,         \* every image a path may hold
  MaxWrites, MaxFailures

Paths == 1..N

ASSUME PlanAssumption ==
  /\ N \in Nat \ {0}
  /\ Pre \in [Paths -> Images] /\ Post \in [Paths -> Images]

VARIABLES
  ws,         \* the image each path holds
  pre, post,  \* the images of the plan in force (the sealed plan or its inverse)
  fence,      \* the plan's last journalled fence
  pc, at,     \* where the call is, and the path it is at
  seen,       \* the images observe_all has read so far
  todo,       \* the paths the resume decision applies
  answer,     \* what the last call returned
  stained,    \* a path was foreign when the call began
  disturbed,  \* somebody else wrote a path during the call
  writes, failures

vars == <<ws, pre, post, fence, pc, at, seen, todo, answer, stained, disturbed, writes, failures>>

Fence(name) == [name |-> name, path |-> 0]
Applying(p) == [name |-> "applying", path |-> p]

Init ==
  /\ ws \in [Paths -> Images]
  /\ pre = Pre /\ post = Post
  /\ fence = Fence("none") /\ pc = "idle" /\ at = 1
  /\ seen = ws /\ todo = {} /\ answer = "none"
  /\ stained = FALSE /\ disturbed = FALSE
  /\ writes = 0 /\ failures = 0


classify_image(p, image) ==
  CASE pre[p] = post[p] /\ image = pre[p] -> "unchanged"
    [] pre[p] # post[p] /\ image = pre[p] -> "preimage"
    [] pre[p] # post[p] /\ image = post[p] -> "postimage"
    [] OTHER                               -> "foreign"

Foreign(observed) == {p \in Paths : classify_image(p, observed[p]) = "foreign"}

ToApply(observed) == {p \in Paths : classify_image(p, observed[p]) = "preimage"}


classify_plan(observed) ==
  CASE Foreign(observed) # {}                           -> "ambiguous"
    [] Foreign(observed) = {} /\ ToApply(observed) = {} -> "committed"
    [] OTHER                                            -> "apply"

Return(a) == pc' = "idle" /\ at' = 1 /\ todo' = {} /\ answer' = a

Goto(label) == pc' = label /\ at' = 1 /\ UNCHANGED <<todo, answer>>

Stray(observed) == \E p \in Paths : observed[p] \notin {pre[p], post[p]}

(* execute and resume begin by observing every path.                        *)
Call(label) ==
  /\ pc = "idle"
  /\ Goto(label)
  /\ stained' = Stray(ws) /\ disturbed' = FALSE
  /\ UNCHANGED <<ws, pre, post, fence, seen, writes, failures>>

Execute == Call("preflight")
Resume == Call("resume")

(* observe_all, one path at a time.                                         *)
Observe ==
  /\ pc \in {"preflight", "resume", "verify"} /\ at <= N
  /\ seen' = [seen EXCEPT ![at] = ws[at]]
  /\ at' = at + 1
  /\ UNCHANGED <<ws, pre, post, fence, pc, todo, answer, stained, disturbed, writes, failures>>

(* preflight and the decision of execute_with.                              *)
Preflight ==
  /\ pc = "preflight" /\ at = N + 1
  /\ CASE classify_plan(seen) = "ambiguous" -> Return("ambiguous")
       [] classify_plan(seen) = "committed" -> Return("receipt")
       [] classify_plan(seen) = "apply"     -> Goto("prepare") \/ Return("scratch")
  /\ UNCHANGED <<ws, pre, post, fence, seen, stained, disturbed, writes, failures>>

(* put_plan and the prepared fence.                                         *)
Prepare ==
  /\ pc = "prepare"
  /\ fence' = Fence("prepared")
  /\ Goto("resume")
  /\ UNCHANGED <<ws, pre, post, seen, stained, disturbed, writes, failures>>

Decide ==
  /\ pc = "resume" /\ at = N + 1
  /\ IF classify_plan(seen) = "ambiguous"
     THEN fence' = Fence("ambiguous") /\ Return("ambiguous")
     ELSE /\ todo' = ToApply(seen) /\ fence' = fence
          /\ pc' = "next" /\ at' = 1 /\ answer' = answer
  /\ UNCHANGED <<ws, pre, post, seen, stained, disturbed, writes, failures>>

\* Mutant: the loop ends one entry early.
NextEntryShort ==
  /\ pc = "next"
  /\ IF at >= N THEN fence' = Fence("verifying") /\ Goto("verify")
     ELSE IF at \notin todo THEN at' = at + 1 /\ UNCHANGED <<fence, pc, todo, answer>>
     ELSE fence' = Applying(at) /\ pc' = "apply" /\ UNCHANGED <<at, todo, answer>>
  /\ UNCHANGED <<ws, pre, post, seen, stained, disturbed, writes, failures>>

(* The loop over the entries: the next one to apply is fenced first; after  *)
(* the last one the plan is verified.                                       *)
NextEntry ==
  /\ pc = "next"
  /\ IF at > N THEN fence' = Fence("verifying") /\ Goto("verify")
     ELSE IF at \notin todo THEN at' = at + 1 /\ UNCHANGED <<fence, pc, todo, answer>>
     ELSE fence' = Applying(at) /\ pc' = "apply" /\ UNCHANGED <<at, todo, answer>>
  /\ UNCHANGED <<ws, pre, post, seen, stained, disturbed, writes, failures>>

(* MutationWorkspace::apply: the atomic replace (or removal) of the path.   *)
Apply ==
  /\ pc = "apply"
  /\ ws' = [ws EXCEPT ![at] = post[at]]
  /\ pc' = "check"
  /\ UNCHANGED <<pre, post, fence, at, seen, todo, answer, stained, disturbed, writes, failures>>

Check ==
  /\ pc = "check"
  /\ IF ws[at] = post[at]
     THEN pc' = "next" /\ at' = at + 1 /\ UNCHANGED <<todo, answer>>
     ELSE Return("mismatch")
  /\ UNCHANGED <<ws, pre, post, fence, seen, stained, disturbed, writes, failures>>

Verify ==
  /\ pc = "verify" /\ at = N + 1
  /\ CASE classify_plan(seen) = "committed" -> fence' = Fence("committed") /\ Return("receipt")
       [] classify_plan(seen) = "ambiguous" -> fence' = fence /\ Return("ambiguous")
       [] classify_plan(seen) = "apply"     -> fence' = fence /\ Return("incomplete")
  /\ UNCHANGED <<ws, pre, post, seen, stained, disturbed, writes, failures>>

(* The process dies, or a failpoint, the disk or the journal fails, before  *)
(* or after any step.                                                       *)
Fail ==
  /\ pc # "idle" /\ failures < MaxFailures
  /\ failures' = failures + 1
  /\ Return("error")
  /\ UNCHANGED <<ws, pre, post, fence, seen, stained, disturbed, writes>>

(* inverse_plan: rollback is another sealed plan, admitted only from the    *)
(* exact postimages.                                                        *)
Rollback ==
  /\ pc = "idle" /\ ws = post
  /\ pre' = post /\ post' = pre /\ fence' = Fence("none")
  /\ UNCHANGED <<ws, pc, at, seen, todo, answer, stained, disturbed, writes, failures>>

(* Somebody else writes one of the paths: the engine holds no lock on them. *)
OtherWrite(p, image) ==
  /\ writes < MaxWrites
  /\ disturbed' = (pc # "idle")
  /\ ws' = [ws EXCEPT ![p] = image]
  /\ writes' = writes + 1
  /\ UNCHANGED <<pre, post, fence, pc, at, seen, todo, answer, stained, failures>>

Step == Observe \/ Preflight \/ Prepare \/ Decide \/ NextEntry \/ Apply \/ Check \/ Verify

Next ==
  \/ Execute \/ Resume \/ Step \/ Fail \/ Rollback
  \/ \E p \in Paths, image \in Images : OtherWrite(p, image)

Spec == Init /\ [][Next]_vars

(* A call that began returns, and whoever owns an unfinished plan keeps     *)
(* coming back to resume it, whatever else is called in between.            *)
FairSpec == Spec /\ WF_vars(Step) /\ SF_vars(Resume)

----------------------------------------------------------------------------





(* "A mix of preimages and postimages resumes deterministically"            *)
(* (README.md:96): with no foreign bytes the plan is finished however often *)
(* the engine failed on the way.                                            *)
UnfinishedPlanCompletes ==
  ~Stray(ws) ~> ws = post \/ Stray(ws)
=============================================================================
