----------------------------- MODULE BuildPlan -----------------------------
(***************************************************************************)
(* cargo-stainless around fetch_build_plan (stainless_frontend/src/bin/     *)
(* cargo-stainless.rs): target/debug is moved aside to target/debug__tmp    *)
(* while cargo computes its build plan, then moved back; the rustc          *)
(* invocation found in the plan is run on it.                               *)
(*                                                                          *)
(* Several instances may run in one package, each step of theirs a system   *)
(* call; any of them may be killed between two steps; cargo may fail; and   *)
(* the user may run cargo build at any time.                                *)
(***************************************************************************)
EXTENDS Naturals

CONSTANTS
  Instances,    \* runs of cargo-stainless; one that is over may start again
  Builds,       \* contents `cargo build' may give to target/debug
  Crashes       \* TRUE if instances may be killed

VARIABLES
  debug,        \* contents of target/debug
  tmp,          \* contents of target/debug__tmp
  pc,           \* where each instance is
  moved,        \* what each instance moved aside last
  built,        \* the builds the user has made so far
  users         \* the instances that are ever started

vars == <<debug, tmp, pc, moved, built, users>>

(* "plan" is what `cargo build --build-plan' leaves: a directory whose       *)
(* files are no usable build.                                               *)
Contents == {"absent", "empty", "plan"} \cup Builds

ASSUME BuildPlanAssumption == Builds \cap {"absent", "empty", "plan"} = {}

(* "over": finished, failed or killed.                                      *)
Places == {"over", "moved", "planned", "cleared", "ready", "extracting"}

(* The type invariant.                                                      *)
TypeOK ==
  /\ debug \in Contents
  /\ tmp \in Contents
  /\ pc \in [Instances -> Places]
  /\ moved \in [Instances -> Contents]
  /\ built \subseteq Builds
  /\ users \subseteq Instances

Init ==
  /\ debug = "absent"
  /\ tmp = "absent"
  /\ pc = [i \in Instances |-> "over"]
  /\ moved = [i \in Instances |-> "absent"]
  /\ built = {}
  /\ users \in SUBSET Instances

Goto(i, place) == pc' = [pc EXCEPT ![i] = place]

(* rename(2) of a directory: the source must exist, and the target must be  *)
(* missing or empty.                                                        *)
CanRename(from, to) == from # "absent" /\ to \in {"absent", "empty"}

MoveAsideReplacing(i) ==      \* mutant: clears the way for the rename
  /\ i \in users
  /\ pc[i] = "over"
  /\ debug # "absent"
  /\ tmp' = debug
  /\ debug' = "absent"
  /\ moved' = [moved EXCEPT ![i] = debug]
  /\ Goto(i, "moved")
  /\ UNCHANGED <<built, users>>

(* fs::rename(debug, debug__tmp), whose failure is a panic: the instance    *)
(* ends where it began.                                                     *)
MoveAside(i) ==
  /\ i \in users
  /\ pc[i] = "over"
  /\ CanRename(debug, tmp)
  /\ tmp' = debug
  /\ debug' = "absent"
  /\ moved' = [moved EXCEPT ![i] = debug]
  /\ Goto(i, "moved")
  /\ UNCHANGED <<built, users>>

(* cargo build --build-plan, which may touch target/debug whether or not it *)
(* succeeds.                                                                *)
CargoTouches == debug' \in {debug, "plan"}

CargoSucceeds(i) ==
  /\ pc[i] = "moved"
  /\ CargoTouches
  /\ Goto(i, "planned")
  /\ UNCHANGED <<tmp, moved, built, users>>

(* parsing_error exits on the spot.                                         *)
CargoFails(i) ==
  /\ pc[i] = "moved"
  /\ CargoTouches
  /\ Goto(i, "over")
  /\ UNCHANGED <<tmp, moved, built, users>>

ClearTmp(i) ==                \* mutant: removes the wrong directory
  /\ pc[i] = "planned"
  /\ tmp' = "absent"
  /\ Goto(i, "cleared")
  /\ UNCHANGED <<debug, moved, built, users>>

(* fs::remove_dir_all(debug): its result is ignored, and it may stop half   *)
(* way.                                                                     *)
Clear(i) ==
  /\ pc[i] = "planned"
  /\ \/ debug' = "absent"
     \/ debug # "absent" /\ debug' \in {"empty", "plan"}
  /\ Goto(i, "cleared")
  /\ UNCHANGED <<tmp, moved, built, users>>

MoveBackIgnored(i) ==         \* mutant: the failure is ignored, as that of Clear
  /\ pc[i] = "cleared"
  /\ ~CanRename(tmp, debug)
  /\ Goto(i, "ready")
  /\ UNCHANGED <<debug, tmp, moved, built, users>>

MoveBackRetried(i) ==         \* mutant: tries again for ever
  /\ pc[i] = "cleared"
  /\ ~CanRename(tmp, debug)
  /\ UNCHANGED vars

(* fs::rename(debug__tmp, debug), or the panic if it fails.                 *)
MoveBack(i) ==
  /\ pc[i] = "cleared"
  /\ CanRename(tmp, debug)
  /\ debug' = tmp
  /\ tmp' = "absent"
  /\ Goto(i, "ready")
  /\ UNCHANGED <<moved, built, users>>

MoveBackFails(i) ==
  /\ pc[i] = "cleared"
  /\ ~CanRename(tmp, debug)
  /\ Goto(i, "over")
  /\ UNCHANGED <<debug, tmp, moved, built, users>>

(* parse_build rejects the plan, or rustc_to_stainless is started, reading  *)
(* the dependencies in target/debug, and ends.                              *)
RejectPlan(i) ==
  /\ pc[i] = "ready"
  /\ Goto(i, "over")
  /\ UNCHANGED <<debug, tmp, moved, built, users>>

StartExtraction(i) ==
  /\ pc[i] = "ready"
  /\ Goto(i, "extracting")
  /\ UNCHANGED <<debug, tmp, moved, built, users>>

Finish(i) ==
  /\ pc[i] = "extracting"
  /\ Goto(i, "over")
  /\ UNCHANGED <<debug, tmp, moved, built, users>>

Kill(i) ==
  /\ Crashes
  /\ pc[i] # "over"
  /\ Goto(i, "over")
  /\ UNCHANGED <<debug, tmp, moved, built, users>>

(* The user, or an IDE, runs cargo build: a bound, Builds, on how often.    *)
UserBuild ==
  \E b \in Builds \ built :
    /\ built' = built \cup {b}
    /\ debug' = b
    /\ UNCHANGED <<tmp, pc, moved, users>>

Step(i) ==
  \/ CargoSucceeds(i) \/ CargoFails(i) \/ Clear(i) \/ MoveBack(i)
  \/ MoveBackFails(i) \/ RejectPlan(i) \/ StartExtraction(i) \/ Finish(i)

Next ==
  \/ \E i \in Instances : MoveAside(i) \/ Step(i) \/ Kill(i)
  \/ UserBuild

(* An instance that has been started is scheduled, and cargo and rustc end; *)
(* nobody has to start one, kill one or build.                              *)
Spec == Init /\ [][Next]_vars
FairSpec == Spec /\ \A i \in Instances : WF_vars(Step(i))

----------------------------------------------------------------------------
(* What was moved aside is never overwritten or deleted: it leaves          *)
(* target/debug__tmp only for target/debug.                                 *)
AsideKept ==
  [][tmp # "absent" => tmp' = tmp \/ (tmp' = "absent" /\ debug' = tmp)]_vars

(* Between the two renames.                                                 *)
InWindow(i) == pc[i] \in {"moved", "planned", "cleared"}

(* The two renames work as a lock: no two instances are between them, so    *)
(* neither can take the other's plan debris for the build to protect.       *)
OneAtATime == \A i, j \in Instances : InWindow(i) /\ InWindow(j) => i = j

(* An instance that gets through the window has put back what it moved,     *)
(* and a real build at that, whoever else was running.                      *)
PutsBack ==
  [][\A i \in Instances : pc[i] = "cleared" /\ pc'[i] = "ready" =>
       debug' = moved[i] /\ moved[i] \in Builds]_vars

(* An instance that entered the window leaves it, and ends.                 *)
WindowLeft == \A i \in Instances : InWindow(i) ~> pc[i] = "over"

(* With a single instance, extraction finds a build in target/debug.        *)
DependenciesInPlace ==
  \A i \in Instances : users = {i} /\ pc[i] = "extracting" => debug \in Builds

(* "a hacky workaround that protects the target/debug/ subdirectory": when  *)
(* no instance is running, the latest build is where cargo looks for it.    *)
TargetProtected ==
  (\A i \in Instances : pc[i] = "over") /\ built # {} => debug \in Builds
=============================================================================
