-------------------------- MODULE BuildPlanProofs --------------------------
(***************************************************************************)
(* Proofs about BuildPlan, for any number of instances and of builds, with  *)
(* or without kills: the two renames of fetch_build_plan exclude each other *)
(* and protect what was moved aside.                                        *)
(***************************************************************************)
EXTENDS BuildPlan, TLAPS

(* Only a build is ever moved aside...                                      *)
AsideIsBuild == tmp \in {"absent"} \cup Builds

(* ... because the debris of cargo is only found next to one.               *)
DebrisGuarded == tmp = "absent" => debug \in {"absent"} \cup Builds

(* An instance between the renames finds its own build aside.               *)
Holds == \A i \in Instances : InWindow(i) => tmp = moved[i] /\ tmp \in Builds

(* The user builds with an instance that runs, and nobody else does.        *)
OnlyUsers == \A i \in Instances : pc[i] # "over" => i \in users
AloneInPlace ==
  \A i \in Instances :
    users = {i} /\ pc[i] \in {"ready", "extracting"} => debug \in Builds

PlanInv ==
  /\ TypeOK
  /\ OneAtATime
  /\ AsideIsBuild
  /\ DebrisGuarded
  /\ Holds
  /\ OnlyUsers
  /\ AloneInPlace

(* It holds before any instance started.                                    *)
LEMMA PlanInit == Init => PlanInv
  BY DEF Init, PlanInv, TypeOK, OneAtATime, AsideIsBuild, DebrisGuarded, Holds,
         OnlyUsers, AloneInPlace, InWindow, Contents, Places

(* The types are kept by every step.                                        *)
LEMMA PlanType == ASSUME TypeOK, [Next]_vars PROVE TypeOK'
<1>1. CASE \E i \in Instances : MoveAside(i) \/ Step(i) \/ Kill(i)
  <2>1. PICK i \in Instances : MoveAside(i) \/ Step(i) \/ Kill(i)
    BY <1>1
  <2> QED
    BY <2>1 DEF TypeOK, MoveAside, Step, CargoSucceeds, CargoFails, CargoTouches,
         Clear, MoveBack, MoveBackFails, RejectPlan, StartExtraction, Finish, Kill,
         Goto, Contents, Places
<1>2. CASE UserBuild
  BY <1>2 DEF TypeOK, UserBuild, Contents
<1>3. CASE UNCHANGED vars
  BY <1>3 DEF TypeOK, vars
<1> QED
  BY <1>1, <1>2, <1>3 DEF Next

(* The first rename needs the place of the second to be free, so nobody     *)
(* else is between them, and what it moves is a build.                      *)
LEMMA PlanMoveAside ==
  ASSUME PlanInv, NEW i \in Instances, MoveAside(i)
  PROVE  PlanInv'
<1>1. tmp = "absent" /\ debug \in Builds
  BY BuildPlanAssumption
     DEF PlanInv, MoveAside, CanRename, AsideIsBuild, DebrisGuarded, BuildPlanAssumption
<1>2. \A j \in Instances : ~InWindow(j)
  BY <1>1, BuildPlanAssumption DEF PlanInv, Holds, BuildPlanAssumption
<1>3. \A j \in Instances : InWindow(j)' <=> j = i
  BY <1>2 DEF PlanInv, TypeOK, MoveAside, Goto, InWindow
<1>4. TypeOK'
  BY PlanType DEF PlanInv, Next
<1>5. OneAtATime' /\ AsideIsBuild' /\ DebrisGuarded' /\ Holds'
  BY <1>1, <1>3, BuildPlanAssumption
     DEF PlanInv, TypeOK, MoveAside, OneAtATime, AsideIsBuild, DebrisGuarded, Holds,
         BuildPlanAssumption
<1>6. OnlyUsers' /\ AloneInPlace'
  BY DEF PlanInv, TypeOK, MoveAside, Goto, OnlyUsers, AloneInPlace
<1> QED
  BY <1>4, <1>5, <1>6 DEF PlanInv

(* The second rename ends the window with the build in its place.           *)
LEMMA PlanMoveBack ==
  ASSUME PlanInv, NEW i \in Instances, MoveBack(i)
  PROVE  PlanInv' /\ debug' = moved[i] /\ moved[i] \in Builds
<1>1. InWindow(i) /\ tmp = moved[i] /\ tmp \in Builds
  BY DEF PlanInv, MoveBack, Holds, InWindow
<1>2. \A j \in Instances : ~InWindow(j)'
  BY <1>1 DEF PlanInv, TypeOK, OneAtATime, MoveBack, Goto, InWindow
<1>3. TypeOK'
  BY PlanType DEF PlanInv, Next, Step
<1>4. OneAtATime' /\ AsideIsBuild' /\ DebrisGuarded' /\ Holds'
  BY <1>1, <1>2 DEF MoveBack, OneAtATime, AsideIsBuild, DebrisGuarded, Holds
<1>5. OnlyUsers' /\ AloneInPlace'
  BY <1>1 DEF PlanInv, TypeOK, MoveBack, Goto, OnlyUsers, AloneInPlace
<1> QED
  BY <1>1, <1>3, <1>4, <1>5 DEF PlanInv, MoveBack

(* Cargo and remove_dir_all change target/debug only, inside the window.    *)
LEMMA PlanInside ==
  ASSUME PlanInv, NEW i \in Instances,
         CargoSucceeds(i) \/ CargoFails(i) \/ Clear(i)
  PROVE  PlanInv'
<1>1. /\ InWindow(i)
      /\ UNCHANGED <<tmp, moved, built, users>>
      /\ \E place \in {"planned", "over", "cleared"} : Goto(i, place)
  BY DEF CargoSucceeds, CargoFails, Clear, InWindow
<1>2. tmp \in Builds /\ tmp # "absent"
  BY <1>1, BuildPlanAssumption DEF PlanInv, Holds, BuildPlanAssumption
<1>3. \A j \in Instances : InWindow(j)' => InWindow(j)
  BY <1>1 DEF PlanInv, TypeOK, Goto, InWindow
<1>4. TypeOK'
  BY PlanType DEF PlanInv, Next, Step
<1>5. OneAtATime' /\ AsideIsBuild' /\ DebrisGuarded' /\ Holds'
  BY <1>1, <1>2, <1>3
     DEF PlanInv, OneAtATime, AsideIsBuild, DebrisGuarded, Holds
<1>6. OnlyUsers'
  BY <1>1 DEF PlanInv, TypeOK, Goto, OnlyUsers, InWindow
<1>7. AloneInPlace'
  <2> SUFFICES ASSUME NEW j \in Instances, users = {j},
                      pc'[j] \in {"ready", "extracting"}
               PROVE  FALSE
    BY <1>1 DEF AloneInPlace
  <2>1. i = j
    BY <1>1 DEF PlanInv, OnlyUsers, InWindow
  <2> QED
    BY <1>1, <2>1 DEF PlanInv, TypeOK, Goto
<1> QED
  BY <1>4, <1>5, <1>6, <1>7 DEF PlanInv

(* The other steps of an instance leave both directories alone and do not   *)
(* enter the window.                                                        *)
LEMMA PlanOutside ==
  ASSUME PlanInv, NEW i \in Instances,
         MoveBackFails(i) \/ RejectPlan(i) \/ StartExtraction(i) \/ Finish(i) \/ Kill(i)
  PROVE  PlanInv'
<1>1. /\ UNCHANGED <<debug, tmp, moved, built, users>>
      /\ Goto(i, "over") \/ (pc[i] = "ready" /\ Goto(i, "extracting"))
  BY DEF MoveBackFails, RejectPlan, StartExtraction, Finish, Kill
<1>2. \A j \in Instances : InWindow(j)' => InWindow(j)
  BY <1>1 DEF PlanInv, TypeOK, Goto, InWindow
<1>3. TypeOK'
  BY PlanType DEF PlanInv, Next, Step
<1>4. OneAtATime' /\ AsideIsBuild' /\ DebrisGuarded' /\ Holds'
  BY <1>1, <1>2 DEF PlanInv, OneAtATime, AsideIsBuild, DebrisGuarded, Holds
<1>5. OnlyUsers' /\ AloneInPlace'
  BY <1>1 DEF PlanInv, TypeOK, Goto, OnlyUsers, AloneInPlace
<1> QED
  BY <1>3, <1>4, <1>5 DEF PlanInv

(* So does a build of the user, whenever it is made.                        *)
LEMMA PlanUserBuild == ASSUME PlanInv, UserBuild PROVE PlanInv'
<1>1. TypeOK'
  BY PlanType DEF PlanInv, Next
<1> QED
  BY <1>1 DEF PlanInv, UserBuild, OneAtATime, InWindow, AsideIsBuild, DebrisGuarded,
              Holds, OnlyUsers, AloneInPlace

(* Nothing happens.                                                         *)
LEMMA PlanStutter == ASSUME PlanInv, UNCHANGED vars PROVE PlanInv'
  BY DEF PlanInv, vars, TypeOK, OneAtATime, InWindow, AsideIsBuild, DebrisGuarded,
         Holds, OnlyUsers, AloneInPlace

(* The invariant is inductive.                                              *)
LEMMA PlanStep == ASSUME PlanInv, [Next]_vars PROVE PlanInv'
<1>1. CASE \E i \in Instances : MoveAside(i) \/ Step(i) \/ Kill(i)
  <2>1. PICK i \in Instances : MoveAside(i) \/ Step(i) \/ Kill(i)
    BY <1>1
  <2> QED
    BY <2>1, PlanMoveAside, PlanMoveBack, PlanInside, PlanOutside DEF Step
<1>2. CASE UserBuild
  BY <1>2, PlanUserBuild
<1>3. CASE UNCHANGED vars
  BY <1>3, PlanStutter
<1> QED
  BY <1>1, <1>2, <1>3 DEF Next

(* So it holds whatever instances do.                                       *)
LEMMA PlanInvariant == Spec => []PlanInv
<1>1. Init => PlanInv
  BY PlanInit
<1>2. PlanInv /\ [Next]_vars => PlanInv'
  BY PlanStep
<1> QED
  BY <1>1, <1>2, PTL DEF Spec

(* fetch_build_plan: however many instances run, are killed or fail, and    *)
(* whenever the user builds, no two are between the renames.                *)
THEOREM WindowExclusive == Spec => []OneAtATime
<1>1. PlanInv => OneAtATime
  BY DEF PlanInv
<1> QED
  BY <1>1, PlanInvariant, PTL

(* A single instance extracts against a build.                              *)
THEOREM DependenciesFound == Spec => []DependenciesInPlace
<1>1. PlanInv => DependenciesInPlace
  BY DEF PlanInv, AloneInPlace, DependenciesInPlace
<1> QED
  BY <1>1, PlanInvariant, PTL

(* What a step does to target/debug__tmp.                                   *)
LEMMA AsideStep ==
  ASSUME PlanInv, [Next]_vars
  PROVE  tmp # "absent" => tmp' = tmp \/ (tmp' = "absent" /\ debug' = tmp)
<1> SUFFICES ASSUME tmp # "absent"
             PROVE  tmp' = tmp \/ (tmp' = "absent" /\ debug' = tmp)
  OBVIOUS
<1>1. ASSUME NEW i \in Instances PROVE ~MoveAside(i)
  BY BuildPlanAssumption
     DEF PlanInv, MoveAside, CanRename, AsideIsBuild, BuildPlanAssumption
<1>2. ASSUME NEW i \in Instances, Step(i) \/ Kill(i)
      PROVE  tmp' = tmp \/ (tmp' = "absent" /\ debug' = tmp)
  BY <1>2 DEF Step, CargoSucceeds, CargoFails, Clear, MoveBack, MoveBackFails,
              RejectPlan, StartExtraction, Finish, Kill
<1> QED
  BY <1>1, <1>2 DEF Next, UserBuild, vars

(* What was moved aside is never overwritten nor deleted.                   *)
THEOREM BuildSurvives == Spec => AsideKept
<1>1. PlanInv /\ [Next]_vars =>
        [tmp # "absent" => tmp' = tmp \/ (tmp' = "absent" /\ debug' = tmp)]_vars
  BY AsideStep
<1> QED
  BY <1>1, PlanInvariant, PTL DEF Spec, AsideKept

(* Only the second rename takes an instance to where it reads the plan.     *)
LEMMA PutBackStep ==
  ASSUME PlanInv, [Next]_vars, NEW i \in Instances,
         pc[i] = "cleared", pc'[i] = "ready"
  PROVE  debug' = moved[i] /\ moved[i] \in Builds
<1>1. MoveBack(i)
  <2>1. ~UNCHANGED vars /\ ~UserBuild
    BY DEF vars, UserBuild
  <2>2. PICK j \in Instances : MoveAside(j) \/ Step(j) \/ Kill(j)
    BY <2>1 DEF Next
  <2>3. i = j
    BY <2>2 DEF PlanInv, TypeOK, MoveAside, Step, CargoSucceeds, CargoFails, Clear,
         MoveBack, MoveBackFails, RejectPlan, StartExtraction, Finish, Kill, Goto
  <2> QED
    BY <2>2, <2>3 DEF PlanInv, TypeOK, MoveAside, Step, CargoSucceeds, CargoFails,
         Clear, MoveBackFails, RejectPlan, StartExtraction, Finish, Kill, Goto
<1> QED
  BY <1>1, PlanMoveBack

(* An instance that gets through the window has put back what it moved.     *)
THEOREM BuildPutBack == Spec => PutsBack
<1>1. PlanInv /\ [Next]_vars =>
        [\A i \in Instances : pc[i] = "cleared" /\ pc'[i] = "ready" =>
           debug' = moved[i] /\ moved[i] \in Builds]_vars
  BY PutBackStep
<1> QED
  BY <1>1, PlanInvariant, PTL DEF Spec, PutsBack
=============================================================================
