---------------------------- MODULE ReleaseCopy ----------------------------
(***************************************************************************)
(* deploy/scripts/release.sh: installs releases/<sha>, one directory and   *)
(* its virtualenv, and repairs or prunes others.                           *)
(*                                                                         *)
(* A run may fail at any command, be interrupted (its trap cleans up) or   *)
(* be killed (nothing does, and a later run finds the debris).  A step is  *)
(* one command of the script, the trap's included; rm -rf is two, since it *)
(* may end half way.  A run is its pid, which no later run has again.      *)
(* `current` belongs to finops, which shares no lock with this script.     *)
(***************************************************************************)
EXTENDS Naturals, FiniteSets

CONSTANTS
    Shas,      \* releases
    NoSha,     \* nothing: no release
    MaxRuns,   \* bound: runs of the script
    Faults     \* what may go wrong, a subset of AllFaults

\* "die":    a command fails, a check refuses, or a trapped signal comes
\* "kill":   the process dies at once (SIGKILL, power loss)
\* "decay":  between runs, an installed release is damaged
\* "rush":   runs are started while others contend for the lock (see Unhurried)
\* "half":   the removal of the copy moved aside fails or is interrupted half
\*           way, and the trap runs
\* "deploy": finops moves `current` while a run is at work
AllFaults == {"die", "kill", "decay", "rush", "half", "deploy"}

ASSUME CopyAssumption ==
    /\ NoSha \notin Shas
    /\ MaxRuns \in Nat
    /\ Faults \subseteq AllFaults

Runs == 1..MaxRuns
NoPid == 0

\* A release directory: whether there is a virtualenv and it passes
\* _venv_is_usable, and whether RELEASE_ID names the directory.
Dir == [venv : {"none", "broken", "works"}, named : BOOLEAN]
Absent == [venv |-> "absent", named |-> FALSE]
Bare == [venv |-> "none", named |-> TRUE]
Installed == [venv |-> "works", named |-> TRUE]

VARIABLES
    tree,     \* releases/<sha>
    aside,    \* <sha>.superseded.<pid>
    scratch,  \* pids with a .staging or .archive
    current,  \* what the symlink points at
    lock,     \* the lock directory
    op        \* each run

vars == <<tree, aside, scratch, current, lock, op>>

\* pid: in the lock's pid file, NoPid until it is written.
Lock == [taken : BOOLEAN, pid : 0..MaxRuns]
Free == [taken |-> FALSE, pid |-> NoPid]

\* "pid" holds the lock; the trap is set from Working on.
Deciding == {"read", "test", "break", "relock"}
Locking == {"lock", "pid"} \cup Deciding
Working == {"sweep", "inspect", "aside", "extract", "publish", "build", "verify",
            "discard", "prune", "exit", "clean", "restore", "unlock"}

\* holder: holder_pid; target: current_target; verified:
\* superseded_was_verified; building: venv_building is set.
Run == [pc : {"new", "dead"} \cup Locking \cup Working, sha : Shas \cup {NoSha},
        holder : 0..MaxRuns, target : Shas \cup {NoSha},
        verified : BOOLEAN, building : BOOLEAN]

NewRun == [pc |-> "new", sha |-> NoSha, holder |-> NoPid, target |-> NoSha,
           verified |-> FALSE, building |-> FALSE]

Init ==
    /\ tree = [s \in Shas |-> Absent]
    /\ aside = [r \in Runs |-> Absent]
    /\ scratch = {}
    /\ current = NoSha
    /\ lock = Free
    /\ op = [r \in Runs |-> NewRun]

Alive(r) == op[r].pc \in Locking \cup Working

Quiet == \A r \in Runs : ~Alive(r)

Goto(r, pc) == op' = [op EXCEPT ![r].pc = pc]

\* A process ends; the name of its debris still tells its release.
Leave(r) == op' = [op EXCEPT ![r] = [NewRun EXCEPT !.pc = "dead", !.sha = op[r].sha]]

\* rm -rf d: a virtualenv stops working before the directory is gone.
Removed(d) == IF d.venv = "works" THEN [d EXCEPT !.venv = "broken"] ELSE Absent
-----------------------------------------------------------------------------
(* The lock: mkdir, and a pid in it.                                       *)

Stale == lock.pid # NoPid /\ ~Alive(lock.pid)

\* Runs are started one or two at a time: no third joins two, and a second
\* joins none that found the lock taken, nor one that may find it stale.
Unhurried ==
    /\ \A p, q \in Runs : Alive(p) /\ Alive(q) => p = q
    /\ \A q \in Runs : Alive(q) => op[q].pc \notin Deciding /\ ~Stale

Start(r, s) ==
    /\ op[r].pc = "new" /\ \A q \in Runs : q < r => op[q].pc # "new"
    /\ "rush" \in Faults \/ Unhurried
    /\ op' = [op EXCEPT ![r] = [NewRun EXCEPT !.pc = "lock", !.sha = s]]
    /\ UNCHANGED <<tree, aside, scratch, current, lock>>

MakeLock(r) == lock' = [taken |-> TRUE, pid |-> NoPid] /\ Goto(r, "pid")

TakeLock(r) ==
    /\ op[r].pc = "lock"
    /\ \/ ~lock.taken /\ MakeLock(r)
       \/ lock.taken /\ Goto(r, "read") /\ UNCHANGED lock
    /\ UNCHANGED <<tree, aside, scratch, current>>

\* cat, of a file that may not be there yet, or no longer.
ReadPid(r) ==
    /\ op[r].pc = "read"
    /\ \/ lock.pid = NoPid /\ Leave(r)
       \/ lock.pid # NoPid /\ op' = [op EXCEPT ![r].pc = "test", ![r].holder = lock.pid]
    /\ UNCHANGED <<tree, aside, scratch, current, lock>>

\* Faulty: a lock older than an hour is taken for stale, whoever holds it.
StaleByAge(r) ==
    /\ op[r].pc = "test"
    /\ Goto(r, "break")
    /\ UNCHANGED <<tree, aside, scratch, current, lock>>

\* kill -0.
TestPid(r) ==
    /\ op[r].pc = "test"
    /\ IF Alive(op[r].holder) THEN Leave(r) ELSE Goto(r, "break")
    /\ UNCHANGED <<tree, aside, scratch, current, lock>>

\* Whatever lock is there by now.
BreakLock(r) ==
    /\ op[r].pc = "break"
    /\ lock' = Free /\ Goto(r, "relock")
    /\ UNCHANGED <<tree, aside, scratch, current>>

Relock(r) ==
    /\ op[r].pc = "relock"
    /\ \/ ~lock.taken /\ MakeLock(r)
       \/ lock.taken /\ Leave(r) /\ UNCHANGED lock
    /\ UNCHANGED <<tree, aside, scratch, current>>

\* The trap is set from here on.
WritePid(r) ==
    /\ op[r].pc = "pid"
    /\ \/ lock.taken /\ lock' = [lock EXCEPT !.pid = r] /\ Goto(r, "sweep")
       \/ ~lock.taken /\ Leave(r) /\ UNCHANGED lock
    /\ UNCHANGED <<tree, aside, scratch, current>>
-----------------------------------------------------------------------------
(* Debris of the dead.                                                     *)

Orphans == {q \in Runs : ~Alive(q) /\ aside[q] # Absent}

\* One copy after the other goes back when nothing is in its place, or goes;
\* then the scratch goes (first, in the script).
Sweep(r) ==
    /\ op[r].pc = "sweep"
    /\ \/ \E q \in Orphans :
            LET s == op[q].sha
            IN  IF tree[s] = Absent
                THEN /\ tree' = [tree EXCEPT ![s] = aside[q]]
                     /\ aside' = [aside EXCEPT ![q] = Absent]
                     /\ UNCHANGED <<scratch, op>>
                ELSE /\ aside' = [aside EXCEPT ![q] = Removed(@)]
                     /\ UNCHANGED <<tree, scratch, op>>
       \/ /\ Orphans = {}
          /\ scratch' = {q \in scratch : Alive(q)}
          /\ Goto(r, "inspect")
          /\ UNCHANGED <<tree, aside>>
    /\ UNCHANGED <<current, lock>>
-----------------------------------------------------------------------------
(* Already installed?                                                      *)

\* Fetch and provenance refuse by "die".  The symlink is read here for good.
Inspect(r) ==
    LET s == op[r].sha
    IN  /\ op[r].pc = "inspect"
        /\ op' = [op EXCEPT ![r] = [@ EXCEPT
              !.target = IF current # NoSha /\ tree[current] # Absent THEN current ELSE NoSha,
              !.pc = IF tree[s] = Installed THEN "prune"
                     ELSE IF tree[s] = Absent THEN "extract" ELSE "aside"]]
        /\ UNCHANGED <<tree, aside, scratch, current, lock>>

\* What is not the current release is removed.
Remove(r) ==
    LET s == op[r].sha
    IN  /\ tree' = [tree EXCEPT ![s] = Removed(@)]
        /\ IF tree'[s] = Absent THEN Goto(r, "extract") ELSE UNCHANGED op
        /\ UNCHANGED aside

\* Faulty: what is not a complete install is removed, whatever it is.
RemoveIncomplete(r) ==
    /\ op[r].pc = "aside"
    /\ Remove(r)
    /\ UNCHANGED <<scratch, current, lock>>

\* The current release is tested, then moved.
MoveAside(r) ==
    LET s == op[r].sha
    IN  /\ op[r].pc = "aside"
        /\ \/ s # op[r].target /\ Remove(r)
           \/ /\ s = op[r].target
              /\ aside' = [aside EXCEPT ![r] = tree[s]]
              /\ tree' = [tree EXCEPT ![s] = Absent]
              /\ op' = [op EXCEPT ![r].pc = "extract",
                                  ![r].verified = tree[s].venv = "works"]
        /\ UNCHANGED <<scratch, current, lock>>
-----------------------------------------------------------------------------
(* Archive, publish, build.                                                *)

\* git archive, tar and the checks of the staging directory.
Extract(r) ==
    /\ op[r].pc = "extract"
    /\ scratch' = scratch \cup {r}
    /\ Goto(r, "publish")
    /\ UNCHANGED <<tree, aside, current, lock>>

Publish(r) ==
    /\ op[r].pc = "publish"
    /\ scratch' = scratch \ {r}
    /\ tree' = IF tree[op[r].sha] = Absent
               THEN [tree EXCEPT ![op[r].sha] = Bare] ELSE tree
    /\ Goto(r, "build")
    /\ UNCHANGED <<aside, current, lock>>

\* uv sync at work: a console script may be there before the rest is.
Build(r) ==
    /\ op[r].pc = "build"
    /\ tree' = [tree EXCEPT ![op[r].sha].venv = "broken"]
    /\ op' = [op EXCEPT ![r].pc = "verify", ![r].building = TRUE]
    /\ UNCHANGED <<aside, scratch, current, lock>>

\* Every check passes, on a virtualenv that works.
Verify(r) ==
    /\ op[r].pc = "verify"
    /\ tree' = [tree EXCEPT ![op[r].sha].venv = "works"]
    /\ op' = [op EXCEPT ![r].pc = "discard", ![r].building = FALSE]
    /\ UNCHANGED <<aside, scratch, current, lock>>

\* The copy moved aside goes, if there is one.
Discard(r) ==
    /\ op[r].pc = "discard"
    /\ aside' = [aside EXCEPT ![r] = IF @ = Absent THEN @ ELSE Removed(@)]
    /\ IF aside'[r] = Absent THEN Goto(r, "prune") ELSE UNCHANGED op
    /\ UNCHANGED <<tree, scratch, current, lock>>

\* Any release but this one and what was current may be the oldest beyond
\* --keep.
Prune(r) ==
    /\ op[r].pc = "prune"
    /\ \/ \E s \in Shas \ {op[r].sha, op[r].target} :
            /\ tree[s] # Absent
            /\ tree' = [tree EXCEPT ![s] = Removed(@)]
            /\ UNCHANGED op
       \/ Goto(r, "exit") /\ UNCHANGED tree
    /\ UNCHANGED <<aside, scratch, current, lock>>
-----------------------------------------------------------------------------
(* The end of a run: cleanup, at the exit or by a signal.                  *)

Exit(r) ==
    /\ op[r].pc = "exit"
    /\ Goto(r, "clean")
    /\ UNCHANGED <<tree, aside, scratch, current, lock>>

\* The copy that worked when it was moved aside has begun to go.
HalfGone(r) == op[r].pc = "discard" /\ op[r].verified /\ aside[r].venv # "works"

Die(r) ==
    /\ "die" \in Faults
    /\ op[r].pc \in Working \ {"exit", "clean", "restore", "unlock"}
    /\ HalfGone(r) => "half" \in Faults
    /\ Goto(r, "clean")
    /\ UNCHANGED <<tree, aside, scratch, current, lock>>

\* Faulty: the virtualenv stays.
BuildLeft(r) == tree[op[r].sha]

\* A virtualenv that was not verified is removed.
Unbuilt(r) == IF op[r].building THEN [tree[op[r].sha] EXCEPT !.venv = "none"]
                                ELSE tree[op[r].sha]

Clean(r) ==
    /\ op[r].pc = "clean"
    /\ scratch' = scratch \ {r}
    /\ tree' = [tree EXCEPT ![op[r].sha] = Unbuilt(r)]
    /\ Goto(r, "restore")
    /\ UNCHANGED <<aside, current, lock>>

\* Faulty: a fresh tree makes the copy moved aside redundant (round 1).
RestoresOverNothing(r) == tree[op[r].sha] = Absent

\* A copy that worked always goes back, another only over nothing.
Restores(r) == op[r].verified \/ tree[op[r].sha] = Absent

Restore(r) ==
    LET s == op[r].sha
    IN  /\ op[r].pc = "restore"
        /\ \/ /\ aside[r] = Absent
              /\ Goto(r, "unlock")
              /\ UNCHANGED <<tree, aside>>
           \/ /\ aside[r] # Absent /\ ~Restores(r)
              /\ aside' = [aside EXCEPT ![r] = Removed(@)]
              /\ UNCHANGED <<tree, op>>
           \/ /\ aside[r] # Absent /\ Restores(r)
              /\ IF tree[s] # Absent
                 THEN tree' = [tree EXCEPT ![s] = Removed(@)] /\ UNCHANGED aside
                 ELSE /\ tree' = [tree EXCEPT ![s] = aside[r]]
                      /\ aside' = [aside EXCEPT ![r] = Absent]
              /\ UNCHANGED op
        /\ UNCHANGED <<scratch, current, lock>>

\* Whatever lock is there.
Release(r) ==
    /\ op[r].pc = "unlock"
    /\ lock' = Free
    /\ Leave(r)
    /\ UNCHANGED <<tree, aside, scratch, current>>

\* Before the trap is set a signal does no less.
Kill(r) ==
    /\ Alive(r)
    /\ "kill" \in Faults \/ ("die" \in Faults /\ op[r].pc \in Locking)
    /\ Leave(r)
    /\ UNCHANGED <<tree, aside, scratch, current, lock>>
-----------------------------------------------------------------------------
(* Others.                                                                 *)

\* finops deploys or rolls back to a release that probes healthy.
Repoint(s) ==
    /\ "deploy" \in Faults \/ Quiet
    /\ tree[s] = Installed /\ current # s
    /\ current' = s
    /\ UNCHANGED <<tree, aside, scratch, lock, op>>

\* The interpreter goes, or files are copied over it.
Decay(s) ==
    /\ "decay" \in Faults /\ Quiet
    /\ tree[s] # Absent
    /\ tree' \in {[tree EXCEPT ![s].venv = "broken"], [tree EXCEPT ![s].named = FALSE]}
    /\ UNCHANGED <<aside, scratch, current, lock, op>>
-----------------------------------------------------------------------------
Step(r) ==
    \/ TakeLock(r) \/ ReadPid(r) \/ TestPid(r) \/ BreakLock(r) \/ Relock(r)
    \/ WritePid(r)
    \/ Sweep(r) \/ Inspect(r) \/ MoveAside(r) \/ Extract(r) \/ Publish(r)
    \/ Build(r) \/ Verify(r) \/ Discard(r) \/ Prune(r) \/ Exit(r)
    \/ Clean(r) \/ Restore(r) \/ Release(r)

Next ==
    \/ \E r \in Runs : Step(r) \/ Die(r) \/ Kill(r) \/ \E s \in Shas : Start(r, s)
    \/ \E s \in Shas : Repoint(s) \/ Decay(s)

Spec == Init /\ [][Next]_vars
-----------------------------------------------------------------------------
TypeOK ==
    /\ tree \in [Shas -> Dir \cup {Absent}]
    /\ aside \in [Runs -> Dir \cup {Absent}]
    /\ scratch \subseteq Runs
    /\ current \in Shas \cup {NoSha}
    /\ lock \in Lock
    /\ op \in [Runs -> Run]

\* "Two concurrent runs must not interleave an extraction with a virtualenv
\* build" (release.sh, 323): also after kills, when stale locks are broken.
OneInstaller ==
    \A q, r \in Runs : op[q].pc \in Working /\ op[r].pc \in Working => q = r

\* The release that is current stays, at its path or beside it where the
\* run's trap or the next run's sweep puts it back, whatever dies where.
CurrentIsKept ==
    current # NoSha =>
        \/ tree[current] # Absent
        \/ \E r \in Runs : aside[r] # Absent /\ op[r].sha = current

\* A run of which the trap gets to its end leaves a current release that it
\* moved aside while it worked a working one: the same copy, or one that
\* passed the checks (review, round 2; release.sh, 86).
VerifiedIsKept ==
    \A r \in Runs : op[r].pc = "unlock" /\ op[r].verified =>
        tree[op[r].sha].venv = "works"

\* Such a run leaves no virtualenv that its checks have not passed: finops
\* would deploy it (release.sh, 68).
NoHalfBuild ==
    \A r \in Runs : op[r].pc = "unlock" /\ op[r].building =>
        tree[op[r].sha].venv \in {"none", "works"}
=============================================================================
