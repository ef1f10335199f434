------------------------- MODULE ReleaseCopyProofs -------------------------
(***************************************************************************)
(* Proofs about ReleaseCopy, for any releases and any number of runs, as   *)
(* long as runs come unhurried (ReleaseCopy, Unhurried).  What is about    *)
(* copies that worked assumes besides that the removal of one is not cut   *)
(* short, and what is about `current` that finops does not move it while a *)
(* run is at work.                                                         *)
(***************************************************************************)
EXTENDS ReleaseCopy, TLAPS

PCs == {"new", "dead"} \cup Locking \cup Working

\* Where a run holds the lock.
Owning == {"pid"} \cup Working

\* The lock is the worker's, and its pid was one.  Runs come one or two at a
\* time, a stale lock is met by one alone, and whoever has read a pid is alone
\* with its owner.
Locks ==
    /\ \A r \in Runs : op[r].pc \in Working => lock.taken /\ lock.pid = r
    /\ \A r \in Runs : op[r].pc = "pid" => lock.taken /\ lock.pid = NoPid
    /\ \A q, r \in Runs : op[q].pc \in Owning /\ op[r].pc \in Owning => q = r
    /\ \A r \in Runs : lock.pid = r => op[r].pc \in Working \cup {"dead"}
    /\ \A p, q, r \in Runs : Alive(p) /\ Alive(q) /\ Alive(r) => p = q \/ q = r \/ p = r
    /\ \A p, q, r \in Runs :
          lock.pid = p /\ ~Alive(p) /\ Alive(q) /\ Alive(r) => q = r
    /\ \A q, r \in Runs : op[r].pc = "test" /\ Alive(q) => q \in {r, op[r].holder}
    /\ \A q, r \in Runs : op[r].pc \in {"break", "relock"} /\ Alive(q) => q = r

\* What a run has beside its release, until when, and what it knows of it.
Beside(r) ==
    /\ op[r].pc # "new" => op[r].sha \in Shas
    /\ op[r].pc = "new" => aside[r] = Absent
    /\ Alive(r) /\ aside[r] # Absent =>
          op[r].pc \in {"extract", "publish", "build", "verify", "discard", "clean",
                        "restore"}
    /\ op[r].building => op[r].pc \in {"verify", "clean", "restore", "unlock"}
    /\ op[r].verified => op[r].pc \in Working \ {"sweep", "inspect", "aside"}
    /\ op[r].pc = "inspect" => \A q \in Runs : aside[q] = Absent

\* What is at the path of a run's release.
InPlace(r) ==
    /\ op[r].pc = "aside" => tree[op[r].sha] # Absent
    /\ op[r].pc \in {"extract", "publish"} => tree[op[r].sha] = Absent
    /\ op[r].pc = "build" => tree[op[r].sha].venv = "none"
    /\ op[r].pc = "verify" => tree[op[r].sha] # Absent /\ op[r].building
    /\ op[r].pc \in {"discard", "prune", "exit"} => tree[op[r].sha].venv = "works"
    /\ op[r].pc = "clean" /\ op[r].building => tree[op[r].sha] # Absent
    /\ op[r].pc = "restore" /\ op[r].building /\ ~op[r].verified =>
          tree[op[r].sha].venv = "none"
    /\ op[r].pc = "unlock" /\ op[r].building =>
          tree[op[r].sha].venv \in {"none", "works"}

\* Where the copy that worked is, unless its removal was cut short.
Lost(r) == "half" \in Faults /\ ~op[r].building

Copy(r) ==
    op[r].verified =>
        /\ op[r].pc \in {"extract", "publish", "build", "verify"} =>
              aside[r].venv = "works"
        /\ op[r].pc = "clean" =>
              \/ aside[r].venv = "works" \/ Lost(r)
              \/ aside[r] = Absent /\ tree[op[r].sha].venv = "works" /\ ~op[r].building
        /\ op[r].pc = "restore" =>
              \/ aside[r].venv = "works" \/ Lost(r)
              \/ aside[r] = Absent /\ tree[op[r].sha].venv = "works"
        /\ op[r].pc = "unlock" => tree[op[r].sha].venv = "works" \/ Lost(r)

Own(r) == Beside(r) /\ InPlace(r) /\ Copy(r)

CopyInv == TypeOK /\ Locks /\ \A r \in Runs : Own(r)
-----------------------------------------------------------------------------
(* Data.                                                                   *)

\* A run that goes on changes its place only.
LEMMA GotoIs ==
    ASSUME op \in [Runs -> Run], NEW r \in Runs, NEW pc \in PCs, Goto(r, pc)
    PROVE  /\ op' \in [Runs -> Run]
           /\ op'[r].pc = pc /\ op'[r].sha = op[r].sha
           /\ op'[r].target = op[r].target /\ op'[r].verified = op[r].verified
           /\ op'[r].building = op[r].building
           /\ \A q \in Runs \ {r} : op'[q] = op[q]
<1> DEFINE run == [op[r] EXCEPT !.pc = pc]
<1>1. op[r] \in Run
  OBVIOUS
<1>2. /\ run \in Run /\ run.pc = pc /\ run.sha = op[r].sha
      /\ run.target = op[r].target /\ run.verified = op[r].verified
      /\ run.building = op[r].building
  BY <1>1 DEF Run, PCs
<1>3. op' = [op EXCEPT ![r] = run]
  BY DEF Goto
<1> HIDE DEF run
<1> QED BY <1>2, <1>3

\* A process that ends leaves the name of its release.
LEMMA LeaveIs ==
    ASSUME op \in [Runs -> Run], NEW r \in Runs, Leave(r)
    PROVE  /\ op' \in [Runs -> Run]
           /\ op'[r].pc = "dead" /\ op'[r].sha = op[r].sha
           /\ ~op'[r].verified /\ ~op'[r].building
           /\ \A q \in Runs \ {r} : op'[q] = op[q]
<1> DEFINE run == [NewRun EXCEPT !.pc = "dead", !.sha = op[r].sha]
<1>1. op[r].sha \in Shas \cup {NoSha}
  BY DEF Run
<1>2. /\ run \in Run /\ run.pc = "dead" /\ run.sha = op[r].sha
      /\ ~run.verified /\ ~run.building
  <2>1. NoPid \in 0..MaxRuns
    BY CopyAssumption DEF NoPid
  <2> QED BY <1>1, <2>1 DEF Run, NewRun
<1>3. op' = [op EXCEPT ![r] = run]
  BY DEF Leave
<1> HIDE DEF run
<1> QED BY <1>2, <1>3

\* The locks that the script leaves.
LEMMA LocksAre ==
    /\ Free \in Lock /\ ~Free.taken /\ Free.pid = NoPid
    /\ [taken |-> TRUE, pid |-> NoPid] \in Lock
BY CopyAssumption DEF Free, Lock, NoPid

\* A directory is not an absent one, whatever becomes of its virtualenv.
LEMMA DirIsThere ==
    ASSUME NEW d \in Dir \cup {Absent}
    PROVE  /\ d # Absent <=> d \in Dir
           /\ d.venv # "absent" <=> d \in Dir
           /\ d.venv \in {"none", "broken", "works"} <=> d \in Dir
BY DEF Dir, Absent

\* A change of its virtualenv leaves a directory.
LEMMA VenvChanges ==
    ASSUME NEW d \in Dir, NEW v \in {"none", "broken", "works"}
    PROVE  [d EXCEPT !.venv = v] \in Dir /\ [d EXCEPT !.venv = v].venv = v
BY DEF Dir

\* What rm -rf leaves is a directory or none.
LEMMA RemovedIs ==
    ASSUME NEW d \in Dir \cup {Absent}
    PROVE  Removed(d) \in Dir \cup {Absent}
<1>1. CASE d.venv = "works"
  <2>1. d \in Dir
    BY <1>1, DirIsThere
  <2>2. Removed(d) = [d EXCEPT !.venv = "broken"]
    BY <1>1 DEF Removed
  <2> QED BY <2>1, <2>2, VenvChanges
<1>2. CASE d.venv # "works"
  BY <1>2 DEF Removed
<1> QED BY <1>1, <1>2
-----------------------------------------------------------------------------
(* The lock.                                                               *)

\* A run that goes on, the lock as it is.
LEMMA LocksStay ==
    ASSUME Locks, NEW r \in Runs, Alive(r), lock' = lock,
           \A q \in Runs \ {r} : op'[q] = op[q],
           op'[r].pc \in Working \cup Deciding,
           op'[r].pc \in Working <=> op[r].pc \in Working,
           op'[r].pc = "test" => \A q \in Runs : Alive(q) => q \in {r, op'[r].holder},
           op'[r].pc \in {"break", "relock"} => \A q \in Runs : Alive(q) => q = r
    PROVE  Locks'
<1>1. \A q \in Runs : Alive(q)' <=> Alive(q)
  BY DEF Alive, Locking
<1>2. op'[r].pc # "pid"
  BY DEF Working, Deciding
<1>3. op'[r].pc \in Owning => op[r].pc \in Owning
  BY <1>2 DEF Owning
<1>4. /\ \A q \in Runs : op'[q].pc \in Working => lock'.taken /\ lock'.pid = q
      /\ \A q \in Runs : op'[q].pc = "pid" => lock'.taken /\ lock'.pid = NoPid
  BY <1>2 DEF Locks
<1>5. \A p, q \in Runs : op'[p].pc \in Owning /\ op'[q].pc \in Owning => p = q
  BY <1>3 DEF Locks
<1>6. \A q \in Runs : lock'.pid = q => op'[q].pc \in Working \cup {"dead"}
  BY DEF Locks, Alive, Locking, Working, Deciding
<1>7. \A p, q, s \in Runs :
        /\ Alive(p)' /\ Alive(q)' /\ Alive(s)' => p = q \/ q = s \/ p = s
        /\ lock'.pid = p /\ ~Alive(p)' /\ Alive(q)' /\ Alive(s)' => q = s
  BY <1>1 DEF Locks
<1>8. \A q, s \in Runs :
        /\ op'[s].pc = "test" /\ Alive(q)' => q \in {s, op'[s].holder}
        /\ op'[s].pc \in {"break", "relock"} /\ Alive(q)' => q = s
  BY <1>1 DEF Locks
<1> QED BY <1>4, <1>5, <1>6, <1>7, <1>8 DEF Locks

\* A run that ends leaves the lock, or frees its own.
LEMMA LocksLeave ==
    ASSUME Locks, NEW r \in Runs, Alive(r),
           lock' = lock \/ (lock' = Free /\ op[r].pc \in Working),
           \A q \in Runs \ {r} : op'[q] = op[q], op'[r].pc = "dead"
    PROVE  Locks'
<1>1. /\ \A q \in Runs \ {r} : Alive(q)' <=> Alive(q)
      /\ ~Alive(r)'
  BY DEF Alive, Locking, Working, Deciding
<1>2. op'[r].pc \notin Owning /\ op'[r].pc \notin Working /\ op'[r].pc # "pid"
  BY DEF Owning, Working
<1>3. lock' # lock => \A q \in Runs : op'[q].pc \notin Owning
  BY <1>2 DEF Locks, Owning
<1>4. /\ \A q \in Runs : op'[q].pc \in Working => lock'.taken /\ lock'.pid = q
      /\ \A q \in Runs : op'[q].pc = "pid" => lock'.taken /\ lock'.pid = NoPid
  BY <1>2, <1>3 DEF Locks, Owning
<1>5. \A p, q \in Runs : op'[p].pc \in Owning /\ op'[q].pc \in Owning => p = q
  BY <1>2 DEF Locks
<1>6. /\ lock' = lock \/ \A q \in Runs : lock'.pid # q
  BY LocksAre, CopyAssumption DEF Runs, NoPid
<1>7. \A q \in Runs : lock'.pid = q => op'[q].pc \in Working \cup {"dead"}
  BY <1>6 DEF Locks
<1>8. \A p, q, s \in Runs :
        Alive(p)' /\ Alive(q)' /\ Alive(s)' => p = q \/ q = s \/ p = s
  BY <1>1 DEF Locks
<1>9. \A p, q, s \in Runs :
        lock'.pid = p /\ ~Alive(p)' /\ Alive(q)' /\ Alive(s)' => q = s
  BY <1>1, <1>6 DEF Locks
<1>10. \A q, s \in Runs :
        /\ op'[s].pc = "test" /\ Alive(q)' => q \in {s, op'[s].holder}
        /\ op'[s].pc \in {"break", "relock"} /\ Alive(q)' => q = s
  BY <1>1 DEF Locks
<1> QED BY <1>4, <1>5, <1>7, <1>8, <1>9, <1>10 DEF Locks

\* A run that makes the lock, where there is none, owns it.
LEMMA LocksMade ==
    ASSUME Locks, NEW r \in Runs, Alive(r), op[r].pc \notin Owning, ~lock.taken,
           lock' = [taken |-> TRUE, pid |-> NoPid],
           \A q \in Runs \ {r} : op'[q] = op[q], op'[r].pc = "pid"
    PROVE  Locks'
<1>1. \A q \in Runs : Alive(q)' <=> Alive(q)
  BY DEF Alive, Locking
<1>2. \A q \in Runs : op[q].pc \notin Owning
  BY DEF Locks, Owning
<1>3. \A q \in Runs \ {r} : op'[q].pc \notin Owning
  BY <1>2
<1>4. lock'.taken /\ lock'.pid = NoPid /\ \A q \in Runs : lock'.pid # q
  BY CopyAssumption DEF Runs, NoPid
<1>5. /\ \A q \in Runs : op'[q].pc \in Working => lock'.taken /\ lock'.pid = q
      /\ \A q \in Runs : op'[q].pc = "pid" => lock'.taken /\ lock'.pid = NoPid
      /\ \A p, q \in Runs : op'[p].pc \in Owning /\ op'[q].pc \in Owning => p = q
  BY <1>3, <1>4 DEF Owning, Working
<1>6. \A p, q, s \in Runs :
        Alive(p)' /\ Alive(q)' /\ Alive(s)' => p = q \/ q = s \/ p = s
  BY <1>1 DEF Locks
<1>7. \A q, s \in Runs :
        /\ op'[s].pc = "test" /\ Alive(q)' => q \in {s, op'[s].holder}
        /\ op'[s].pc \in {"break", "relock"} /\ Alive(q)' => q = s
  BY <1>1 DEF Locks
<1> QED BY <1>4, <1>5, <1>6, <1>7 DEF Locks

\* A stale lock goes: its breaker is alone.
LEMMA LocksBroken ==
    ASSUME Locks, NEW r \in Runs, op[r].pc = "break", lock' = Free,
           \A q \in Runs \ {r} : op'[q] = op[q], op'[r].pc = "relock"
    PROVE  Locks'
<1>1. Alive(r) /\ \A q \in Runs : Alive(q)' <=> Alive(q)
  BY DEF Alive, Locking, Deciding
<1>2. \A q \in Runs : Alive(q)' => q = r
  BY <1>1 DEF Locks
<1>3. \A q \in Runs : op'[q].pc \notin Owning /\ op'[q].pc # "test"
  BY <1>2 DEF Alive, Locking, Working, Owning, Deciding
<1>4. \A q \in Runs : lock'.pid # q
  BY LocksAre, CopyAssumption DEF Runs, NoPid
<1>5. \A s \in Runs : op'[s].pc \in {"break", "relock"} => s = r
  BY <1>2 DEF Alive, Locking, Deciding
<1>6. \A q \in Runs : op'[q].pc \notin Working /\ op'[q].pc # "pid"
  BY <1>3 DEF Owning
<1> QED BY <1>2, <1>3, <1>4, <1>5, <1>6 DEF Locks

\* The pid goes into the lock that is the run's.
LEMMA LocksSigned ==
    ASSUME Locks, NEW r \in Runs, op[r].pc = "pid", lock'.taken, lock'.pid = r,
           \A q \in Runs \ {r} : op'[q] = op[q], op'[r].pc = "sweep"
    PROVE  Locks'
<1>1. Alive(r) /\ \A q \in Runs : Alive(q)' <=> Alive(q)
  BY DEF Alive, Locking, Working
<1>2. \A q \in Runs \ {r} : op'[q].pc \notin Owning
  BY DEF Locks, Owning
<1>3. op'[r].pc \in Working
  BY DEF Working
<1>4. /\ \A q \in Runs : op'[q].pc \in Working => lock'.taken /\ lock'.pid = q
      /\ \A q \in Runs : op'[q].pc = "pid" => lock'.taken /\ lock'.pid = NoPid
      /\ \A p, q \in Runs : op'[p].pc \in Owning /\ op'[q].pc \in Owning => p = q
  BY <1>2 DEF Owning
<1>5. \A p, q, s \in Runs :
        Alive(p)' /\ Alive(q)' /\ Alive(s)' => p = q \/ q = s \/ p = s
  BY <1>1 DEF Locks
<1>6. \A q, s \in Runs :
        /\ op'[s].pc = "test" /\ Alive(q)' => q \in {s, op'[s].holder}
        /\ op'[s].pc \in {"break", "relock"} /\ Alive(q)' => q = s
  BY <1>1 DEF Locks
<1> QED BY <1>1, <1>3, <1>4, <1>5, <1>6 DEF Locks

\* A run that starts is alone, or joins one that has not found the lock taken
\* and cannot find it stale.
LEMMA LocksJoined ==
    ASSUME Locks, lock \in Lock, Unhurried, NEW r \in Runs, op[r].pc = "new",
           lock' = lock, \A q \in Runs \ {r} : op'[q] = op[q], op'[r].pc = "lock"
    PROVE  Locks'
<1>1. /\ ~Alive(r) /\ Alive(r)'
      /\ \A q \in Runs \ {r} : Alive(q)' <=> Alive(q)
  BY DEF Alive, Locking, Working, Deciding
<1>2. op'[r].pc \notin Owning /\ op'[r].pc \notin Working
  BY DEF Owning, Working
<1>3. /\ \A q \in Runs : op'[q].pc \in Working => lock'.taken /\ lock'.pid = q
      /\ \A q \in Runs : op'[q].pc = "pid" => lock'.taken /\ lock'.pid = NoPid
      /\ \A p, q \in Runs : op'[p].pc \in Owning /\ op'[q].pc \in Owning => p = q
  BY <1>2 DEF Locks
<1>4. lock.pid # r
  BY DEF Locks, Working
<1>5. \A q \in Runs : lock'.pid = q => op'[q].pc \in Working \cup {"dead"}
  BY <1>4 DEF Locks
<1>6. \A p, q, s \in Runs :
        Alive(p)' /\ Alive(q)' /\ Alive(s)' => p = q \/ q = s \/ p = s
  BY <1>1 DEF Unhurried
<1>7. ASSUME NEW p \in Runs, NEW q \in Runs, NEW s \in Runs,
             lock'.pid = p, ~Alive(p)', Alive(q)', Alive(s)'
      PROVE  q = s
  <2>1. lock.pid = p /\ p # r /\ ~Alive(p)
    BY <1>1, <1>4, <1>7
  <2>2. Stale
    BY <2>1, CopyAssumption DEF Stale, Runs, NoPid
  <2>3. \A t \in Runs : ~Alive(t)
    BY <2>2 DEF Unhurried
  <2> QED BY <1>1, <1>7, <2>3
<1>8. \A s \in Runs : op'[s].pc \notin {"test", "break", "relock"}
  BY DEF Unhurried, Deciding, Alive, Locking
<1> QED BY <1>3, <1>5, <1>6, <1>7, <1>8 DEF Locks
-----------------------------------------------------------------------------
(* What is common to the steps.                                            *)

\* Nothing is there at first, and nobody holds the lock.
LEMMA CopyInitially == Init => CopyInv
<1> SUFFICES ASSUME Init PROVE CopyInv
  OBVIOUS
<1>1. NoPid \in 0..MaxRuns
  BY CopyAssumption DEF NoPid
<1>2. NewRun \in Run /\ NewRun.pc = "new" /\ ~NewRun.building /\ ~NewRun.verified
  BY <1>1 DEF NewRun, Run
<1>3. op = [r \in Runs |-> NewRun]
  BY DEF Init
<1>4. /\ \A r \in Runs : op[r].pc = "new" /\ ~op[r].building /\ ~op[r].verified
      /\ \A r \in Runs : ~Alive(r)
  BY <1>2, <1>3 DEF Alive, Locking, Working, Deciding
<1>5. TypeOK
  BY <1>2, <1>3, LocksAre DEF Init, TypeOK
<1>6. \A r \in Runs : lock.pid # r
  BY LocksAre, CopyAssumption DEF Init, Runs, NoPid
<1>7. Locks
  BY <1>4, <1>6 DEF Locks, Owning, Working
<1>8. \A r \in Runs : Own(r)
  BY <1>4 DEF Own, Beside, InPlace, Copy, Init
<1> QED BY <1>5, <1>7, <1>8 DEF CopyInv

\* Before it works a run has nothing but its release's name, and keeps it.
LEMMA LockStep ==
    ASSUME CopyInv, NEW r \in Runs, op[r].pc \in Locking,
           op' \in [Runs -> Run], \A q \in Runs \ {r} : op'[q] = op[q],
           op'[r].pc \in Locking \cup {"sweep", "dead"}, op'[r].sha = op[r].sha,
           op'[r].building => op[r].building, op'[r].verified => op[r].verified,
           UNCHANGED <<tree, aside, scratch, current>>, lock' \in Lock, Locks'
    PROVE  CopyInv'
<1>1. TypeOK'
  BY DEF CopyInv, TypeOK
<1>2. Own(r) /\ Alive(r) /\ op[r].pc # "new"
  BY DEF CopyInv, Alive, Locking, Deciding
<1>3. op[r].sha \in Shas
  BY <1>2 DEF Own, Beside
<1>4. aside[r] = Absent /\ ~op[r].building /\ ~op[r].verified
  BY <1>2 DEF Own, Beside, Locking, Deciding, Working
<1>5. Own(r)'
  <2>1. aside'[r] = Absent /\ ~op'[r].building /\ ~op'[r].verified
    BY <1>4
  <2>2. /\ op'[r].pc # "inspect"
        /\ op'[r].pc \notin {"aside", "extract", "publish", "build", "verify",
                             "discard", "prune", "exit"}
    BY DEF Locking, Deciding
  <2>3. Beside(r)'
    BY <1>3, <2>1, <2>2 DEF Beside
  <2>4. InPlace(r)' /\ Copy(r)'
    BY <2>1, <2>2 DEF InPlace, Copy
  <2> QED BY <2>3, <2>4 DEF Own
<1>6. \A q \in Runs \ {r} : Own(q)'
  BY DEF CopyInv, Own, Beside, InPlace, Copy, Lost, Alive
<1> QED BY <1>1, <1>5, <1>6 DEF CopyInv

\* What a working run is known to have.
LEMMA WorkerHas ==
    ASSUME CopyInv, NEW r \in Runs, op[r].pc \in Working
    PROVE  /\ Alive(r) /\ lock \in Lock
           /\ op \in [Runs -> Run] /\ op[r].sha \in Shas
           /\ Own(r) /\ Beside(r) /\ InPlace(r) /\ Copy(r)
           /\ tree \in [Shas -> Dir \cup {Absent}]
           /\ aside \in [Runs -> Dir \cup {Absent}]
           /\ scratch \in SUBSET Runs
           /\ current # NoSha => current \in Shas
           /\ \A q \in Runs \ {r} : op[q].pc \notin Owning
<1>1. op[r].pc # "new" /\ op[r].pc \in Owning
  BY DEF Working, Owning
<1> QED BY <1>1 DEF CopyInv, TypeOK, Locks, Alive, Own, Beside

\* A working run touches what is the dead's at most: the others have nothing
\* beside their release and know nothing of what is in its place.
LEMMA OthersOwn ==
    ASSUME CopyInv, NEW r \in Runs, op[r].pc \in Working,
           \A q \in Runs \ {r} : op'[q] = op[q],
           \A q \in Runs \ {r} : aside'[q] = aside[q] \/ op[q].pc = "dead"
    PROVE  \A q \in Runs \ {r} : Own(q)'
<1> SUFFICES ASSUME NEW q \in Runs \ {r} PROVE Own(q)'
  OBVIOUS
<1>1. Own(q) /\ op'[q] = op[q] /\ (aside'[q] = aside[q] \/ op[q].pc = "dead")
  BY DEF CopyInv
<1>2. op[q].pc \notin Working
  BY WorkerHas DEF Owning
<1>3. ~op[q].building /\ ~op[q].verified
  BY <1>1, <1>2 DEF Own, Beside, Working
<1>4. Beside(q)'
  BY <1>1, <1>2, <1>3 DEF Own, Beside, Alive, Working, Locking, Deciding
<1>5. InPlace(q)' /\ Copy(q)'
  BY <1>1, <1>2, <1>3 DEF InPlace, Copy, Working
<1> QED BY <1>4, <1>5 DEF Own

\* A working run that goes on, in any state of its release that is its own.
LEMMA WorkStep ==
    ASSUME CopyInv, NEW r \in Runs, op[r].pc \in Working,
           op' \in [Runs -> Run], \A q \in Runs \ {r} : op'[q] = op[q],
           op'[r].pc \in Working,
           tree' \in [Shas -> Dir \cup {Absent}], aside' \in [Runs -> Dir \cup {Absent}],
           \A q \in Runs \ {r} : aside'[q] = aside[q] \/ op[q].pc = "dead",
           scratch' \in SUBSET Runs, current' = current, lock' = lock, Own(r)'
    PROVE  CopyInv'
<1>1. TypeOK'
  BY DEF CopyInv, TypeOK
<1>2. Alive(r) /\ op'[r].pc \notin {"test", "break", "relock"}
  BY DEF Alive, Working
<1>3. Locks'
  BY <1>2, LocksStay DEF CopyInv
<1>4. \A q \in Runs \ {r} : Own(q)'
  BY OthersOwn
<1> QED BY <1>1, <1>3, <1>4 DEF CopyInv

\* A run that ends leaves nothing that it vouches for.
LEMMA EndStep ==
    ASSUME CopyInv, NEW r \in Runs, Alive(r), Leave(r),
           UNCHANGED <<tree, aside, scratch, current>>,
           lock' = lock \/ (lock' = Free /\ op[r].pc \in Working)
    PROVE  CopyInv' /\ \A q \in Runs : op'[q].sha = op[q].sha
<1>1. op \in [Runs -> Run]
  BY DEF CopyInv, TypeOK
<1>2. /\ op' \in [Runs -> Run] /\ op'[r].pc = "dead" /\ op'[r].sha = op[r].sha
      /\ ~op'[r].verified /\ ~op'[r].building
      /\ \A q \in Runs \ {r} : op'[q] = op[q]
  BY <1>1, LeaveIs
<1>3. TypeOK'
  BY <1>2, LocksAre DEF CopyInv, TypeOK
<1>4. Locks'
  BY <1>2, LocksLeave DEF CopyInv
<1>5. op[r].sha \in Shas
  BY DEF CopyInv, Own, Beside, Alive, Locking, Working, Deciding
<1>6. Own(r)'
  BY <1>2, <1>5 DEF Own, Beside, InPlace, Copy, Alive, Locking, Working, Deciding
<1>7. \A q \in Runs \ {r} : Own(q)'
  BY <1>2 DEF CopyInv, Own, Beside, InPlace, Copy, Lost, Alive
<1> QED BY <1>2, <1>3, <1>4, <1>6, <1>7 DEF CopyInv
-----------------------------------------------------------------------------
(* The steps to the lock.                                                  *)

\* A run starts with nothing of its own.
LEMMA StartStep ==
    ASSUME CopyInv, "rush" \notin Faults, NEW r \in Runs, NEW s \in Shas, Start(r, s)
    PROVE  CopyInv' /\ \A q \in Runs \ {r} : op'[q] = op[q]
<1> DEFINE run == [NewRun EXCEPT !.pc = "lock", !.sha = s]
<1>1. NoPid \in 0..MaxRuns
  BY CopyAssumption DEF NoPid
<1>2. /\ run \in Run /\ run.pc = "lock" /\ run.sha = s
      /\ ~run.verified /\ ~run.building
  BY <1>1 DEF NewRun, Run, Locking
<1> HIDE DEF run
<1>3. /\ op' = [op EXCEPT ![r] = run] /\ UNCHANGED <<tree, aside, scratch, current, lock>>
      /\ op[r].pc = "new" /\ Unhurried
  BY DEF Start, run
<1>4. TypeOK'
  BY <1>2, <1>3 DEF CopyInv, TypeOK
<1>5. op'[r] = run /\ \A q \in Runs \ {r} : op'[q] = op[q]
  BY <1>3 DEF CopyInv, TypeOK
<1>6. Locks'
  BY <1>2, <1>3, <1>5, LocksJoined DEF CopyInv, TypeOK
<1>7. aside'[r] = Absent
  BY <1>3 DEF CopyInv, Own, Beside
<1>8. Own(r)'
  BY <1>2, <1>5, <1>7 DEF Own, Beside, InPlace, Copy
<1>9. \A q \in Runs \ {r} : Own(q)'
  BY <1>3, <1>5 DEF CopyInv, Own, Beside, InPlace, Copy, Lost, Alive
<1> QED BY <1>4, <1>5, <1>6, <1>8, <1>9 DEF CopyInv

\* Whoever finds no lock makes one.
LEMMA MakeLockStep ==
    ASSUME CopyInv, NEW r \in Runs, op[r].pc \in {"lock", "relock"}, ~lock.taken,
           MakeLock(r), UNCHANGED <<tree, aside, scratch, current>>
    PROVE  CopyInv'
<1>1. lock' = [taken |-> TRUE, pid |-> NoPid] /\ Goto(r, "pid") /\ "pid" \in PCs
  BY DEF MakeLock, PCs, Locking
<1>2. op \in [Runs -> Run]
  BY DEF CopyInv, TypeOK
<1>3. /\ op' \in [Runs -> Run] /\ op'[r].pc = "pid" /\ op'[r].sha = op[r].sha
      /\ op'[r].verified = op[r].verified /\ op'[r].building = op[r].building
      /\ \A q \in Runs \ {r} : op'[q] = op[q]
  BY <1>1, <1>2, GotoIs
<1>4. /\ op[r].pc \in Locking /\ op[r].pc \notin Owning /\ Alive(r)
      /\ op'[r].pc \in Locking
  BY <1>3 DEF Locking, Deciding, Owning, Working, Alive
<1>5. Locks'
  BY <1>1, <1>3, <1>4, LocksMade DEF CopyInv
<1> QED BY <1>1, <1>3, <1>4, <1>5, LocksAre, LockStep

\* Whoever finds one reads it.
LEMMA TakeLockStep ==
    ASSUME CopyInv, NEW r \in Runs, TakeLock(r)
    PROVE  CopyInv'
<1>1. op[r].pc = "lock" /\ UNCHANGED <<tree, aside, scratch, current>>
  BY DEF TakeLock
<1>2. CASE ~lock.taken /\ MakeLock(r)
  BY <1>1, <1>2, MakeLockStep
<1>3. CASE lock.taken /\ Goto(r, "read") /\ UNCHANGED lock
  <2>1. op \in [Runs -> Run] /\ lock' \in Lock /\ "read" \in PCs
    BY <1>3 DEF CopyInv, TypeOK, PCs, Locking, Deciding
  <2>2. /\ op' \in [Runs -> Run] /\ op'[r].pc = "read" /\ op'[r].sha = op[r].sha
        /\ op'[r].verified = op[r].verified /\ op'[r].building = op[r].building
        /\ \A q \in Runs \ {r} : op'[q] = op[q]
    BY <1>3, <2>1, GotoIs
  <2>3. /\ Alive(r) /\ op[r].pc \in Locking /\ op'[r].pc \in Locking
        /\ op'[r].pc \in Working \cup Deciding
        /\ op'[r].pc \in Working <=> op[r].pc \in Working
    BY <1>1, <2>2 DEF Alive, Locking, Working, Deciding
  <2>4. Locks'
    BY <1>3, <2>2, <2>3, LocksStay DEF CopyInv
  <2> QED BY <1>1, <2>1, <2>2, <2>3, <2>4, LockStep
<1> QED BY <1>2, <1>3 DEF TakeLock

\* Whoever reads a pid is alone with its owner, or alone.
LEMMA ReadPidStep ==
    ASSUME CopyInv, NEW r \in Runs, ReadPid(r)
    PROVE  CopyInv'
<1>1. op[r].pc = "read" /\ UNCHANGED <<tree, aside, scratch, current, lock>>
  BY DEF ReadPid
<1>2. Alive(r)
  BY <1>1 DEF Alive, Locking, Deciding
<1>3. CASE Leave(r)
  BY <1>1, <1>2, <1>3, EndStep
<1>4. CASE lock.pid # NoPid /\ op' = [op EXCEPT ![r].pc = "test", ![r].holder = lock.pid]
  <2> DEFINE run == [op[r] EXCEPT !.pc = "test", !.holder = lock.pid]
  <2>1. op \in [Runs -> Run] /\ lock \in Lock /\ op[r] \in Run
    BY DEF CopyInv, TypeOK
  <2>2. lock.pid \in Runs
    BY <1>4, <2>1, CopyAssumption DEF Lock, Runs, NoPid
  <2>3. lock.pid \in 0..MaxRuns
    BY <2>1 DEF Lock
  <2>4. /\ run \in Run /\ run.pc = "test" /\ run.sha = op[r].sha
        /\ run.verified = op[r].verified /\ run.building = op[r].building
        /\ run.holder = lock.pid
    BY <2>1, <2>3 DEF Run, Locking, Deciding
  <2>5. op' = [op EXCEPT ![r] = run]
    BY <1>4
  <2> HIDE DEF run
  <2>6. op' \in [Runs -> Run] /\ op'[r] = run /\ \A q \in Runs \ {r} : op'[q] = op[q]
    BY <2>1, <2>4, <2>5
  <2>7. lock.pid # r
    BY <1>1, <2>2 DEF CopyInv, Locks, Working
  <2>8. \A q \in Runs : Alive(q) => q \in {r, lock.pid}
    BY <1>2, <2>2, <2>7 DEF CopyInv, Locks
  <2>9. /\ op[r].pc \in Locking /\ op'[r].pc \in Locking
        /\ op'[r].pc \in Working \cup Deciding
        /\ op'[r].pc \in Working <=> op[r].pc \in Working
        /\ op'[r].pc \notin {"break", "relock"}
    BY <1>1, <2>4, <2>6 DEF Locking, Working, Deciding
  <2>10. Locks'
    BY <1>1, <1>2, <2>4, <2>6, <2>8, <2>9, LocksStay DEF CopyInv
  <2> QED BY <1>1, <2>1, <2>4, <2>6, <2>9, <2>10, LockStep
<1> QED BY <1>3, <1>4 DEF ReadPid

\* The one that finds the owner dead is alone.
LEMMA TestPidStep ==
    ASSUME CopyInv, NEW r \in Runs, TestPid(r)
    PROVE  CopyInv'
<1>1. op[r].pc = "test" /\ UNCHANGED <<tree, aside, scratch, current, lock>>
  BY DEF TestPid
<1>2. Alive(r)
  BY <1>1 DEF Alive, Locking, Deciding
<1>3. CASE Leave(r)
  BY <1>1, <1>2, <1>3, EndStep
<1>4. CASE ~Alive(op[r].holder) /\ Goto(r, "break")
  <2>1. op \in [Runs -> Run] /\ lock' \in Lock /\ "break" \in PCs
    BY <1>1 DEF CopyInv, TypeOK, PCs, Locking, Deciding
  <2>2. /\ op' \in [Runs -> Run] /\ op'[r].pc = "break" /\ op'[r].sha = op[r].sha
        /\ op'[r].verified = op[r].verified /\ op'[r].building = op[r].building
        /\ \A q \in Runs \ {r} : op'[q] = op[q]
    BY <1>4, <2>1, GotoIs
  <2>3. \A q \in Runs : Alive(q) => q = r
    BY <1>1, <1>4 DEF CopyInv, Locks
  <2>4. /\ op[r].pc \in Locking /\ op'[r].pc \in Locking
        /\ op'[r].pc \in Working \cup Deciding
        /\ op'[r].pc \in Working <=> op[r].pc \in Working
        /\ op'[r].pc # "test"
    BY <1>1, <2>2 DEF Locking, Working, Deciding
  <2>5. Locks'
    BY <1>1, <1>2, <2>2, <2>3, <2>4, LocksStay DEF CopyInv
  <2> QED BY <1>1, <2>1, <2>2, <2>4, <2>5, LockStep
<1> QED BY <1>3, <1>4 DEF TestPid

\* The stale lock goes.
LEMMA BreakLockStep ==
    ASSUME CopyInv, NEW r \in Runs, BreakLock(r)
    PROVE  CopyInv'
<1>1. /\ op[r].pc = "break" /\ Goto(r, "relock") /\ lock' = Free
      /\ UNCHANGED <<tree, aside, scratch, current>>
  BY DEF BreakLock
<1>2. op \in [Runs -> Run] /\ "relock" \in PCs
  BY DEF CopyInv, TypeOK, PCs, Locking, Deciding
<1>3. /\ op' \in [Runs -> Run] /\ op'[r].pc = "relock" /\ op'[r].sha = op[r].sha
      /\ op'[r].verified = op[r].verified /\ op'[r].building = op[r].building
      /\ \A q \in Runs \ {r} : op'[q] = op[q]
  BY <1>1, <1>2, GotoIs
<1>4. Locks'
  BY <1>1, <1>3, LocksBroken DEF CopyInv
<1>5. op[r].pc \in Locking /\ op'[r].pc \in Locking
  BY <1>1, <1>3 DEF Locking, Deciding
<1> QED BY <1>1, <1>3, <1>4, <1>5, LocksAre, LockStep

\* Whoever broke the lock takes it, or gives up.
LEMMA RelockStep ==
    ASSUME CopyInv, NEW r \in Runs, Relock(r)
    PROVE  CopyInv'
<1>1. op[r].pc = "relock" /\ UNCHANGED <<tree, aside, scratch, current>>
  BY DEF Relock
<1>2. Alive(r)
  BY <1>1 DEF Alive, Locking, Deciding
<1>3. CASE ~lock.taken /\ MakeLock(r)
  BY <1>1, <1>3, MakeLockStep
<1>4. CASE Leave(r) /\ UNCHANGED lock
  BY <1>1, <1>2, <1>4, EndStep
<1> QED BY <1>3, <1>4 DEF Relock

\* The pid goes into a lock that is the run's.
LEMMA WritePidStep ==
    ASSUME CopyInv, NEW r \in Runs, WritePid(r)
    PROVE  CopyInv'
<1>1. op[r].pc = "pid" /\ UNCHANGED <<tree, aside, scratch, current>>
  BY DEF WritePid
<1>2. lock.taken /\ lock \in Lock /\ op \in [Runs -> Run]
  BY <1>1 DEF CopyInv, TypeOK, Locks
<1>3. lock' = [lock EXCEPT !.pid = r] /\ Goto(r, "sweep") /\ "sweep" \in PCs
  BY <1>2 DEF WritePid, PCs, Working
<1>4. lock' \in Lock /\ lock'.taken /\ lock'.pid = r
  BY <1>2, <1>3, CopyAssumption DEF Lock, Runs
<1>5. /\ op' \in [Runs -> Run] /\ op'[r].pc = "sweep" /\ op'[r].sha = op[r].sha
      /\ op'[r].verified = op[r].verified /\ op'[r].building = op[r].building
      /\ \A q \in Runs \ {r} : op'[q] = op[q]
  BY <1>2, <1>3, GotoIs
<1>6. Locks'
  BY <1>1, <1>4, <1>5, LocksSigned DEF CopyInv
<1>7. op[r].pc \in Locking
  BY <1>1 DEF Locking
<1> QED BY <1>1, <1>4, <1>5, <1>6, <1>7, LockStep
-----------------------------------------------------------------------------
(* The steps of a worker.                                                  *)

\* A worker that goes on to its next step keeps what it knows.
LEMMA WorkerGoes ==
    ASSUME CopyInv, NEW r \in Runs, op[r].pc \in Working, NEW pc \in Working, Goto(r, pc)
    PROVE  /\ op' \in [Runs -> Run] /\ op'[r].pc = pc /\ op'[r].sha = op[r].sha
           /\ op'[r].target = op[r].target /\ op'[r].verified = op[r].verified
           /\ op'[r].building = op[r].building
           /\ \A q \in Runs \ {r} : op'[q] = op[q]
BY GotoIs DEF CopyInv, TypeOK, PCs

\* What is swept is the dead's.
LEMMA OrphansAre ==
    ASSUME CopyInv, NEW q \in Orphans
    PROVE  /\ q \in Runs /\ op[q].pc = "dead" /\ op[q].sha \in Shas
           /\ aside[q] # Absent
<1>1. q \in Runs /\ ~Alive(q) /\ aside[q] # Absent
  BY DEF Orphans
<1>2. op[q].pc # "new"
  BY <1>1 DEF CopyInv, Own, Beside
<1>3. op[q].pc = "dead"
  BY <1>1, <1>2 DEF CopyInv, TypeOK, Run, Alive
<1> QED BY <1>1, <1>2, <1>3 DEF CopyInv, Own, Beside

\* A copy of the dead goes back or away; when there is none left, nobody has
\* one.
LEMMA SweepStep ==
    ASSUME CopyInv, NEW r \in Runs, Sweep(r)
    PROVE  CopyInv'
<1>1. op[r].pc = "sweep" /\ UNCHANGED <<current, lock>> /\ op[r].pc \in Working
  BY DEF Sweep, Working
<1>2. /\ op \in [Runs -> Run] /\ op[r].sha \in Shas /\ Own(r) /\ Alive(r)
      /\ tree \in [Shas -> Dir \cup {Absent}] /\ aside \in [Runs -> Dir \cup {Absent}]
      /\ scratch \in SUBSET Runs /\ \A q \in Runs \ {r} : op[q].pc \notin Owning
  BY <1>1, WorkerHas
<1>3. aside[r] = Absent /\ ~op[r].building /\ ~op[r].verified
  BY <1>1, <1>2 DEF Own, Beside
<1>4. ASSUME NEW q \in Orphans, UNCHANGED <<scratch, op>>,
             tree' \in [Shas -> Dir \cup {Absent}],
             NEW d \in Dir \cup {Absent}, aside' = [aside EXCEPT ![q] = d]
      PROVE  CopyInv'
  <2>1. q \in Runs /\ op[q].pc = "dead" /\ q # r
    BY <1>1, OrphansAre
  <2>2. /\ aside' \in [Runs -> Dir \cup {Absent}] /\ aside'[r] = Absent
        /\ \A p \in Runs \ {r} : aside'[p] = aside[p] \/ op[p].pc = "dead"
    BY <1>2, <1>3, <1>4, <2>1
  <2>3. Own(r)'
    BY <1>1, <1>2, <1>3, <1>4, <2>2 DEF Own, Beside, InPlace, Copy
  <2> QED BY <1>1, <1>2, <1>4, <2>2, <2>3, WorkStep
<1>5. ASSUME NEW q \in Orphans, tree[op[q].sha] = Absent,
             tree' = [tree EXCEPT ![op[q].sha] = aside[q]],
             aside' = [aside EXCEPT ![q] = Absent], UNCHANGED <<scratch, op>>
      PROVE  CopyInv'
  <2>1. tree' \in [Shas -> Dir \cup {Absent}]
    BY <1>2, <1>5, OrphansAre
  <2> QED BY <1>4, <1>5, <2>1
<1>6. ASSUME NEW q \in Orphans, UNCHANGED <<tree, scratch, op>>,
             aside' = [aside EXCEPT ![q] = Removed(aside[q])]
      PROVE  CopyInv'
  <2>1. Removed(aside[q]) \in Dir \cup {Absent}
    BY <1>2, OrphansAre, RemovedIs
  <2> QED BY <1>2, <1>4, <1>6, <2>1
<1>7. CASE /\ Orphans = {} /\ scratch' = {q \in scratch : Alive(q)}
           /\ Goto(r, "inspect") /\ UNCHANGED <<tree, aside>>
  <2>1. "inspect" \in Working
    BY DEF Working
  <2>2. /\ op' \in [Runs -> Run] /\ op'[r].pc = "inspect" /\ op'[r].sha = op[r].sha
        /\ op'[r].verified = op[r].verified /\ op'[r].building = op[r].building
        /\ \A q \in Runs \ {r} : op'[q] = op[q]
    BY <1>1, <1>7, <2>1, WorkerGoes
  <2>3. \A q \in Runs \ {r} : Alive(q) => aside[q] = Absent
    BY <1>2 DEF CopyInv, Own, Beside, Owning, Working
  <2>4. \A q \in Runs : aside'[q] = Absent
    BY <1>3, <1>7, <2>3 DEF Orphans
  <2>5. Own(r)'
    BY <1>2, <1>3, <2>2, <2>4 DEF Own, Beside, InPlace, Copy
  <2> QED BY <1>1, <1>2, <1>7, <2>1, <2>2, <2>5, WorkStep
<1> QED BY <1>5, <1>6, <1>7 DEF Sweep

\* The run learns what its release is like.
LEMMA InspectStep ==
    ASSUME CopyInv, NEW r \in Runs, Inspect(r)
    PROVE  CopyInv' /\ \A q \in Runs : op'[q].sha = op[q].sha
<1> DEFINE s == op[r].sha
           pc == IF tree[s] = Installed THEN "prune"
                 ELSE IF tree[s] = Absent THEN "extract" ELSE "aside"
           tgt == IF current # NoSha /\ tree[current] # Absent THEN current ELSE NoSha
           run == [op[r] EXCEPT !.target = tgt, !.pc = pc]
<1>1. /\ op[r].pc = "inspect" /\ UNCHANGED <<tree, aside, scratch, current, lock>>
      /\ op[r].pc \in Working
  BY DEF Inspect, Working
<1>2. /\ op \in [Runs -> Run] /\ s \in Shas /\ Own(r)
      /\ tree \in [Shas -> Dir \cup {Absent}] /\ aside \in [Runs -> Dir \cup {Absent}]
      /\ scratch \in SUBSET Runs
  BY <1>1, WorkerHas
<1>3. op' = [op EXCEPT ![r] = run]
  BY DEF Inspect
<1>4. op[r] \in Run /\ tgt \in Shas \cup {NoSha}
  BY <1>2 DEF CopyInv, TypeOK
<1>5. /\ pc \in {"prune", "extract", "aside"}
      /\ pc = "extract" => tree[s] = Absent
      /\ pc = "aside" => tree[s] # Absent
      /\ pc = "prune" => tree[s].venv = "works"
  BY DEF Installed
<1> HIDE DEF pc, tgt
<1>6. /\ run \in Run /\ run.pc = pc /\ run.sha = s
      /\ run.verified = op[r].verified /\ run.building = op[r].building
  BY <1>4, <1>5 DEF Run, Working
<1> HIDE DEF run
<1>7. op'[r] = run /\ op' \in [Runs -> Run] /\ \A q \in Runs \ {r} : op'[q] = op[q]
  BY <1>2, <1>3, <1>6
<1>8. ~op[r].building /\ ~op[r].verified /\ \A q \in Runs : aside'[q] = Absent
  BY <1>1, <1>2 DEF Own, Beside
<1>9. Own(r)'
  BY <1>1, <1>2, <1>5, <1>6, <1>7, <1>8 DEF Own, Beside, InPlace, Copy
<1>10. op'[r].pc \in Working
  BY <1>5, <1>6, <1>7 DEF Working
<1> QED BY <1>1, <1>2, <1>6, <1>7, <1>9, <1>10, WorkStep

\* What is in the way goes away, or aside if it is current.
LEMMA MoveAsideStep ==
    ASSUME CopyInv, NEW r \in Runs, MoveAside(r)
    PROVE  CopyInv' /\ \A q \in Runs : op'[q].sha = op[q].sha
<1> DEFINE s == op[r].sha
<1>1. op[r].pc = "aside" /\ UNCHANGED <<scratch, current, lock>> /\ op[r].pc \in Working
  BY DEF MoveAside, Working
<1>2. /\ op \in [Runs -> Run] /\ s \in Shas /\ Own(r) /\ Alive(r)
      /\ tree \in [Shas -> Dir \cup {Absent}] /\ aside \in [Runs -> Dir \cup {Absent}]
      /\ scratch \in SUBSET Runs
  BY <1>1, WorkerHas
<1>3. aside[r] = Absent /\ ~op[r].building /\ ~op[r].verified /\ tree[s] # Absent
  BY <1>1, <1>2 DEF Own, Beside, InPlace
<1>4. CASE Remove(r)
  <2>1. Removed(tree[s]) \in Dir \cup {Absent}
    BY <1>2, RemovedIs
  <2>2. tree' = [tree EXCEPT ![s] = Removed(tree[s])] /\ UNCHANGED aside
    BY <1>4 DEF Remove
  <2>3. tree' \in [Shas -> Dir \cup {Absent}]
    BY <1>2, <2>1, <2>2
  <2>4. CASE tree'[s] = Absent
    <3>1. Goto(r, "extract") /\ "extract" \in Working
      BY <1>4, <2>4 DEF Remove, Working
    <3>2. /\ op' \in [Runs -> Run] /\ op'[r].pc = "extract" /\ op'[r].sha = s
          /\ op'[r].verified = op[r].verified /\ op'[r].building = op[r].building
          /\ \A q \in Runs \ {r} : op'[q] = op[q]
      BY <1>1, <3>1, WorkerGoes
    <3>3. Own(r)'
      BY <1>2, <1>3, <2>2, <2>4, <3>2 DEF Own, Beside, InPlace, Copy
    <3> QED BY <1>1, <1>2, <2>2, <2>3, <3>1, <3>2, <3>3, WorkStep
  <2>5. CASE tree'[s] # Absent
    <3>1. UNCHANGED op
      BY <1>4, <2>5 DEF Remove
    <3>2. Own(r)'
      BY <1>1, <1>2, <1>3, <2>2, <2>5, <3>1 DEF Own, Beside, InPlace, Copy
    <3> QED BY <1>1, <1>2, <2>2, <2>3, <3>1, <3>2, WorkStep
  <2> QED BY <2>4, <2>5
<1>5. CASE /\ aside' = [aside EXCEPT ![r] = tree[s]] /\ tree' = [tree EXCEPT ![s] = Absent]
           /\ op' = [op EXCEPT ![r].pc = "extract", ![r].verified = tree[s].venv = "works"]
  <2> DEFINE ver == tree[s].venv = "works"
             run == [op[r] EXCEPT !.pc = "extract", !.verified = ver]
  <2>1. op[r] \in Run /\ ver \in BOOLEAN /\ op' = [op EXCEPT ![r] = run]
    BY <1>2, <1>5
  <2> HIDE DEF ver
  <2>2. /\ run \in Run /\ run.pc = "extract" /\ run.sha = s /\ run.verified = ver
        /\ run.building = op[r].building
    BY <2>1 DEF Run, Working
  <2> HIDE DEF run
  <2>3. op' \in [Runs -> Run] /\ op'[r] = run /\ \A q \in Runs \ {r} : op'[q] = op[q]
    BY <1>2, <2>1, <2>2
  <2>4. /\ tree' \in [Shas -> Dir \cup {Absent}] /\ tree'[s] = Absent
        /\ aside' \in [Runs -> Dir \cup {Absent}] /\ aside'[r] = tree[s]
        /\ \A q \in Runs \ {r} : aside'[q] = aside[q]
    BY <1>2, <1>5
  <2>5. ver => aside'[r].venv = "works"
    BY <2>4 DEF ver
  <2>6. Own(r)'
    BY <1>2, <1>3, <2>2, <2>3, <2>4, <2>5 DEF Own, Beside, InPlace, Copy, Working
  <2>7. op'[r].pc \in Working
    BY <2>2, <2>3 DEF Working
  <2> QED BY <1>1, <1>2, <2>2, <2>3, <2>4, <2>6, <2>7, WorkStep
<1> QED BY <1>4, <1>5 DEF MoveAside

\* The archive is unpacked beside the releases.
LEMMA ExtractStep ==
    ASSUME CopyInv, NEW r \in Runs, Extract(r)
    PROVE  CopyInv'
<1>1. /\ op[r].pc = "extract" /\ Goto(r, "publish") /\ scratch' = scratch \cup {r}
      /\ UNCHANGED <<tree, aside, current, lock>>
      /\ op[r].pc \in Working /\ "publish" \in Working
  BY DEF Extract, Working
<1>2. /\ op \in [Runs -> Run] /\ op[r].sha \in Shas /\ Own(r) /\ Alive(r)
      /\ tree \in [Shas -> Dir \cup {Absent}] /\ aside \in [Runs -> Dir \cup {Absent}]
      /\ scratch \in SUBSET Runs
  BY <1>1, WorkerHas
<1>3. /\ op' \in [Runs -> Run] /\ op'[r].pc = "publish" /\ op'[r].sha = op[r].sha
      /\ op'[r].verified = op[r].verified /\ op'[r].building = op[r].building
      /\ \A q \in Runs \ {r} : op'[q] = op[q]
  BY <1>1, WorkerGoes
<1>4. Own(r)'
  BY <1>1, <1>2, <1>3 DEF Own, Beside, InPlace, Copy, Working
<1> QED BY <1>1, <1>2, <1>3, <1>4, WorkStep

\* The new directory appears, without a virtualenv.
LEMMA PublishStep ==
    ASSUME CopyInv, NEW r \in Runs, Publish(r)
    PROVE  CopyInv'
<1>1. /\ op[r].pc = "publish" /\ Goto(r, "build") /\ scratch' = scratch \ {r}
      /\ UNCHANGED <<aside, current, lock>>
      /\ op[r].pc \in Working /\ "build" \in Working
  BY DEF Publish, Working
<1>2. /\ op \in [Runs -> Run] /\ op[r].sha \in Shas /\ Own(r) /\ Alive(r)
      /\ tree \in [Shas -> Dir \cup {Absent}] /\ aside \in [Runs -> Dir \cup {Absent}]
      /\ scratch \in SUBSET Runs
  BY <1>1, WorkerHas
<1>3. tree[op[r].sha] = Absent
  BY <1>1, <1>2 DEF Own, InPlace
<1>4. Bare \in Dir /\ Bare.venv = "none"
  BY DEF Bare, Dir
<1>5. tree' \in [Shas -> Dir \cup {Absent}] /\ tree'[op[r].sha].venv = "none"
  BY <1>2, <1>3, <1>4 DEF Publish
<1>6. /\ op' \in [Runs -> Run] /\ op'[r].pc = "build" /\ op'[r].sha = op[r].sha
      /\ op'[r].verified = op[r].verified /\ op'[r].building = op[r].building
      /\ \A q \in Runs \ {r} : op'[q] = op[q]
  BY <1>1, WorkerGoes
<1>7. Own(r)'
  BY <1>1, <1>2, <1>5, <1>6 DEF Own, Beside, InPlace, Copy, Working
<1> QED BY <1>1, <1>2, <1>5, <1>6, <1>7, WorkStep

\* The virtualenv is broken while it is built.
LEMMA BuildStep ==
    ASSUME CopyInv, NEW r \in Runs, Build(r)
    PROVE  CopyInv' /\ tree'[op[r].sha] # Absent /\ \A q \in Runs : op'[q].sha = op[q].sha
<1> DEFINE run == [op[r] EXCEPT !.pc = "verify", !.building = TRUE]
<1>1. /\ op[r].pc = "build" /\ op' = [op EXCEPT ![r] = run]
      /\ UNCHANGED <<aside, scratch, current, lock>> /\ op[r].pc \in Working
      /\ tree' = [tree EXCEPT ![op[r].sha] = [tree[op[r].sha] EXCEPT !.venv = "broken"]]
  BY DEF Build, Working
<1>2. /\ op \in [Runs -> Run] /\ op[r].sha \in Shas /\ Own(r) /\ Alive(r)
      /\ tree \in [Shas -> Dir \cup {Absent}] /\ aside \in [Runs -> Dir \cup {Absent}]
      /\ scratch \in SUBSET Runs
  BY <1>1, WorkerHas
<1>3. tree[op[r].sha] \in Dir
  BY <1>1, <1>2, DirIsThere DEF Own, InPlace
<1>4. /\ [tree[op[r].sha] EXCEPT !.venv = "broken"] \in Dir
      /\ [tree[op[r].sha] EXCEPT !.venv = "broken"].venv = "broken"
  BY <1>3, VenvChanges
<1>5. /\ tree' \in [Shas -> Dir \cup {Absent}] /\ tree'[op[r].sha] # Absent
  BY <1>1, <1>2, <1>4 DEF Absent
<1>6. op[r] \in Run
  BY <1>2
<1>7. /\ run \in Run /\ run.pc = "verify" /\ run.sha = op[r].sha
      /\ run.verified = op[r].verified /\ run.building
  BY <1>6 DEF Run, Working
<1> HIDE DEF run
<1>8. op' \in [Runs -> Run] /\ op'[r] = run /\ \A q \in Runs \ {r} : op'[q] = op[q]
  BY <1>1, <1>2, <1>7
<1>9. op'[r].pc \in Working
  BY <1>7, <1>8 DEF Working
<1>10. Own(r)'
  BY <1>1, <1>2, <1>5, <1>7, <1>8 DEF Own, Beside, InPlace, Copy, Working
<1> QED BY <1>1, <1>2, <1>5, <1>7, <1>8, <1>9, <1>10, WorkStep

\* And works once it is verified.
LEMMA VerifyStep ==
    ASSUME CopyInv, NEW r \in Runs, Verify(r)
    PROVE  CopyInv' /\ tree'[op[r].sha] # Absent /\ \A q \in Runs : op'[q].sha = op[q].sha
<1> DEFINE run == [op[r] EXCEPT !.pc = "discard", !.building = FALSE]
<1>1. /\ op[r].pc = "verify" /\ op' = [op EXCEPT ![r] = run]
      /\ UNCHANGED <<aside, scratch, current, lock>> /\ op[r].pc \in Working
      /\ tree' = [tree EXCEPT ![op[r].sha] = [tree[op[r].sha] EXCEPT !.venv = "works"]]
  BY DEF Verify, Working
<1>2. /\ op \in [Runs -> Run] /\ op[r].sha \in Shas /\ Own(r) /\ Alive(r)
      /\ tree \in [Shas -> Dir \cup {Absent}] /\ aside \in [Runs -> Dir \cup {Absent}]
      /\ scratch \in SUBSET Runs
  BY <1>1, WorkerHas
<1>3. tree[op[r].sha] \in Dir
  BY <1>1, <1>2, DirIsThere DEF Own, InPlace
<1>4. /\ [tree[op[r].sha] EXCEPT !.venv = "works"] \in Dir
      /\ [tree[op[r].sha] EXCEPT !.venv = "works"].venv = "works"
  BY <1>3, VenvChanges
<1>5. /\ tree' \in [Shas -> Dir \cup {Absent}] /\ tree'[op[r].sha].venv = "works"
      /\ tree'[op[r].sha] # Absent
  BY <1>1, <1>2, <1>4 DEF Absent
<1>6. op[r] \in Run
  BY <1>2
<1>7. /\ run \in Run /\ run.pc = "discard" /\ run.sha = op[r].sha
      /\ run.verified = op[r].verified /\ ~run.building
  BY <1>6 DEF Run, Working
<1> HIDE DEF run
<1>8. op' \in [Runs -> Run] /\ op'[r] = run /\ \A q \in Runs \ {r} : op'[q] = op[q]
  BY <1>1, <1>2, <1>7
<1>9. op'[r].pc \in Working
  BY <1>7, <1>8 DEF Working
<1>10. Own(r)'
  BY <1>1, <1>2, <1>5, <1>7, <1>8 DEF Own, Beside, InPlace, Copy, Working
<1> QED BY <1>1, <1>2, <1>5, <1>7, <1>8, <1>9, <1>10, WorkStep

\* The copy goes when the new directory works.
LEMMA DiscardStep ==
    ASSUME CopyInv, NEW r \in Runs, Discard(r)
    PROVE  /\ CopyInv' /\ tree[op[r].sha] # Absent
           /\ \A q \in Runs : op'[q].sha = op[q].sha
<1> DEFINE d == IF aside[r] = Absent THEN aside[r] ELSE Removed(aside[r])
<1>1. /\ op[r].pc = "discard" /\ aside' = [aside EXCEPT ![r] = d]
      /\ UNCHANGED <<tree, scratch, current, lock>>
      /\ op[r].pc \in Working /\ "prune" \in Working
      /\ IF aside'[r] = Absent THEN Goto(r, "prune") ELSE UNCHANGED op
  BY DEF Discard, Working
<1>2. /\ op \in [Runs -> Run] /\ op[r].sha \in Shas /\ Own(r) /\ Alive(r)
      /\ tree \in [Shas -> Dir \cup {Absent}] /\ aside \in [Runs -> Dir \cup {Absent}]
      /\ scratch \in SUBSET Runs
  BY <1>1, WorkerHas
<1>3. tree[op[r].sha].venv = "works"
  BY <1>1, <1>2 DEF Own, InPlace
<1>4. d \in Dir \cup {Absent}
  BY <1>2, RemovedIs
<1> HIDE DEF d
<1>5. /\ aside' \in [Runs -> Dir \cup {Absent}]
      /\ \A q \in Runs \ {r} : aside'[q] = aside[q]
  BY <1>1, <1>2, <1>4
<1>6. CASE aside'[r] = Absent
  <2>1. /\ op' \in [Runs -> Run] /\ op'[r].pc = "prune" /\ op'[r].sha = op[r].sha
        /\ op'[r].verified = op[r].verified /\ op'[r].building = op[r].building
        /\ \A q \in Runs \ {r} : op'[q] = op[q]
    BY <1>1, <1>6, WorkerGoes
  <2>2. Own(r)'
    BY <1>1, <1>2, <1>3, <1>6, <2>1 DEF Own, Beside, InPlace, Copy, Working
  <2> QED BY <1>1, <1>2, <1>3, <1>5, <2>1, <2>2, WorkStep DEF Absent
<1>7. CASE aside'[r] # Absent
  <2>1. UNCHANGED op
    BY <1>1, <1>7
  <2>2. Own(r)'
    BY <1>1, <1>2, <1>3, <2>1 DEF Own, Beside, InPlace, Copy, Working
  <2> QED BY <1>1, <1>2, <1>3, <1>5, <2>1, <2>2, WorkStep DEF Absent
<1> QED BY <1>6, <1>7

\* Old releases go, the run's own stays.
LEMMA PruneStep ==
    ASSUME CopyInv, NEW r \in Runs, Prune(r)
    PROVE  CopyInv'
<1>1. /\ op[r].pc = "prune" /\ UNCHANGED <<aside, scratch, current, lock>>
      /\ op[r].pc \in Working /\ "exit" \in Working
  BY DEF Prune, Working
<1>2. /\ op \in [Runs -> Run] /\ op[r].sha \in Shas /\ Own(r) /\ Alive(r)
      /\ tree \in [Shas -> Dir \cup {Absent}] /\ aside \in [Runs -> Dir \cup {Absent}]
      /\ scratch \in SUBSET Runs
  BY <1>1, WorkerHas
<1>3. /\ aside[r] = Absent /\ tree[op[r].sha].venv = "works" /\ ~op[r].building
  BY <1>1, <1>2 DEF Own, Beside, InPlace
<1>4. ASSUME NEW s \in Shas \ {op[r].sha, op[r].target},
             tree' = [tree EXCEPT ![s] = Removed(tree[s])], UNCHANGED op
      PROVE  CopyInv'
  <2>1. Removed(tree[s]) \in Dir \cup {Absent}
    BY <1>2, RemovedIs
  <2>2. tree' \in [Shas -> Dir \cup {Absent}] /\ tree'[op[r].sha] = tree[op[r].sha]
    BY <1>2, <1>4, <2>1
  <2>3. Own(r)'
    BY <1>1, <1>2, <1>3, <1>4, <2>2 DEF Own, Beside, InPlace, Copy, Working
  <2> QED BY <1>1, <1>2, <1>4, <2>2, <2>3, WorkStep
<1>5. CASE Goto(r, "exit") /\ UNCHANGED tree
  <2>1. /\ op' \in [Runs -> Run] /\ op'[r].pc = "exit" /\ op'[r].sha = op[r].sha
        /\ op'[r].verified = op[r].verified /\ op'[r].building = op[r].building
        /\ \A q \in Runs \ {r} : op'[q] = op[q]
    BY <1>1, <1>5, WorkerGoes
  <2>2. Own(r)'
    BY <1>1, <1>2, <1>3, <1>5, <2>1 DEF Own, Beside, InPlace, Copy, Working
  <2> QED BY <1>1, <1>2, <1>5, <2>1, <2>2, WorkStep
<1> QED BY <1>4, <1>5 DEF Prune

\* A run comes to its trap with the copy that worked, unless half of it is
\* gone.
LEMMA TrapStep ==
    ASSUME CopyInv, NEW r \in Runs, Exit(r) \/ Die(r)
    PROVE  CopyInv' /\ Goto(r, "clean") /\ UNCHANGED <<tree, aside, current>>
<1>1. /\ Goto(r, "clean") /\ UNCHANGED <<tree, aside, scratch, current, lock>>
      /\ op[r].pc \in Working \ {"clean", "restore", "unlock"} /\ "clean" \in Working
  BY DEF Exit, Die, Working
<1>2. /\ op \in [Runs -> Run] /\ op[r].sha \in Shas /\ Alive(r)
      /\ Beside(r) /\ InPlace(r) /\ Copy(r)
      /\ tree \in [Shas -> Dir \cup {Absent}] /\ aside \in [Runs -> Dir \cup {Absent}]
      /\ scratch \in SUBSET Runs
  BY <1>1, WorkerHas
<1>3. /\ op' \in [Runs -> Run] /\ op'[r].pc = "clean" /\ op'[r].sha = op[r].sha
      /\ op'[r].verified = op[r].verified /\ op'[r].building = op[r].building
      /\ \A q \in Runs \ {r} : op'[q] = op[q]
  BY <1>1, WorkerGoes
<1>4. Beside(r)'
  BY <1>1, <1>2, <1>3 DEF Beside, Working
<1>5. InPlace(r)'
  BY <1>1, <1>2, <1>3 DEF InPlace, Beside, Working
<1>6. op[r].verified =>
        \/ aside[r].venv = "works" \/ Lost(r)
        \/ aside[r] = Absent /\ tree[op[r].sha].venv = "works" /\ ~op[r].building
  <2> SUFFICES ASSUME op[r].verified
               PROVE  \/ aside[r].venv = "works" \/ Lost(r)
                      \/ /\ aside[r] = Absent /\ tree[op[r].sha].venv = "works"
                         /\ ~op[r].building
    OBVIOUS
  <2>1. op[r].pc \in {"extract", "publish", "build", "verify", "discard", "prune", "exit"}
    BY <1>1, <1>2 DEF Beside, Working
  <2>2. CASE op[r].pc \in {"extract", "publish", "build", "verify"}
    BY <1>2, <2>2 DEF Copy
  <2>3. CASE op[r].pc = "discard"
    <3>1. ~op[r].building /\ Die(r)
      BY <1>2, <2>3 DEF Beside, Exit
    <3> QED BY <2>3, <3>1 DEF Die, HalfGone, Lost
  <2>4. CASE op[r].pc \in {"prune", "exit"}
    BY <1>2, <2>4 DEF Beside, InPlace
  <2> QED BY <2>1, <2>2, <2>3, <2>4
<1>7. Copy(r)'
  BY <1>1, <1>3, <1>6 DEF Copy, Lost
<1>8. Own(r)'
  BY <1>4, <1>5, <1>7 DEF Own
<1> QED BY <1>1, <1>2, <1>3, <1>8, WorkStep

\* The trap removes a virtualenv that was not verified, and nothing else.
LEMMA CleanStep ==
    ASSUME CopyInv, NEW r \in Runs, Clean(r)
    PROVE  /\ CopyInv'
           /\ tree[op[r].sha] # Absent => tree'[op[r].sha] # Absent
<1>1. /\ op[r].pc = "clean" /\ Goto(r, "restore") /\ scratch' = scratch \ {r}
      /\ tree' = [tree EXCEPT ![op[r].sha] = Unbuilt(r)]
      /\ UNCHANGED <<aside, current, lock>>
      /\ op[r].pc \in Working /\ "restore" \in Working
  BY DEF Clean, Working
<1>2. /\ op \in [Runs -> Run] /\ op[r].sha \in Shas /\ Own(r) /\ Alive(r)
      /\ Copy(r)
      /\ tree \in [Shas -> Dir \cup {Absent}] /\ aside \in [Runs -> Dir \cup {Absent}]
      /\ scratch \in SUBSET Runs
  BY <1>1, WorkerHas
<1>3. /\ Unbuilt(r) \in Dir \cup {Absent}
      /\ tree[op[r].sha] # Absent => Unbuilt(r) # Absent
      /\ op[r].building => Unbuilt(r).venv = "none"
      /\ ~op[r].building => Unbuilt(r) = tree[op[r].sha]
  <2>1. CASE op[r].building
    <3>1. tree[op[r].sha] \in Dir
      BY <1>1, <1>2, <2>1, DirIsThere DEF Own, InPlace
    <3>2. Unbuilt(r) = [tree[op[r].sha] EXCEPT !.venv = "none"]
      BY <2>1 DEF Unbuilt
    <3>3. Unbuilt(r) \in Dir /\ Unbuilt(r).venv = "none"
      BY <3>1, <3>2, VenvChanges
    <3> QED BY <2>1, <3>3, DirIsThere
  <2>2. CASE ~op[r].building
    BY <1>2, <2>2 DEF Unbuilt
  <2> QED BY <2>1, <2>2
<1>4. tree' \in [Shas -> Dir \cup {Absent}] /\ tree'[op[r].sha] = Unbuilt(r)
  BY <1>1, <1>2, <1>3
<1>5. /\ op' \in [Runs -> Run] /\ op'[r].pc = "restore" /\ op'[r].sha = op[r].sha
      /\ op'[r].verified = op[r].verified /\ op'[r].building = op[r].building
      /\ \A q \in Runs \ {r} : op'[q] = op[q]
  BY <1>1, WorkerGoes
<1>6. Beside(r)' /\ InPlace(r)'
  BY <1>1, <1>2, <1>3, <1>4, <1>5 DEF Own, Beside, InPlace, Working
<1>7. op[r].verified =>
        \/ aside[r].venv = "works" \/ Lost(r)
        \/ aside[r] = Absent /\ tree'[op[r].sha].venv = "works"
  BY <1>1, <1>2, <1>3, <1>4 DEF Copy
<1>8. Copy(r)'
  BY <1>1, <1>5, <1>7 DEF Copy, Lost
<1>9. Own(r)'
  BY <1>6, <1>8 DEF Own
<1> QED BY <1>1, <1>2, <1>3, <1>4, <1>5, <1>9, WorkStep

\* The trap puts the copy back, one that worked over whatever is there.
LEMMA RestoreStep ==
    ASSUME CopyInv, NEW r \in Runs, Restore(r)
    PROVE  CopyInv' /\ \A q \in Runs : op'[q].sha = op[q].sha
<1> DEFINE s == op[r].sha
<1>1. /\ op[r].pc = "restore" /\ UNCHANGED <<scratch, current, lock>>
      /\ op[r].pc \in Working /\ "unlock" \in Working
  BY DEF Restore, Working
<1>2. /\ op \in [Runs -> Run] /\ s \in Shas /\ Own(r) /\ Alive(r)
      /\ Beside(r) /\ InPlace(r) /\ Copy(r)
      /\ tree \in [Shas -> Dir \cup {Absent}] /\ aside \in [Runs -> Dir \cup {Absent}]
      /\ scratch \in SUBSET Runs
  BY <1>1, WorkerHas
<1>3. /\ op[r].building /\ ~op[r].verified => tree[s].venv = "none"
      /\ op[r].verified => \/ aside[r].venv = "works" \/ Lost(r)
                           \/ aside[r] = Absent /\ tree[s].venv = "works"
  BY <1>1, <1>2 DEF InPlace, Copy
<1>4. Absent.venv = "absent"
  BY DEF Absent
<1>5. CASE aside[r] = Absent /\ Goto(r, "unlock") /\ UNCHANGED <<tree, aside>>
  <2>1. /\ op' \in [Runs -> Run] /\ op'[r].pc = "unlock" /\ op'[r].sha = s
        /\ op'[r].verified = op[r].verified /\ op'[r].building = op[r].building
        /\ \A q \in Runs \ {r} : op'[q] = op[q]
    BY <1>1, <1>5, WorkerGoes
  <2>2. op[r].verified => tree[s].venv = "works" \/ Lost(r)
    BY <1>3, <1>4, <1>5
  <2>3. Beside(r)'
    BY <1>2, <1>5, <2>1 DEF Beside, Working
  <2>4. InPlace(r)'
    BY <1>3, <1>5, <2>1, <2>2 DEF InPlace, Lost
  <2>5. Copy(r)'
    BY <1>5, <2>1, <2>2 DEF Copy, Lost
  <2> QED BY <1>1, <1>2, <1>5, <2>1, <2>3, <2>4, <2>5, WorkStep DEF Own
<1>6. CASE /\ aside[r] # Absent /\ ~Restores(r) /\ UNCHANGED <<tree, op>>
           /\ aside' = [aside EXCEPT ![r] = Removed(aside[r])]
  <2>1. Removed(aside[r]) \in Dir \cup {Absent}
    BY <1>2, RemovedIs
  <2>2. /\ aside' \in [Runs -> Dir \cup {Absent}]
        /\ \A q \in Runs \ {r} : aside'[q] = aside[q]
    BY <1>2, <1>6, <2>1
  <2>3. ~op[r].verified
    BY <1>6 DEF Restores
  <2>4. Own(r)'
    BY <1>1, <1>2, <1>3, <1>6, <2>3 DEF Own, Beside, InPlace, Copy
  <2> QED BY <1>1, <1>2, <1>6, <2>2, <2>4, WorkStep
<1>7. CASE /\ aside[r] # Absent /\ Restores(r) /\ tree[s] # Absent /\ UNCHANGED <<aside, op>>
           /\ tree' = [tree EXCEPT ![s] = Removed(tree[s])]
  <2>1. Removed(tree[s]) \in Dir \cup {Absent}
    BY <1>2, RemovedIs
  <2>2. tree' \in [Shas -> Dir \cup {Absent}]
    BY <1>2, <1>7, <2>1
  <2>3. op[r].verified
    BY <1>7 DEF Restores
  <2>4. Own(r)'
    BY <1>1, <1>2, <1>3, <1>7, <2>3 DEF Own, Beside, InPlace, Copy, Lost
  <2> QED BY <1>1, <1>2, <1>7, <2>2, <2>4, WorkStep
<1>8. CASE /\ aside[r] # Absent /\ tree[s] = Absent /\ UNCHANGED op
           /\ tree' = [tree EXCEPT ![s] = aside[r]]
           /\ aside' = [aside EXCEPT ![r] = Absent]
  <2>1. /\ tree' \in [Shas -> Dir \cup {Absent}] /\ tree'[s] = aside[r]
        /\ aside' \in [Runs -> Dir \cup {Absent}] /\ aside'[r] = Absent
        /\ \A q \in Runs \ {r} : aside'[q] = aside[q]
    BY <1>2, <1>8
  <2>2. ~(op[r].building /\ ~op[r].verified)
    BY <1>3, <1>4, <1>8
  <2>3. op[r].verified => tree'[s].venv = "works" \/ Lost(r)
    BY <1>3, <1>8, <2>1
  <2>4. Beside(r)' /\ InPlace(r)'
    BY <1>1, <1>2, <1>8, <2>1, <2>2 DEF Beside, InPlace
  <2>5. Copy(r)'
    BY <1>1, <1>8, <2>1, <2>3 DEF Copy, Lost
  <2> QED BY <1>1, <1>2, <1>8, <2>1, <2>4, <2>5, WorkStep DEF Own
<1>9. \A q \in Runs : op'[q].sha = op[q].sha
  BY <1>1, <1>2, <1>5, <1>6, <1>7, <1>8, WorkerGoes DEF Restore
<1> QED BY <1>5, <1>6, <1>7, <1>8, <1>9 DEF Restore

\* A run that ends, or is killed, takes its own lock at most.
LEMMA LeaveStep ==
    ASSUME CopyInv, NEW r \in Runs, Release(r) \/ Kill(r)
    PROVE  CopyInv' /\ \A q \in Runs : op'[q].sha = op[q].sha
<1>1. CASE Release(r)
  BY <1>1, EndStep DEF Release, Alive, Working
<1>2. CASE Kill(r)
  BY <1>2, EndStep DEF Kill
<1> QED BY <1>1, <1>2

\* finops moves the symlink, which no run owns.
LEMMA RepointStep ==
    ASSUME CopyInv, NEW s \in Shas, Repoint(s)
    PROVE  CopyInv'
<1>1. current' = s /\ UNCHANGED <<tree, aside, scratch, lock, op>>
  BY DEF Repoint
<1>2. TypeOK'
  BY <1>1 DEF CopyInv, TypeOK
<1>3. Locks'
  BY <1>1 DEF CopyInv, Locks, Alive
<1>4. \A q \in Runs : Own(q)'
  BY <1>1 DEF CopyInv, Own, Beside, InPlace, Copy, Lost, Alive
<1> QED BY <1>2, <1>3, <1>4 DEF CopyInv

\* What decays is there before and after, and no run is at work.
LEMMA DecayStep ==
    ASSUME CopyInv, NEW s \in Shas, Decay(s)
    PROVE  CopyInv' /\ \A t \in Shas : tree[t] # Absent => tree'[t] # Absent
<1>1. Quiet /\ tree[s] # Absent /\ UNCHANGED <<aside, scratch, current, lock, op>>
  BY DEF Decay
<1>2. tree \in [Shas -> Dir \cup {Absent}]
  BY DEF CopyInv, TypeOK
<1>3. PICK d \in Dir : tree' = [tree EXCEPT ![s] = d]
  <2>1. tree[s] \in Dir
    BY <1>1, <1>2
  <2>2. [tree[s] EXCEPT !.venv = "broken"] \in Dir /\ [tree[s] EXCEPT !.named = FALSE] \in Dir
    BY <2>1 DEF Dir
  <2>3. \/ tree' = [tree EXCEPT ![s] = [tree[s] EXCEPT !.venv = "broken"]]
        \/ tree' = [tree EXCEPT ![s] = [tree[s] EXCEPT !.named = FALSE]]
    BY DEF Decay
  <2> QED BY <2>2, <2>3
<1>4. tree' \in [Shas -> Dir \cup {Absent}]
  BY <1>2, <1>3
<1>5. \A t \in Shas : tree[t] # Absent => tree'[t] # Absent
  BY <1>2, <1>3 DEF Dir, Absent
<1>6. TypeOK'
  BY <1>1, <1>4 DEF CopyInv, TypeOK
<1>7. Locks'
  BY <1>1 DEF CopyInv, Locks, Alive
<1>8. ASSUME NEW q \in Runs
      PROVE  Own(q)'
  <2>1. op'[q] = op[q] /\ op[q].pc \notin Working /\ Own(q)
    BY <1>1 DEF Quiet, Alive, CopyInv
  <2>2. ~op[q].building /\ ~op[q].verified
    BY <2>1 DEF Own, Beside, Working
  <2>3. Beside(q)'
    BY <1>1, <2>1 DEF Own, Beside, Alive
  <2>4. InPlace(q)' /\ Copy(q)'
    BY <2>1, <2>2 DEF InPlace, Copy, Working
  <2> QED BY <2>3, <2>4 DEF Own
<1> QED BY <1>5, <1>6, <1>7, <1>8 DEF CopyInv
-----------------------------------------------------------------------------
(* The theorems.                                                           *)

\* Every step keeps the invariant.
LEMMA CopyStep ==
    ASSUME CopyInv, "rush" \notin Faults, [Next]_vars
    PROVE  CopyInv'
<1>1. ASSUME NEW r \in Runs, Step(r)
      PROVE  CopyInv'
  BY <1>1, TakeLockStep, ReadPidStep, TestPidStep, BreakLockStep, RelockStep, WritePidStep,
     SweepStep, InspectStep, MoveAsideStep, ExtractStep, PublishStep, BuildStep, VerifyStep,
     DiscardStep, PruneStep, TrapStep, CleanStep, RestoreStep, LeaveStep DEF Step
<1>2. ASSUME NEW r \in Runs, NEW s \in Shas, Start(r, s)
      PROVE  CopyInv'
  BY <1>2, StartStep
<1>3. ASSUME NEW r \in Runs, Die(r) \/ Kill(r)
      PROVE  CopyInv'
  BY <1>3, TrapStep, LeaveStep
<1>4. ASSUME NEW s \in Shas, Repoint(s) \/ Decay(s)
      PROVE  CopyInv'
  BY <1>4, RepointStep, DecayStep
<1>5. CASE UNCHANGED vars
  <2>1. UNCHANGED <<tree, aside, scratch, current, lock, op>>
    BY <1>5 DEF vars
  <2>2. TypeOK' /\ Locks'
    BY <2>1 DEF CopyInv, TypeOK, Locks, Alive
  <2>3. \A q \in Runs : Own(q)'
    BY <2>1 DEF CopyInv, Own, Beside, InPlace, Copy, Lost, Alive
  <2> QED BY <2>2, <2>3 DEF CopyInv
<1> QED BY <1>1, <1>2, <1>3, <1>4, <1>5 DEF Next

\* Where a run is tells what is in its release directory and beside it, and
\* that the lock is its own.
THEOREM CopyInvariant == "rush" \notin Faults => (Spec => []CopyInv)
<1> SUFFICES ASSUME "rush" \notin Faults PROVE Spec => []CopyInv
  OBVIOUS
<1>1. CopyInv /\ [Next]_vars => CopyInv'
  BY CopyStep
<1> QED BY <1>1, CopyInitially, PTL DEF Spec

\* One run at a time extracts, builds, repairs and prunes (release.sh, 323),
\* when runs come unhurried.
THEOREM InstallerIsAlone == "rush" \notin Faults => (Spec => []OneInstaller)
<1> SUFFICES ASSUME "rush" \notin Faults PROVE Spec => []OneInstaller
  OBVIOUS
<1>1. CopyInv => OneInstaller
  BY DEF CopyInv, Locks, OneInstaller, Owning
<1> QED BY <1>1, CopyInvariant, PTL

\* A run of which the trap gets to its end leaves a current release that it
\* moved aside while it worked a working one (release.sh, 86), unless the
\* removal of the copy was cut short.
THEOREM WorkingCopyIsKept ==
    "rush" \notin Faults /\ "half" \notin Faults => (Spec => []VerifiedIsKept)
<1> SUFFICES ASSUME "rush" \notin Faults, "half" \notin Faults
             PROVE  Spec => []VerifiedIsKept
  OBVIOUS
<1>1. CopyInv => VerifiedIsKept
  BY DEF CopyInv, Own, Copy, Lost, VerifiedIsKept
<1> QED BY <1>1, CopyInvariant, PTL

\* Such a run leaves no virtualenv that its checks have not passed
\* (release.sh, 68), even if the removal of a copy was cut short.
THEOREM NothingIsHalfBuilt == "rush" \notin Faults => (Spec => []NoHalfBuild)
<1> SUFFICES ASSUME "rush" \notin Faults PROVE Spec => []NoHalfBuild
  OBVIOUS
<1>1. CopyInv => NoHalfBuild
  BY DEF CopyInv, Own, InPlace, NoHalfBuild
<1> QED BY <1>1, CopyInvariant, PTL
-----------------------------------------------------------------------------
(* The release that is current.                                            *)

\* A run knows what is current from when it looked until it has pruned.
Knows ==
    \A r \in Runs :
        op[r].pc \in {"aside", "extract", "publish", "build", "verify", "discard", "prune"}
            => op[r].target = current

KeptInv == CurrentIsKept /\ Knows

\* A step keeps the current release if its directory stays or becomes a copy
\* beside it, and a copy stays or becomes the directory.
LEMMA KeptIf ==
    ASSUME CopyInv, KeptInv, current' = current,
           \A q \in Runs : op'[q].sha = op[q].sha,
           current # NoSha /\ tree[current] # Absent =>
               \/ tree'[current] # Absent
               \/ \E q \in Runs : op[q].sha = current /\ aside'[q] # Absent,
           \A q \in Runs : current # NoSha /\ aside[q] # Absent /\ op[q].sha = current =>
               aside'[q] # Absent \/ tree'[current] # Absent
    PROVE  CurrentIsKept'
BY DEF KeptInv, CurrentIsKept

\* A run that goes on keeps its release, and still knows.
LEMMA KnowsOn ==
    ASSUME CopyInv, KeptInv, NEW r \in Runs, NEW pc \in PCs, Goto(r, pc),
           pc \in {"aside", "extract", "publish", "build", "verify", "discard", "prune"}
             => op[r].target = current,
           current' = current
    PROVE  Knows' /\ \A q \in Runs : op'[q].sha = op[q].sha
<1>1. op \in [Runs -> Run]
  BY DEF CopyInv, TypeOK
<1>2. /\ op'[r].pc = pc /\ op'[r].target = op[r].target /\ op'[r].sha = op[r].sha
      /\ \A q \in Runs \ {r} : op'[q] = op[q]
  BY <1>1, GotoIs
<1> QED BY <1>2 DEF KeptInv, Knows

\* A run that ends knows nothing.
LEMMA KeptByLeave ==
    ASSUME CopyInv, KeptInv, NEW r \in Runs, Leave(r), UNCHANGED <<tree, aside, current>>
    PROVE  KeptInv'
<1>1. op \in [Runs -> Run]
  BY DEF CopyInv, TypeOK
<1>2. /\ op'[r].pc = "dead" /\ op'[r].sha = op[r].sha
      /\ \A q \in Runs \ {r} : op'[q] = op[q]
  BY <1>1, LeaveIs
<1>3. Knows'
  BY <1>2 DEF KeptInv, Knows
<1>4. CurrentIsKept'
  BY <1>2 DEF KeptInv, CurrentIsKept
<1> QED BY <1>3, <1>4 DEF KeptInv

\* Steps that leave the directories.
LEMMA KeptByGoing ==
    ASSUME CopyInv, KeptInv, NEW r \in Runs, UNCHANGED <<tree, aside, current>>,
           NEW pc \in {"pid", "read", "break", "relock", "sweep", "inspect", "publish",
                       "exit", "clean", "unlock"},
           Goto(r, pc), pc = "publish" => op[r].pc = "extract"
    PROVE  KeptInv'
<1>1. pc \in PCs
  BY DEF PCs, Locking, Working, Deciding
<1>2. Knows' /\ \A q \in Runs : op'[q].sha = op[q].sha
  BY <1>1, KnowsOn DEF KeptInv, Knows
<1>3. CurrentIsKept'
  BY <1>2 DEF KeptInv, CurrentIsKept
<1> QED BY <1>2, <1>3 DEF KeptInv

\* So do the steps to the lock and out of it.
LEMMA KeptByLocks ==
    ASSUME CopyInv, KeptInv, NEW r \in Runs,
           \/ TakeLock(r) \/ ReadPid(r) \/ TestPid(r) \/ BreakLock(r) \/ Relock(r)
           \/ WritePid(r) \/ Release(r) \/ Kill(r)
    PROVE  KeptInv'
<1>1. UNCHANGED <<tree, aside, current>>
  BY DEF TakeLock, ReadPid, TestPid, BreakLock, Relock, WritePid, Release, Kill
<1>2. CASE Leave(r)
  BY <1>1, <1>2, KeptByLeave
<1>3. CASE \E pc \in {"pid", "read", "break", "relock", "sweep"} : Goto(r, pc)
  BY <1>1, <1>3, KeptByGoing
<1>4. CASE op[r].pc = "read" /\ op' = [op EXCEPT ![r].pc = "test", ![r].holder = lock.pid]
  <2> DEFINE run == [op[r] EXCEPT !.pc = "test", !.holder = lock.pid]
  <2>1. op \in [Runs -> Run] /\ op[r] \in Run /\ op' = [op EXCEPT ![r] = run]
    BY <1>4 DEF CopyInv, TypeOK
  <2>2. run.pc = "test" /\ run.sha = op[r].sha
    BY <2>1 DEF Run
  <2> HIDE DEF run
  <2>3. op'[r] = run /\ \A q \in Runs \ {r} : op'[q] = op[q]
    BY <2>1
  <2>4. Knows'
    BY <1>1, <2>2, <2>3 DEF KeptInv, Knows
  <2>5. CurrentIsKept'
    BY <1>1, <2>2, <2>3 DEF KeptInv, CurrentIsKept
  <2> QED BY <2>4, <2>5 DEF KeptInv
<1> QED BY <1>2, <1>3, <1>4 DEF TakeLock, ReadPid, TestPid, BreakLock, Relock, WritePid,
                                Release, Kill, MakeLock

\* A copy of the dead goes only when something is in its place.
LEMMA KeptBySweep ==
    ASSUME CopyInv, KeptInv, NEW r \in Runs, Sweep(r)
    PROVE  KeptInv'
<1>1. /\ current' = current /\ (current # NoSha => current \in Shas)
      /\ tree \in [Shas -> Dir \cup {Absent}] /\ aside \in [Runs -> Dir \cup {Absent}]
  BY DEF Sweep, CopyInv, TypeOK
<1>2. CASE Goto(r, "inspect") /\ UNCHANGED <<tree, aside>>
  BY <1>1, <1>2, KeptByGoing
<1>3. ASSUME NEW q \in Orphans, UNCHANGED op,
             \/ /\ tree[op[q].sha] = Absent
                /\ tree' = [tree EXCEPT ![op[q].sha] = aside[q]]
                /\ aside' = [aside EXCEPT ![q] = Absent]
             \/ /\ tree[op[q].sha] # Absent /\ UNCHANGED tree
                /\ aside' = [aside EXCEPT ![q] = Removed(aside[q])]
      PROVE  KeptInv'
  <2>1. q \in Runs /\ op[q].sha \in Shas /\ aside[q] # Absent
    BY OrphansAre
  <2>2. \A p \in Runs \ {q} : aside'[p] = aside[p]
    BY <1>1, <1>3
  <2>3. \A s \in Shas : tree[s] # Absent => tree'[s] # Absent
    BY <1>1, <1>3, <2>1
  <2>4. tree'[op[q].sha] # Absent
    BY <1>1, <1>3, <2>1
  <2>5. CurrentIsKept'
    BY <1>1, <1>3, <2>2, <2>3, <2>4, KeptIf
  <2>6. Knows'
    BY <1>1, <1>3 DEF KeptInv, Knows
  <2> QED BY <2>5, <2>6 DEF KeptInv
<1> QED BY <1>2, <1>3 DEF Sweep

\* Nothing is aside when a run looks: the current release is in its place.
LEMMA KeptByInspect ==
    ASSUME CopyInv, KeptInv, NEW r \in Runs, Inspect(r)
    PROVE  KeptInv'
<1> DEFINE tgt == IF current # NoSha /\ tree[current] # Absent THEN current ELSE NoSha
<1>1. op[r].pc = "inspect" /\ UNCHANGED <<tree, aside, scratch, current, lock>>
  BY DEF Inspect
<1>2. op \in [Runs -> Run] /\ op[r] \in Run
  BY DEF CopyInv, TypeOK
<1>3. \A q \in Runs : aside[q] = Absent
  BY <1>1 DEF CopyInv, Own, Beside
<1>4. tgt = current
  BY <1>3 DEF KeptInv, CurrentIsKept
<1>5. PICK pc : op' = [op EXCEPT ![r] = [op[r] EXCEPT !.target = tgt, !.pc = pc]]
  BY DEF Inspect
<1>6. /\ op'[r].target = current /\ op'[r].sha = op[r].sha
      /\ \A q \in Runs \ {r} : op'[q] = op[q]
  <2> DEFINE run == [op[r] EXCEPT !.target = tgt, !.pc = pc]
  <2>1. run.target = tgt /\ run.sha = op[r].sha
    <3> HIDE DEF tgt
    <3> QED BY <1>2 DEF Run
  <2> HIDE DEF run
  <2>2. op' = [op EXCEPT ![r] = run]
    BY <1>5 DEF run
  <2> QED BY <1>2, <1>4, <2>1, <2>2
<1>7. Knows'
  BY <1>1, <1>6 DEF KeptInv, Knows
<1>8. CurrentIsKept'
  BY <1>1, <1>6 DEF KeptInv, CurrentIsKept
<1> QED BY <1>7, <1>8 DEF KeptInv

\* The current release goes aside, not away.
LEMMA KeptByMoveAside ==
    ASSUME CopyInv, KeptInv, NEW r \in Runs, MoveAside(r)
    PROVE  KeptInv'
<1> DEFINE s == op[r].sha
<1>1. op[r].pc = "aside" /\ current' = current /\ op[r].pc \in Working
  BY DEF MoveAside, Working
<1>2. /\ op \in [Runs -> Run] /\ op[r] \in Run /\ s \in Shas
      /\ tree \in [Shas -> Dir \cup {Absent}] /\ aside \in [Runs -> Dir \cup {Absent}]
      /\ current # NoSha => current \in Shas
      /\ aside[r] = Absent /\ tree[s] # Absent
  BY <1>1, WorkerHas DEF Beside, InPlace
<1>3. op[r].target = current
  BY <1>1 DEF KeptInv, Knows
<1>4. \A q \in Runs : op'[q].sha = op[q].sha
  BY MoveAsideStep
<1>5. CASE s # op[r].target /\ Remove(r)
  <2>1. UNCHANGED aside /\ \A t \in Shas \ {s} : tree'[t] = tree[t]
    BY <1>2, <1>5 DEF Remove
  <2>2. current # NoSha => tree'[current] = tree[current]
    BY <1>2, <1>3, <1>5, <2>1
  <2>3. CurrentIsKept'
    BY <1>1, <1>4, <2>1, <2>2, KeptIf
  <2>4. Goto(r, "extract") \/ UNCHANGED op
    BY <1>5 DEF Remove
  <2>5. "extract" \in PCs
    BY DEF PCs, Working
  <2>6. Knows'
    BY <1>1, <1>3, <2>4, <2>5, KnowsOn DEF KeptInv, Knows
  <2> QED BY <2>3, <2>6 DEF KeptInv
<1>6. CASE /\ s = op[r].target
           /\ aside' = [aside EXCEPT ![r] = tree[s]] /\ tree' = [tree EXCEPT ![s] = Absent]
           /\ op' = [op EXCEPT ![r].pc = "extract", ![r].verified = tree[s].venv = "works"]
  <2>1. aside'[r] # Absent /\ \A q \in Runs \ {r} : aside'[q] = aside[q]
    BY <1>2, <1>6
  <2>2. CurrentIsKept'
    BY <1>1, <1>2, <1>3, <1>4, <1>6, <2>1, KeptIf
  <2>3. op'[r].target = op[r].target /\ \A q \in Runs \ {r} : op'[q] = op[q]
    <3> DEFINE ver == tree[s].venv = "works"
               run == [op[r] EXCEPT !.pc = "extract", !.verified = ver]
    <3>1. op' = [op EXCEPT ![r] = run]
      BY <1>6
    <3> HIDE DEF ver
    <3>2. run.target = op[r].target
      BY <1>2 DEF Run
    <3> HIDE DEF run
    <3> QED BY <1>2, <3>1, <3>2
  <2>4. Knows'
    BY <1>1, <1>3, <2>3 DEF KeptInv, Knows
  <2> QED BY <2>2, <2>4 DEF KeptInv
<1> QED BY <1>5, <1>6 DEF MoveAside

\* The new directory is there from its publication on.
LEMMA KeptByPublish ==
    ASSUME CopyInv, KeptInv, NEW r \in Runs, Publish(r)
    PROVE  KeptInv'
<1>1. /\ op[r].pc = "publish" /\ Goto(r, "build") /\ UNCHANGED <<aside, current>>
      /\ op[r].pc \in Working /\ "build" \in PCs
  BY DEF Publish, Working, PCs
<1>2. op[r].target = current
  BY <1>1 DEF KeptInv, Knows
<1>3. Knows' /\ \A q \in Runs : op'[q].sha = op[q].sha
  BY <1>1, <1>2, KnowsOn
<1>4. tree \in [Shas -> Dir \cup {Absent}] /\ (current # NoSha => current \in Shas)
  BY DEF CopyInv, TypeOK
<1>5. \A s \in Shas : tree[s] # Absent => tree'[s] # Absent
  BY <1>4 DEF Publish
<1>6. CurrentIsKept'
  BY <1>1, <1>3, <1>4, <1>5, KeptIf
<1> QED BY <1>3, <1>6 DEF KeptInv

\* While it is built, too.
LEMMA KeptByBuilding ==
    ASSUME CopyInv, KeptInv, NEW r \in Runs, Build(r) \/ Verify(r)
    PROVE  KeptInv'
<1>1. op[r].pc \in {"build", "verify"} /\ UNCHANGED <<aside, current>>
  BY DEF Build, Verify
<1>2. op[r].target = current /\ op \in [Runs -> Run] /\ op[r] \in Run
  BY <1>1 DEF KeptInv, Knows, CopyInv, TypeOK
<1>3. tree'[op[r].sha] # Absent /\ \A q \in Runs : op'[q].sha = op[q].sha
  BY BuildStep, VerifyStep
<1>4. tree \in [Shas -> Dir \cup {Absent}] /\ (current # NoSha => current \in Shas)
  BY DEF CopyInv, TypeOK
<1>5. \A s \in Shas : tree[s] # Absent => tree'[s] # Absent
  BY <1>3, <1>4 DEF Build, Verify
<1>6. CurrentIsKept'
  BY <1>1, <1>3, <1>4, <1>5, KeptIf
<1>7. PICK pc, b : op' = [op EXCEPT ![r] = [op[r] EXCEPT !.pc = pc, !.building = b]]
  <2>1. CASE Build(r)
    BY <2>1, Zenon DEF Build
  <2>2. CASE Verify(r)
    BY <2>2, Zenon DEF Verify
  <2> QED BY <2>1, <2>2
<1>8. op'[r].target = op[r].target /\ \A q \in Runs \ {r} : op'[q] = op[q]
  <2> DEFINE run == [op[r] EXCEPT !.pc = pc, !.building = b]
  <2>1. run.target = op[r].target
    BY <1>2 DEF Run
  <2> HIDE DEF run
  <2>2. op' = [op EXCEPT ![r] = run]
    BY <1>7 DEF run
  <2> QED BY <1>2, <2>1, <2>2
<1>9. Knows'
  BY <1>1, <1>2, <1>8 DEF KeptInv, Knows
<1> QED BY <1>6, <1>9 DEF KeptInv

\* The copy is not needed when the directory works.
LEMMA KeptByDiscard ==
    ASSUME CopyInv, KeptInv, NEW r \in Runs, Discard(r)
    PROVE  KeptInv'
<1>1. /\ op[r].pc = "discard" /\ UNCHANGED <<tree, current>>
      /\ \E d : aside' = [aside EXCEPT ![r] = d]
      /\ Goto(r, "prune") \/ UNCHANGED op
  BY DEF Discard
<1>2. tree[op[r].sha] # Absent /\ \A q \in Runs : op'[q].sha = op[q].sha
  BY DiscardStep
<1>3. op[r].target = current /\ "prune" \in PCs
  BY <1>1 DEF KeptInv, Knows, PCs, Working
<1>4. Knows'
  BY <1>1, <1>3, KnowsOn DEF KeptInv, Knows
<1>5. \A q \in Runs \ {r} : aside'[q] = aside[q]
  BY <1>1 DEF CopyInv, TypeOK
<1>6. CurrentIsKept'
  BY <1>1, <1>2, <1>5, KeptIf
<1> QED BY <1>4, <1>6 DEF KeptInv

\* What is current is not pruned.
LEMMA KeptByPrune ==
    ASSUME CopyInv, KeptInv, NEW r \in Runs, Prune(r)
    PROVE  KeptInv'
<1>1. op[r].pc = "prune" /\ UNCHANGED <<aside, current>>
  BY DEF Prune
<1>2. op[r].target = current
  BY <1>1 DEF KeptInv, Knows
<1>3. CASE Goto(r, "exit") /\ UNCHANGED tree
  BY <1>1, <1>3, KeptByGoing
<1>4. ASSUME NEW s \in Shas \ {op[r].sha, op[r].target},
             tree' = [tree EXCEPT ![s] = Removed(tree[s])], UNCHANGED op
      PROVE  KeptInv'
  <2>1. current # NoSha => tree'[current] = tree[current]
    BY <1>2, <1>4 DEF CopyInv, TypeOK
  <2>2. CurrentIsKept'
    BY <1>1, <1>4, <2>1, KeptIf
  <2>3. Knows'
    BY <1>1, <1>4 DEF KeptInv, Knows
  <2> QED BY <2>2, <2>3 DEF KeptInv
<1> QED BY <1>3, <1>4 DEF Prune

\* The trap takes a virtualenv away, not a directory.
LEMMA KeptByClean ==
    ASSUME CopyInv, KeptInv, NEW r \in Runs, Clean(r)
    PROVE  KeptInv'
<1>1. /\ Goto(r, "restore") /\ "restore" \in PCs /\ UNCHANGED <<aside, current>>
      /\ tree' = [tree EXCEPT ![op[r].sha] = Unbuilt(r)]
  BY DEF Clean, PCs, Working
<1>2. Knows' /\ \A q \in Runs : op'[q].sha = op[q].sha
  BY <1>1, KnowsOn
<1>3. tree \in [Shas -> Dir \cup {Absent}] /\ (current # NoSha => current \in Shas)
  BY DEF CopyInv, TypeOK
<1>4. tree[op[r].sha] # Absent => tree'[op[r].sha] # Absent
  BY CleanStep
<1>5. \A s \in Shas : tree[s] # Absent => tree'[s] # Absent
  BY <1>1, <1>3, <1>4
<1>6. CurrentIsKept'
  BY <1>1, <1>2, <1>3, <1>5, KeptIf
<1> QED BY <1>2, <1>6 DEF KeptInv

\* The trap removes a directory for the copy beside it, and a copy for the
\* directory.
LEMMA KeptByRestore ==
    ASSUME CopyInv, KeptInv, NEW r \in Runs, Restore(r)
    PROVE  KeptInv'
<1> DEFINE s == op[r].sha
<1>1. op[r].pc = "restore" /\ current' = current /\ op[r].pc \in Working
  BY DEF Restore, Working
<1>2. /\ s \in Shas /\ (current # NoSha => current \in Shas)
      /\ tree \in [Shas -> Dir \cup {Absent}] /\ aside \in [Runs -> Dir \cup {Absent}]
  BY <1>1, WorkerHas
<1>3. \A q \in Runs : op'[q].sha = op[q].sha
  BY RestoreStep
<1>4. CASE Goto(r, "unlock") /\ UNCHANGED <<tree, aside>>
  BY <1>1, <1>4, KeptByGoing
<1>5. ASSUME UNCHANGED op
      PROVE  Knows'
  BY <1>1, <1>5 DEF KeptInv, Knows
<1>6. CASE /\ aside[r] # Absent /\ ~Restores(r) /\ UNCHANGED <<tree, op>>
           /\ aside' = [aside EXCEPT ![r] = Removed(aside[r])]
  <2>1. tree[s] # Absent /\ \A q \in Runs \ {r} : aside'[q] = aside[q]
    BY <1>2, <1>6 DEF Restores
  <2>2. CurrentIsKept'
    BY <1>1, <1>3, <1>6, <2>1, KeptIf
  <2> QED BY <1>5, <1>6, <2>2 DEF KeptInv
<1>7. CASE /\ aside[r] # Absent /\ UNCHANGED <<aside, op>>
           /\ tree' = [tree EXCEPT ![s] = Removed(tree[s])]
  <2>1. \A t \in Shas \ {s} : tree'[t] = tree[t]
    BY <1>2, <1>7
  <2>2. CurrentIsKept'
    BY <1>1, <1>2, <1>3, <1>7, <2>1, KeptIf
  <2> QED BY <1>5, <1>7, <2>2 DEF KeptInv
<1>8. CASE /\ aside[r] # Absent /\ UNCHANGED op
           /\ tree' = [tree EXCEPT ![s] = aside[r]]
           /\ aside' = [aside EXCEPT ![r] = Absent]
  <2>1. /\ tree'[s] # Absent /\ \A t \in Shas \ {s} : tree'[t] = tree[t]
        /\ \A q \in Runs \ {r} : aside'[q] = aside[q]
    BY <1>2, <1>8
  <2>2. CurrentIsKept'
    BY <1>1, <1>2, <1>3, <2>1, KeptIf
  <2> QED BY <1>5, <1>8, <2>2 DEF KeptInv
<1> QED BY <1>4, <1>6, <1>7, <1>8 DEF Restore

\* A run that starts has nothing beside its release.
LEMMA KeptByStart ==
    ASSUME CopyInv, KeptInv, NEW r \in Runs, NEW s \in Shas, Start(r, s)
    PROVE  KeptInv'
<1>1. op[r].pc = "new" /\ UNCHANGED <<tree, aside, scratch, current, lock>>
  BY DEF Start
<1>2. aside[r] = Absent /\ op \in [Runs -> Run]
  BY <1>1 DEF CopyInv, Own, Beside, TypeOK
<1>3. op'[r].pc = "lock" /\ \A q \in Runs \ {r} : op'[q] = op[q]
  BY <1>2 DEF Start, NewRun
<1>4. Knows'
  BY <1>1, <1>3 DEF KeptInv, Knows
<1>5. CurrentIsKept'
  BY <1>1, <1>2, <1>3 DEF KeptInv, CurrentIsKept
<1> QED BY <1>4, <1>5 DEF KeptInv

\* finops points at a release that is there, and no run knows another.
LEMMA KeptByOthers ==
    ASSUME CopyInv, KeptInv, "deploy" \notin Faults, NEW s \in Shas, Repoint(s) \/ Decay(s)
    PROVE  KeptInv'
<1>1. Quiet /\ UNCHANGED <<aside, op>>
  BY DEF Repoint, Decay
<1>2. \A r \in Runs : op[r].pc \notin Working
  BY <1>1 DEF Quiet, Alive
<1>3. Knows'
  BY <1>1, <1>2 DEF Knows, Working
<1>4. CASE Repoint(s)
  <2>1. current' = s /\ tree'[s] = Installed
    BY <1>4 DEF Repoint
  <2>2. Installed # Absent
    BY DEF Installed, Absent
  <2> QED BY <1>3, <2>1, <2>2 DEF KeptInv, CurrentIsKept
<1>5. CASE Decay(s)
  <2>1. current' = current /\ (current # NoSha => current \in Shas)
    BY <1>5 DEF Decay, CopyInv, TypeOK
  <2>2. \A t \in Shas : tree[t] # Absent => tree'[t] # Absent
    BY <1>5, DecayStep
  <2>3. CurrentIsKept'
    BY <1>1, <2>1, <2>2 DEF KeptInv, CurrentIsKept
  <2> QED BY <1>3, <2>3 DEF KeptInv
<1> QED BY <1>4, <1>5

\* Every step keeps it.
LEMMA KeptStep ==
    ASSUME CopyInv, KeptInv, "deploy" \notin Faults, [Next]_vars
    PROVE  KeptInv'
<1>1. ASSUME NEW r \in Runs, Exit(r) \/ Die(r)
      PROVE  KeptInv'
  BY <1>1, TrapStep, KeptByGoing
<1>2. ASSUME NEW r \in Runs, Extract(r)
      PROVE  KeptInv'
  BY <1>2, KeptByGoing DEF Extract
<1>3. ASSUME NEW r \in Runs, Step(r) \/ Kill(r)
      PROVE  KeptInv'
  BY <1>1, <1>2, <1>3, KeptByLocks, KeptBySweep, KeptByInspect, KeptByMoveAside,
     KeptByPublish, KeptByBuilding, KeptByDiscard, KeptByPrune, KeptByClean, KeptByRestore
     DEF Step
<1>4. ASSUME NEW r \in Runs, NEW s \in Shas, Start(r, s)
      PROVE  KeptInv'
  BY <1>4, KeptByStart
<1>5. ASSUME NEW s \in Shas, Repoint(s) \/ Decay(s)
      PROVE  KeptInv'
  BY <1>5, KeptByOthers
<1>6. CASE UNCHANGED vars
  BY <1>6 DEF KeptInv, CurrentIsKept, Knows, vars
<1> QED BY <1>1, <1>3, <1>4, <1>5, <1>6 DEF Next

\* The release that is current is at its path or beside it, whatever dies
\* where, unless finops moves the symlink while a run is at work.
THEOREM CurrentStays ==
    "rush" \notin Faults /\ "deploy" \notin Faults => (Spec => []CurrentIsKept)
<1> SUFFICES ASSUME "rush" \notin Faults, "deploy" \notin Faults
             PROVE  Spec => []CurrentIsKept
  OBVIOUS
<1>1. Init => KeptInv
  BY DEF Init, KeptInv, CurrentIsKept, Knows, NewRun
<1>2. Spec => []CopyInv
  BY CopyInvariant
<1>3. CopyInv /\ KeptInv /\ [Next]_vars => KeptInv'
  BY KeptStep
<1>4. KeptInv => CurrentIsKept
  BY DEF KeptInv
<1> QED BY <1>1, <1>2, <1>3, <1>4, PTL DEF Spec
=============================================================================
