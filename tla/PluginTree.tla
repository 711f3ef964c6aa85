----------------------------- MODULE PluginTree -----------------------------
(***************************************************************************)
(* A native plugin on Linux: the broker snapshots the registered artifact, *)
(* makes a cgroup leaf for the execution and forks a launcher, which forks *)
(* a guardian, joins the leaf and becomes bubblewrap.  The guardian polls  *)
(* the broker, the launcher, a lifetime pipe and the deadline, and kills   *)
(* and removes the leaf when the broker cannot.  Any of the two may be     *)
(* killed at any moment; all termination is a write to cgroup.kill, which  *)
(* reaches the processes that are in the leaf at that moment and no other. *)
(*                                                                         *)
(* Processes are the launcher (which becomes bubblewrap) and the payload   *)
(* (what bubblewrap forks).  A killed process forks no more and leaves the *)
(* group when the kernel reaps it; what it was doing may still complete.   *)
(***************************************************************************)
EXTENDS Integers, FiniteSets

CONSTANTS Executions,
          Explicit,         \* those of an explicit registration, not of the packaged default
          Contents,         \* what the artifact's file may hold
          Registered,       \* the content whose digest the administrator pinned
          BrokerMayDie, GuardianMayDie

ASSUME RegisteredAssumption == Registered \in Contents

VARIABLES alive,     \* the broker process
          group,     \* the cgroup the broker is in: root or control
          root,      \* the cached result of initialize
          artifact,  \* the file at the registered path
          run        \* the state of each execution

vars == <<alive, group, root, artifact, run>>

\* broker, launcher and guardian are program counters; group members are live or
\* dying; lifetime is the broker's end of the pipe; grace says that the
\* guardian's own two seconds ran out; pinned that there is a digest to compare
\* with.
NoRun == [broker |-> "idle", launcher |-> "none", guardian |-> "none",
          leaf |-> "none", under |-> "none", live |-> {}, dying |-> {},
          lifetime |-> FALSE, late |-> FALSE, grace |-> FALSE, pinned |-> FALSE,
          image |-> Registered, execed |-> FALSE]

Ended(r) == r.broker \in {"ok", "failed"}
Gone(r) == r.guardian \in {"gone", "crashed"}
Populated(r) == r.live \cup r.dying # {}

\* guardian_alive and check_guardian: the guardian has not exited and there is
\* time left.
GuardianAlive(r) == ~ Gone(r) /\ ~ r.late

\* A write to cgroup.kill, which fails on a removed leaf.
Kill(r) == IF r.leaf # "there" THEN r
           ELSE [r EXCEPT !.live = {}, !.dying = @ \cup r.live]

Exit(r, p) == [r EXCEPT !.live = @ \ {p}, !.dying = @ \ {p}]

LauncherExit(r) == [Exit(r, "launcher") EXCEPT !.launcher = "exited"]

RemoveIfEmpty(r) == IF Populated(r) THEN r ELSE [r EXCEPT !.leaf = "removed"]

\* Drop of KillPluginTree: one write, no wait, and a leaf that is not empty is
\* the guardian's.
Drop(r) ==
    LET killed == Kill(r)
    IN  [(IF r.leaf = "there" THEN RemoveIfEmpty(killed) ELSE r) EXCEPT !.lifetime = FALSE]

\* kill_on_drop or start_kill of the direct child, then the tree's own Drop.
KillChild(r) ==
    IF r.launcher \notin {"none", "exited"}
    THEN [r EXCEPT !.launcher = "killed", !.live = @ \ {"launcher"},
                   !.dying = IF "launcher" \in r.live THEN @ \cup {"launcher"} ELSE @]
    ELSE r

Fail(r) == [Drop(KillChild(r)) EXCEPT !.broker = "failed"]

Init ==
    /\ alive = TRUE
    /\ group = "root"
    /\ root = "unset"
    /\ artifact \in Contents
    /\ run = [e \in Executions |-> NoRun]

Set(e, r) == run' = [run EXCEPT ![e] = r]
Others == UNCHANGED <<alive, group, root, artifact>>

-----------------------------------------------------------------------------
\* The file at the registered path may be replaced at any time.
ReplaceArtifact ==
    /\ \E c \in Contents \ {artifact} : artifact' = c
    /\ UNCHANGED <<alive, group, root, run>>

\* snapshot reads the artifact once ...
Read(e, pinned) ==
    /\ alive /\ run[e].broker = "idle"
    /\ Set(e, [run[e] EXCEPT !.broker = "read", !.image = artifact, !.pinned = pinned])
    /\ Others

\* ... and what it read is what is hashed, copied and executed.  Only an
\* explicit registration has a digest to compare with.
Snapshot(e) ==
    /\ alive /\ run[e].broker = "read"
    /\ Set(e, IF (run[e].pinned => run[e].image = Registered) /\ ~ run[e].late
              THEN [run[e] EXCEPT !.broker = "snapshot"] ELSE Fail(run[e]))
    /\ Others

\* root(): the first call moves the broker to the control group and may fail
\* before or after that; the result, failure too, is kept.
InitializeRoot ==
    /\ root = "unset"
    /\ \/ root' = group /\ group' = "control"
       \/ root' = "failed" /\ group' \in {group, "control"}

Initialize ==
    /\ alive /\ \E e \in Executions : run[e].broker = "snapshot"
    /\ InitializeRoot
    /\ UNCHANGED <<alive, artifact, run>>

\* prepare: the leaf and its limits; a failure removes the empty leaf again.
Prepare(e) ==
    /\ alive /\ run[e].broker = "snapshot" /\ root # "unset"
    /\ \/ /\ root # "failed" /\ ~ run[e].late
          /\ Set(e, [run[e] EXCEPT !.broker = "spawning", !.launcher = "forked",
                                   !.leaf = "there", !.under = root, !.lifetime = TRUE])
       \/ Set(e, Fail(run[e]))
    /\ Others

-----------------------------------------------------------------------------
\* pre_exec.  A step that fails ends the launcher, and with it the spawn.
\* The death signal: until it is cleared, the broker's end kills the launcher.
Arm(e) ==
    /\ run[e].launcher = "forked"
    /\ \/ alive /\ Set(e, [run[e] EXCEPT !.launcher = "arming", !.guardian = "starting"])
       \/ Set(e, LauncherExit(run[e]))
    /\ Others

\* receive_armed: the acknowledgement carries the guardian's own descriptor; a
\* launcher that gets none waits for the deadline.
Armed(e) ==
    /\ run[e].launcher = "arming"
    /\ run[e].guardian = "polling" \/ run[e].late
    /\ Set(e, IF GuardianAlive(run[e])
              THEN [run[e] EXCEPT !.launcher = "armed"] ELSE LauncherExit(run[e]))
    /\ Others

\* Membership, which fails once the leaf is removed, and the guardian again.
Join(e) ==
    /\ run[e].launcher = "armed"
    /\ Set(e, IF run[e].leaf = "there"
              THEN [run[e] EXCEPT !.launcher = "joined", !.live = @ \cup {"launcher"}]
              ELSE LauncherExit(run[e]))
    /\ Others

CheckJoined(e) ==
    /\ run[e].launcher = "joined"
    /\ Set(e, IF GuardianAlive(run[e]) THEN [run[e] EXCEPT !.launcher = "checked"]
              ELSE LauncherExit(run[e]))
    /\ Others

ClearDeathSignal(e) ==
    /\ run[e].launcher = "checked"
    /\ Set(e, [run[e] EXCEPT !.launcher = "cleared"])
    /\ Others

\* getppid after the signal is cleared: the broker may have died just before.
CheckParent(e) ==
    /\ run[e].launcher = "cleared"
    /\ Set(e, IF alive THEN [run[e] EXCEPT !.launcher = "limited"] ELSE LauncherExit(run[e]))
    /\ Others

\* The limits, the descriptors and the last look at the guardian, then exec.
Exec(e) ==
    /\ run[e].launcher = "limited"
    /\ \/ /\ GuardianAlive(run[e])
          /\ Set(e, [run[e] EXCEPT !.launcher = "exec", !.execed = TRUE])
       \/ Set(e, LauncherExit(run[e]))
    /\ Others

\* Bubblewrap and the plugin, which may run on, exit, or be killed by the memory
\* limit as a group.
ForkPayload(e) ==
    /\ run[e].launcher = "exec" /\ "launcher" \in run[e].live
    /\ "payload" \notin run[e].live \cup run[e].dying
    /\ Set(e, [run[e] EXCEPT !.live = @ \cup {"payload"}])
    /\ Others

PluginExits(e) ==
    /\ run[e].launcher = "exec"
    /\ \/ "launcher" \in run[e].live /\ Set(e, LauncherExit(run[e]))
       \/ "payload" \in run[e].live /\ Set(e, LauncherExit(Exit(run[e], "payload")))
    /\ Others

OutOfMemory(e) ==
    /\ run[e].launcher = "exec" /\ run[e].live # {}
    /\ Set(e, Kill(run[e]))
    /\ Others

\* The kernel reaps a killed process.
Reap(e) ==
    /\ \E p \in run[e].dying :
         Set(e, IF p = "launcher" THEN LauncherExit(run[e]) ELSE Exit(run[e], p))
    /\ Others

ReapOutside(e) ==
    /\ run[e].launcher = "killed" /\ "launcher" \notin run[e].dying
    /\ Set(e, [run[e] EXCEPT !.launcher = "exited"])
    /\ Others

-----------------------------------------------------------------------------
\* plugin_reaper_hook: with the deadline past or the leaf removed it cleans up
\* and ends, otherwise it acknowledges and polls.
GuardianStarts(e) ==
    /\ run[e].guardian = "starting"
    /\ \/ /\ run[e].leaf = "there" /\ ~ run[e].late
          /\ Set(e, [run[e] EXCEPT !.guardian = "polling"])
       \/ Set(e, [run[e] EXCEPT !.guardian = "cleanup"])
    /\ Others

\* The launcher ended: kill what it left, but keep the acknowledgement open for
\* a broker that is still draining.
GuardianSeesLauncher(e) ==
    /\ run[e].guardian = "polling" /\ run[e].launcher = "exited"
    /\ Set(e, IF run[e].leaf = "there" THEN [Kill(run[e]) EXCEPT !.guardian = "watching"]
              ELSE [run[e] EXCEPT !.guardian = "cleanup"])
    /\ Others

\* The broker died, dropped the tree, or the time is over.
GuardianSeesEnd(e) ==
    /\ run[e].guardian \in {"polling", "watching"}
    /\ ~ alive \/ ~ run[e].lifetime \/ run[e].late
    /\ Set(e, [run[e] EXCEPT !.guardian = "cleanup"])
    /\ Others

\* guardian_cleanup: one kill, two seconds to drain, then the leaf.
GuardianKills(e) ==
    /\ run[e].guardian = "cleanup"
    /\ Set(e, IF run[e].leaf = "there" THEN [Kill(run[e]) EXCEPT !.guardian = "draining"]
              ELSE [run[e] EXCEPT !.guardian = "gone"])
    /\ Others

GuardianDrains(e) ==
    /\ run[e].guardian = "draining"
    /\ \/ ~ Populated(run[e]) /\ Set(e, [run[e] EXCEPT !.guardian = "gone", !.leaf = "removed"])
       \/ Populated(run[e]) /\ Set(e, [run[e] EXCEPT !.guardian = "gone", !.grace = TRUE])
    /\ Others

-----------------------------------------------------------------------------
\* spawn returns, with an error when pre_exec failed; then check_guardian.
Spawned(e) ==
    /\ alive /\ run[e].broker = "spawning"
    /\ \/ /\ run[e].execed /\ GuardianAlive(run[e])
          /\ Set(e, [run[e] EXCEPT !.broker = "exchange"])
       \/ /\ run[e].execed \/ run[e].launcher = "exited"
          /\ ~ run[e].execed \/ ~ GuardianAlive(run[e])
          /\ Set(e, Fail(run[e]))
    /\ Others

\* The child ended by itself and its output is whole: on to finish.  A failed
\* exit, the output's limit, the deadline, a lost guardian and the caller's
\* cancellation all end the execution.
Completed(e) ==
    /\ alive /\ run[e].broker = "exchange" /\ run[e].launcher = "exited"
    /\ GuardianAlive(run[e])
    /\ Set(e, [run[e] EXCEPT !.broker = "finishing"])
    /\ Others

Abandon(e) ==
    /\ alive /\ run[e].broker \in {"exchange", "finishing", "draining"}
    /\ Set(e, Fail(run[e]))
    /\ Others

\* finish: kill, wait until the leaf is empty, remove it, and ask once more
\* whether the guardian lives.
Finish(e) ==
    /\ alive /\ run[e].broker = "finishing" /\ GuardianAlive(run[e])
    /\ Set(e, [Kill(run[e]) EXCEPT !.broker = "draining"])
    /\ Others

DrainedUnchecked(e) ==
    /\ alive /\ run[e].broker = "draining" /\ GuardianAlive(run[e])
    /\ Set(e, [run[e] EXCEPT !.broker = "removed"])
    /\ Others
Drained(e) ==
    /\ alive /\ run[e].broker = "draining" /\ GuardianAlive(run[e])
    /\ ~ Populated(run[e])
    /\ Set(e, IF run[e].leaf = "there" THEN [run[e] EXCEPT !.leaf = "removed", !.broker = "removed"]
              ELSE Fail(run[e]))
    /\ Others

Return(e) ==
    /\ alive /\ run[e].broker = "removed"
    /\ Set(e, [run[e] EXCEPT !.broker = IF GuardianAlive(run[e]) THEN "ok" ELSE "failed",
                             !.lifetime = FALSE])
    /\ Others

-----------------------------------------------------------------------------
DeadlinePasses(e) ==
    /\ ~ run[e].late /\ run[e].broker # "idle"
    /\ Set(e, [run[e] EXCEPT !.late = TRUE])
    /\ Others

\* The broker is killed: its launchers get their death signal, and every
\* lifetime pipe is closed.
DeathSignalSet(r) == r.launcher \in {"arming", "armed", "joined", "checked"}

BrokerDies ==
    /\ BrokerMayDie /\ alive
    /\ alive' = FALSE
    /\ run' = [e \in Executions |->
                 [(IF DeathSignalSet(run[e]) THEN KillChild(run[e]) ELSE run[e])
                    EXCEPT !.lifetime = FALSE]]
    /\ UNCHANGED <<group, root, artifact>>

GuardianDies(e) ==
    /\ GuardianMayDie
    /\ run[e].guardian \in {"starting", "polling", "watching", "cleanup", "draining"}
    /\ Set(e, [run[e] EXCEPT !.guardian = "crashed"])
    /\ Others

Over ==
    /\ \A e \in Executions : (Ended(run[e]) \/ ~ alive) /\ run[e].dying = {}
    /\ UNCHANGED vars

LauncherStep(e) ==
    \/ Arm(e) \/ Armed(e) \/ Join(e) \/ CheckJoined(e) \/ ClearDeathSignal(e)
    \/ CheckParent(e) \/ Exec(e)

GuardianStep(e) ==
    \/ GuardianStarts(e) \/ GuardianSeesLauncher(e) \/ GuardianSeesEnd(e)
    \/ GuardianKills(e) \/ GuardianDrains(e)

BrokerStep(e) ==
    \/ Snapshot(e) \/ Prepare(e) \/ Spawned(e) \/ Completed(e) \/ Finish(e)
    \/ Drained(e) \/ Return(e)

Next ==
    \/ ReplaceArtifact \/ Initialize \/ BrokerDies \/ Over
    \/ \E e \in Executions :
         \/ Read(e, e \in Explicit)
         \/ BrokerStep(e) \/ Abandon(e) \/ LauncherStep(e) \/ GuardianStep(e)
         \/ ForkPayload(e) \/ PluginExits(e) \/ OutOfMemory(e) \/ Reap(e) \/ ReapOutside(e)
         \/ DeadlinePasses(e) \/ GuardianDies(e)

Spec == Init /\ [][Next]_vars

\* The processes are scheduled, killed processes are reaped and the deadline
\* passes; the plugin need not exit.
Fairness ==
    /\ WF_vars(Initialize)
    /\ \A e \in Executions :
         /\ WF_vars(BrokerStep(e)) /\ WF_vars(LauncherStep(e)) /\ WF_vars(GuardianStep(e))
         /\ WF_vars(Reap(e)) /\ WF_vars(ReapOutside(e)) /\ WF_vars(DeadlinePasses(e))
         /\ WF_vars(run[e].late /\ Abandon(e))

FairSpec == Spec /\ Fairness

-----------------------------------------------------------------------------
Steps == {"none", "forked", "arming", "armed", "joined", "checked", "cleared", "limited",
          "exec", "killed", "exited"}

\* The program counters, and what they say of the leaf: a process is in it only
\* while it exists, and the launcher is in it from its membership to its end.
TypeOK ==
    /\ root \in {"unset", "failed", "root", "control"} /\ group \in {"root", "control"}
    /\ \A e \in Executions :
         LET r == run[e]
         IN  /\ r.launcher \in Steps /\ r.leaf \in {"none", "there", "removed"}
             /\ r.live \cap r.dying = {} /\ r.live \cup r.dying \subseteq {"launcher", "payload"}
             /\ Populated(r) => r.leaf = "there"
             /\ r.launcher \in {"joined", "checked", "cleared", "limited", "exec"} =>
                  "launcher" \in r.live \cup r.dying

\* A success is told only when nothing of the plugin is left: no process, not
\* even one being killed, and no leaf.
SuccessMeansEmpty ==
    \A e \in Executions :
       run[e].broker = "ok" => run[e].leaf = "removed" /\ ~ Populated(run[e])

\* A guardian that ends by itself leaves no process of the plugin running: what
\* joins the leaf after its kill never becomes bubblewrap.
GuardianLeavesNone ==
    \A e \in Executions :
       run[e].guardian = "gone" =>
          /\ "payload" \notin run[e].live
          /\ run[e].launcher = "exec" => "launcher" \in run[e].dying

\* Of an explicit registration the content that is executed is the one the
\* administrator pinned, whatever happens to the file meanwhile.
ExecutesRegistered ==
    \A e \in Executions :
       run[e].launcher = "exec" /\ run[e].pinned => run[e].image = Registered

\* Every leaf is a child of the delegated group, never of the control group the
\* broker moved itself to.
LeafUnderDelegatedRoot ==
    \A e \in Executions : run[e].under \in {"none", "root"}

=============================================================================
