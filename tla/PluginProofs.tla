--------------------------- MODULE PluginProofs ---------------------------
(***************************************************************************)
(* A plugin's processes, for any number of executions of PluginTree and    *)
(* whoever may die: what a success, the end of the guardian and the start  *)
(* of the plugin's program say of the leaf and of what runs in it.         *)
(***************************************************************************)
EXTENDS PluginTree, TLAPS

\* The processes, where a launcher is in the leaf, where it takes no more steps,
\* and the record of an execution.
Procs == {"launcher", "payload"}
InLeaf == {"joined", "checked", "cleared", "limited", "exec"}
Halted == {"killed", "exited"}
RunType ==
    [broker : {"idle", "read", "snapshot", "spawning", "exchange", "finishing", "draining", "removed",
               "ok", "failed"},
     launcher : Steps,
     guardian : {"none", "starting", "polling", "watching", "cleanup", "draining", "gone", "crashed"},
     leaf : {"none", "there", "removed"}, under : {"none", "root", "control", "failed", "unset"},
     live : SUBSET Procs, dying : SUBSET Procs,
     lifetime : BOOLEAN, late : BOOLEAN, grace : BOOLEAN, pinned : BOOLEAN, image : Contents, execed : BOOLEAN]

\* What an execution's leaf holds: processes that exist, in a leaf that is there,
\* and no leaf once the broker has removed it.
LeafRight(r) ==
    /\ r.live \cap r.dying = {}
    /\ Populated(r) => r.leaf = "there"
    /\ r.launcher \in InLeaf => "launcher" \in r.live \cup r.dying
    /\ r.broker \in {"idle", "read", "snapshot"} =>
          r.leaf = "none" /\ r.launcher = "none" /\ r.guardian = "none" /\ ~r.lifetime
    /\ r.broker \in {"finishing", "draining", "removed", "ok"} => r.launcher = "exited"
    /\ r.broker \in {"removed", "ok"} => r.leaf = "removed"
    /\ r.pinned /\ (r.broker = "snapshot" \/ r.launcher # "none") => r.image = Registered
    /\ Populated(r) => r.launcher \in InLeaf \cup Halted
    /\ r.launcher = "none" => r.guardian = "none"
    /\ r.under \in {"none", "root"}

\* Why a launcher that the guardian will not reach never becomes bubblewrap: the
\* guardian lets go only after the deadline, after the broker's end, or when the
\* launcher has no way on.
GuardRight(a, r) ==
    /\ r.guardian = "none" => r.launcher \in {"none", "forked"} \cup Halted
    /\ r.guardian = "starting" => r.launcher \in {"arming"} \cup Halted
    /\ a /\ ~r.lifetime => r.launcher \in {"none"} \cup Halted
    /\ ~a => r.launcher \in {"none", "forked", "cleared", "limited", "exec"} \cup Halted
    /\ r.guardian = "cleanup" => r.late \/ ~a \/ r.launcher \in {"arming"} \cup Halted
    /\ r.guardian = "draining" /\ ~r.late =>
          r.live = {} /\ (~a \/ r.launcher \in {"arming"} \cup Halted)
    /\ r.guardian \in {"draining", "gone"} =>
          "payload" \notin r.live /\ ("launcher" \in r.live => r.launcher # "exec")

\* An execution while the broker is alive, or not.
Right(a, r) == r \in RunType /\ LeafRight(r) /\ GuardRight(a, r)

\* The inductive invariant; the root is asked for before the broker has moved.
PluginInv ==
    /\ alive \in BOOLEAN /\ group \in {"root", "control"} /\ artifact \in Contents
    /\ root \in {"unset", "failed", "root"} /\ (root = "unset" => group = "root")
    /\ run \in [Executions -> RunType]
    /\ \A e \in Executions : Right(alive, run[e])

-----------------------------------------------------------------------------
(* What the operations make of an execution's record.                      *)

\* What the steps of processes leave of an execution as it was.
Kept(r, s) ==
    /\ s.broker = r.broker /\ s.guardian = r.guardian /\ s.leaf = r.leaf /\ s.under = r.under
    /\ s.lifetime = r.lifetime /\ s.late = r.late /\ s.image = r.image /\ s.pinned = r.pinned

\* What changes who is in the leaf changes nothing else.
LEMMA LeafUpdate ==
    ASSUME NEW r \in RunType, NEW l \in SUBSET Procs,
           NEW d \in SUBSET Procs, NEW s, s = [r EXCEPT !.live = l, !.dying = d]
    PROVE  /\ s \in RunType
           /\ s.live = l /\ s.dying = d
           /\ s.launcher = r.launcher /\ Kept(r, s)
BY DEF RunType, Kept

\* A write to cgroup.kill.
LEMMA KillFacts ==
    ASSUME NEW r \in RunType, LeafRight(r), NEW s, s = Kill(r)
    PROVE  /\ s \in RunType
           /\ s.live = {} /\ s.dying = r.dying \cup r.live
           /\ s.launcher = r.launcher /\ Kept(r, s)
<1>1. CASE r.leaf = "there"
  <2>1. PICK d \in SUBSET Procs : d = r.dying \cup r.live
    BY DEF RunType, Procs
  <2>2. PICK l \in SUBSET Procs : l = {}
    OBVIOUS
  <2>3. s = [r EXCEPT !.live = l, !.dying = d]
    BY <1>1, <2>1, <2>2 DEF Kill
  <2>4. s \in RunType /\ s.live = l /\ s.dying = d /\ s.launcher = r.launcher /\ Kept(r, s)
    BY <2>3 DEF RunType, Kept
  <2> QED
    BY <2>1, <2>2, <2>4
<1>2. CASE r.leaf # "there"
  <2>1. s = r /\ r.live = {} /\ r.dying = {}
    BY <1>2 DEF Kill, LeafRight, Populated
  <2> QED
    BY <2>1 DEF Kept
<1> QED
  BY <1>1, <1>2

\* A kill leaves the record right.
LEMMA KillRight ==
    ASSUME NEW a \in BOOLEAN, NEW r, Right(a, r), NEW s, s = Kill(r)
    PROVE  Right(a, s)
<1>1. /\ s \in RunType
      /\ s.live = {} /\ s.dying = r.dying \cup r.live
      /\ s.launcher = r.launcher /\ Kept(r, s)
  BY KillFacts DEF Right
<1>2. LeafRight(s)
  BY <1>1 DEF Right, LeafRight, Populated, Kept
<1>3. GuardRight(a, s)
  BY <1>1 DEF Right, GuardRight, Kept
<1> QED
  BY <1>1, <1>2, <1>3 DEF Right

\* A process of the leaf ends.
LEMMA ExitFacts ==
    ASSUME NEW r \in RunType, NEW p \in Procs, NEW s, s = Exit(r, p)
    PROVE  /\ s \in RunType
           /\ s.live = r.live \ {p} /\ s.dying = r.dying \ {p}
           /\ s.launcher = r.launcher /\ Kept(r, s)
<1>1. PICK l \in SUBSET Procs, d \in SUBSET Procs :
          l = r.live \ {p} /\ d = r.dying \ {p}
  BY DEF RunType, Procs
<1>2. s = [r EXCEPT !.live = l, !.dying = d]
  BY <1>1 DEF Exit
<1> QED
  BY <1>1, <1>2, LeafUpdate

\* The launcher ends.
LEMMA LauncherExitFacts ==
    ASSUME NEW r \in RunType, NEW s, s = LauncherExit(r)
    PROVE  /\ s \in RunType /\ s.launcher = "exited"
           /\ s.live = r.live \ {"launcher"} /\ s.dying = r.dying \ {"launcher"}
           /\ Kept(r, s)
<1>1. PICK q : q = Exit(r, "launcher")
  OBVIOUS
<1>2. /\ q \in RunType
      /\ q.live = r.live \ {"launcher"} /\ q.dying = r.dying \ {"launcher"}
      /\ q.launcher = r.launcher /\ Kept(r, q)
  BY <1>1, ExitFacts DEF Procs
<1>3. s = [q EXCEPT !.launcher = "exited"]
  BY <1>1 DEF LauncherExit
<1> QED
  BY <1>2, <1>3 DEF RunType, Steps, Kept

\* The launcher's end leaves the record right, unless it never was.
LEMMA LauncherExitRight ==
    ASSUME NEW a \in BOOLEAN, NEW r, Right(a, r), NEW s, s = LauncherExit(r), r.launcher # "none"
    PROVE  Right(a, s)
<1>1. /\ s \in RunType /\ s.launcher = "exited"
      /\ s.live = r.live \ {"launcher"} /\ s.dying = r.dying \ {"launcher"}
      /\ Kept(r, s)
  BY LauncherExitFacts DEF Right
<1>2. LeafRight(s)
  BY <1>1 DEF Right, LeafRight, Populated, InLeaf, Halted, Kept
<1>3. GuardRight(a, s)
  BY <1>1 DEF Right, GuardRight, Kept, Halted
<1> QED
  BY <1>1, <1>2, <1>3 DEF Right

\* The broker's kill of its child.
LEMMA KillChildFacts ==
    ASSUME NEW r \in RunType, LeafRight(r), NEW s, s = KillChild(r)
    PROVE  /\ s \in RunType
           /\ s.launcher = IF r.launcher \in {"none", "exited"} THEN r.launcher ELSE "killed"
           /\ s.live \subseteq r.live /\ s.live \cap s.dying = {}
           /\ s.live \cup s.dying = r.live \cup r.dying
           /\ "launcher" \in s.live => "launcher" \in r.live /\ r.launcher \in {"none", "exited"}
           /\ Kept(r, s)
<1>1. CASE r.launcher \in {"none", "exited"}
  BY <1>1 DEF KillChild, LeafRight, Kept
<1>2. CASE r.launcher \notin {"none", "exited"}
  <2>1. PICK d \in SUBSET Procs :
            d = IF "launcher" \in r.live THEN r.dying \cup {"launcher"} ELSE r.dying
    BY DEF RunType, Procs
  <2>2. PICK l \in SUBSET Procs : l = r.live \ {"launcher"}
    BY DEF RunType, Procs
  <2>4. s = [r EXCEPT !.launcher = "killed", !.live = l, !.dying = d]
    BY <1>2, <2>1, <2>2 DEF KillChild
  <2>3. /\ s \in RunType /\ s.launcher = "killed" /\ s.live = r.live \ {"launcher"} /\ s.dying = d
        /\ Kept(r, s)
    BY <2>2, <2>4 DEF RunType, Steps, Kept
  <2> QED
    BY <1>2, <2>1, <2>3 DEF LeafRight
<1> QED
  BY <1>1, <1>2

\* The child is killed, and the leaf with it.
LEMMA KillChildRight ==
    ASSUME NEW a \in BOOLEAN, NEW r, Right(a, r), NEW s, s = KillChild(r)
    PROVE  Right(a, s)
<1>1. r \in RunType /\ LeafRight(r) /\ GuardRight(a, r)
  BY DEF Right
<1>2. /\ s \in RunType
      /\ s.launcher = IF r.launcher \in {"none", "exited"} THEN r.launcher ELSE "killed"
      /\ s.live \subseteq r.live /\ s.live \cap s.dying = {}
      /\ s.live \cup s.dying = r.live \cup r.dying
      /\ "launcher" \in s.live => "launcher" \in r.live /\ r.launcher \in {"none", "exited"}
      /\ Kept(r, s)
  BY <1>1, KillChildFacts
<1>3. LeafRight(s)
  BY <1>1, <1>2 DEF LeafRight, Populated, InLeaf, Halted, Kept
<1>4. GuardRight(a, s)
  BY <1>1, <1>2 DEF GuardRight, Halted, Kept
<1> QED
  BY <1>2, <1>3, <1>4 DEF Right

\* The broker lets go of the tree.
LEMMA DropFacts ==
    ASSUME NEW r \in RunType, LeafRight(r), NEW s, s = Drop(r)
    PROVE  /\ s \in RunType
           /\ s.live = {} /\ s.dying = r.dying \cup r.live /\ ~s.lifetime
           /\ s.leaf = r.leaf \/ (s.leaf = "removed" /\ s.dying = {})
           /\ s.broker = r.broker /\ s.launcher = r.launcher /\ s.guardian = r.guardian
           /\ s.under = r.under /\ s.late = r.late /\ s.image = r.image /\ s.pinned = r.pinned
<1>1. PICK k : k = Kill(r)
  OBVIOUS
<1>2. /\ k \in RunType
      /\ k.live = {} /\ k.dying = r.dying \cup r.live
      /\ k.launcher = r.launcher /\ Kept(r, k)
  BY <1>1, KillFacts
<1>3. r.leaf # "there" => k = r
  BY <1>1 DEF Kill
<1>4. \/ s = [k EXCEPT !.lifetime = FALSE]
      \/ s = [[k EXCEPT !.leaf = "removed"] EXCEPT !.lifetime = FALSE] /\ k.dying = {}
  BY <1>1, <1>3 DEF Drop, RemoveIfEmpty, Populated
<1>5. k \in RunType
  BY <1>2
<1>6. /\ s \in RunType
      /\ s.live = k.live /\ s.dying = k.dying /\ ~s.lifetime
      /\ s.leaf = k.leaf \/ (s.leaf = "removed" /\ k.dying = {})
      /\ s.broker = k.broker /\ s.launcher = k.launcher /\ s.guardian = k.guardian
      /\ s.under = k.under /\ s.late = k.late /\ s.image = k.image /\ s.pinned = k.pinned
  <2>1. CASE s = [k EXCEPT !.lifetime = FALSE]
    BY <1>5, <2>1 DEF RunType
  <2>2. CASE s = [[k EXCEPT !.leaf = "removed"] EXCEPT !.lifetime = FALSE] /\ k.dying = {}
    BY <1>5, <2>2 DEF RunType
  <2> QED
    BY <1>4, <2>1, <2>2
<1> QED
  BY <1>2, <1>6 DEF Kept

\* An execution may fail at any time.
LEMMA FailRight ==
    ASSUME NEW a \in BOOLEAN, NEW r, Right(a, r), NEW s, s = Fail(r)
    PROVE  Right(a, s)
<1>1. PICK k : k = KillChild(r)
  OBVIOUS
<1>2. Right(a, k) /\ k \in RunType /\ LeafRight(k) /\ GuardRight(a, k)
  BY <1>1, KillChildRight DEF Right
<1>3. k.launcher \in {"none"} \cup Halted
  <2>1. r \in RunType /\ LeafRight(r)
    BY DEF Right
  <2> QED
    BY <1>1, <2>1, KillChildFacts DEF Halted
<1>4. PICK d : d = Drop(k)
  OBVIOUS
<1>5. /\ d \in RunType
      /\ d.live = {} /\ d.dying = k.dying \cup k.live /\ ~d.lifetime
      /\ d.leaf = k.leaf \/ (d.leaf = "removed" /\ d.dying = {})
      /\ d.broker = k.broker /\ d.launcher = k.launcher /\ d.guardian = k.guardian
      /\ d.under = k.under /\ d.late = k.late /\ d.image = k.image /\ d.pinned = k.pinned
  BY <1>2, <1>4, DropFacts
<1>6. s = [d EXCEPT !.broker = "failed"]
  BY <1>1, <1>4 DEF Fail
<1>7. /\ s \in RunType /\ s.broker = "failed"
      /\ s.live = {} /\ s.dying = d.dying /\ ~s.lifetime /\ s.leaf = d.leaf
      /\ s.launcher = d.launcher /\ s.guardian = d.guardian
      /\ s.under = d.under /\ s.late = d.late /\ s.image = d.image /\ s.pinned = d.pinned
  BY <1>5, <1>6 DEF RunType
<1>8. LeafRight(s)
  BY <1>2, <1>3, <1>5, <1>7 DEF LeafRight, Populated, InLeaf, Halted
<1>9. GuardRight(a, s)
  BY <1>2, <1>3, <1>5, <1>7 DEF GuardRight, Halted
<1> QED
  BY <1>7, <1>8, <1>9 DEF Right

\* The launcher's program counter moves, and nothing else.
LEMMA LauncherTo ==
    ASSUME NEW r \in RunType, NEW p \in Steps, NEW s, s = [r EXCEPT !.launcher = p]
    PROVE  s \in RunType /\ s.launcher = p /\ Kept(r, s) /\ s.live = r.live /\ s.dying = r.dying
BY DEF RunType, Kept

\* The same of the guardian ...
LEMMA GuardianTo ==
    ASSUME NEW r \in RunType, NEW s,
           NEW p \in {"polling", "watching", "cleanup", "draining", "gone", "crashed"},
           s = [r EXCEPT !.guardian = p]
    PROVE  /\ s \in RunType /\ s.guardian = p /\ s.live = r.live /\ s.dying = r.dying
           /\ s.broker = r.broker /\ s.launcher = r.launcher /\ s.leaf = r.leaf /\ s.under = r.under
           /\ s.lifetime = r.lifetime /\ s.late = r.late /\ s.image = r.image /\ s.pinned = r.pinned
BY DEF RunType

\* ... and of the broker.
LEMMA BrokerTo ==
    ASSUME NEW r \in RunType, NEW p \in {"snapshot", "exchange", "finishing", "draining", "removed"},
           NEW s, s = [r EXCEPT !.broker = p]
    PROVE  /\ s \in RunType /\ s.broker = p /\ s.live = r.live /\ s.dying = r.dying
           /\ s.guardian = r.guardian /\ s.launcher = r.launcher /\ s.leaf = r.leaf /\ s.under = r.under
           /\ s.lifetime = r.lifetime /\ s.late = r.late /\ s.image = r.image /\ s.pinned = r.pinned
BY DEF RunType

\* What prepare makes of an execution: a leaf, and a launcher that is forked.
Forked(r, u) ==
    [r EXCEPT !.broker = "spawning", !.launcher = "forked", !.leaf = "there", !.under = u, !.lifetime = TRUE]

\* It does so and nothing more.
LEMMA ForkFacts ==
    ASSUME NEW r \in RunType, NEW u \in {"unset", "failed", "root"}, NEW s, s = Forked(r, u)
    PROVE  /\ s \in RunType /\ s.broker = "spawning" /\ s.launcher = "forked" /\ s.leaf = "there"
           /\ s.under = u /\ s.lifetime /\ s.live = r.live /\ s.dying = r.dying
           /\ s.guardian = r.guardian /\ s.late = r.late /\ s.image = r.image /\ s.pinned = r.pinned
<1>1. /\ s.broker = "spawning" /\ s.launcher = "forked" /\ s.leaf = "there"
      /\ s.under = u /\ s.lifetime = TRUE /\ s.live = r.live /\ s.dying = r.dying
      /\ s.guardian = r.guardian /\ s.late = r.late /\ s.image = r.image /\ s.pinned = r.pinned
  BY DEF RunType, Forked
<1>2. s \in RunType
  <2>0. PICK w : w = [r EXCEPT !.broker = "spawning", !.launcher = "forked"]
    OBVIOUS
  <2>6. w \in RunType
    BY <2>0 DEF RunType, Steps
  <2>1. PICK q : q = [w EXCEPT !.leaf = "there"]
    OBVIOUS
  <2>2. q \in RunType
    BY <2>1, <2>6 DEF RunType
  <2>3. PICK t : t = [q EXCEPT !.under = u]
    OBVIOUS
  <2>4. t \in RunType
    BY <2>2, <2>3 DEF RunType
  <2>5. s = [t EXCEPT !.lifetime = TRUE]
    BY <2>0, <2>1, <2>3 DEF Forked
  <2> QED
    BY <2>4, <2>5 DEF RunType
<1> QED
  BY <1>1, <1>2

-----------------------------------------------------------------------------
(* The steps.                                                              *)

\* A step of one execution that leaves it right.
LEMMA SetStep ==
    ASSUME PluginInv, NEW e \in Executions, NEW s, Right(alive, s), Set(e, s), Others
    PROVE  PluginInv'
<1>1. s \in RunType /\ run \in [Executions -> RunType] /\ run' = [run EXCEPT ![e] = s]
  BY DEF PluginInv, Right, Set
<1>2. run' \in [Executions -> RunType]
  BY <1>1
<1>3. ASSUME NEW f \in Executions PROVE Right(alive, run'[f])
  <2>1. Right(alive, run[f])
    BY DEF PluginInv
  <2>2. run'[f] = IF f = e THEN s ELSE run[f]
    BY <1>1
  <2> QED
    BY <2>1, <2>2
<1>4. UNCHANGED <<alive, group, root, artifact>>
  BY DEF Others
<1>5. \A f \in Executions : Right(alive', run'[f])
  BY <1>3, <1>4
<1> QED
  BY <1>2, <1>4, <1>5 DEF PluginInv

\* The launcher's steps before exec, when it does not end there.
LEMMA LauncherRight ==
    ASSUME NEW a \in BOOLEAN, NEW r, Right(a, r), NEW s, NEW p \in Steps, s = [r EXCEPT !.launcher = p],
           \/ r.launcher = "arming" /\ p = "armed" /\ r.guardian = "polling"
           \/ r.launcher = "joined" /\ p = "checked"
           \/ r.launcher = "checked" /\ p = "cleared"
           \/ r.launcher = "cleared" /\ p = "limited"
           \/ r.launcher = "killed" /\ p = "exited"
    PROVE  Right(a, s)
<1>1. r \in RunType /\ LeafRight(r) /\ GuardRight(a, r)
  BY DEF Right
<1>2. s \in RunType /\ s.launcher = p /\ Kept(r, s) /\ s.live = r.live /\ s.dying = r.dying
  BY <1>1, LauncherTo
<1>3. LeafRight(s)
  BY <1>1, <1>2 DEF LeafRight, Populated, InLeaf, Halted, Kept
<1>4. GuardRight(a, s)
  BY <1>1, <1>2 DEF GuardRight, Halted, Kept
<1> QED
  BY <1>2, <1>3, <1>4 DEF Right

\* The payload ends.
LEMMA PayloadExitRight ==
    ASSUME NEW a \in BOOLEAN, NEW r, Right(a, r), NEW s, s = Exit(r, "payload")
    PROVE  Right(a, s)
<1>1. r \in RunType /\ LeafRight(r) /\ GuardRight(a, r) /\ "payload" \in Procs
  BY DEF Right, Procs
<1>2. /\ s \in RunType
      /\ s.live = r.live \ {"payload"} /\ s.dying = r.dying \ {"payload"}
      /\ s.launcher = r.launcher /\ Kept(r, s)
  BY <1>1, ExitFacts
<1>3. LeafRight(s)
  BY <1>1, <1>2 DEF LeafRight, Populated, InLeaf, Kept
<1>4. GuardRight(a, s)
  BY <1>1, <1>2 DEF GuardRight, Kept
<1> QED
  BY <1>2, <1>3, <1>4 DEF Right

\* The broker up to the fork.
LEMMA PrepareStep ==
    ASSUME PluginInv, NEW e \in Executions,
           (\E pinned \in BOOLEAN : Read(e, pinned)) \/ Snapshot(e) \/ Prepare(e)
    PROVE  PluginInv'
<1> DEFINE r == run[e]
<1>1. Right(alive, r) /\ r \in RunType /\ LeafRight(r) /\ GuardRight(alive, r)
  BY DEF PluginInv, Right
<1>2. alive \in BOOLEAN /\ artifact \in Contents /\ root \in {"unset", "failed", "root"} /\ Others
  BY DEF PluginInv, Read, Snapshot, Prepare
<1>3. /\ r.broker \in {"idle", "read", "snapshot"}
      /\ r.leaf = "none" /\ r.launcher = "none" /\ r.guardian = "none" /\ ~r.lifetime /\ ~Populated(r)
  BY <1>1 DEF Read, Snapshot, Prepare, LeafRight
<1>4. ASSUME NEW s \in RunType, Set(e, s), s.broker \in {"read", "snapshot"}, s.leaf = r.leaf,
             s.launcher = r.launcher, s.guardian = r.guardian, s.lifetime = r.lifetime, s.under = r.under,
             s.live = r.live, s.dying = r.dying,
             s.broker = "snapshot" /\ s.pinned => s.image = Registered
      PROVE  PluginInv'
  <2>1. LeafRight(s)
    BY <1>1, <1>3, <1>4 DEF LeafRight, Populated, InLeaf
  <2>2. GuardRight(alive, s)
    BY <1>1, <1>3, <1>4 DEF GuardRight, Halted
  <2> QED
    BY <1>2, <1>4, <2>1, <2>2, SetStep DEF Right
<1>5. ASSUME Set(e, Fail(r)) PROVE PluginInv'
  BY <1>1, <1>2, <1>5, FailRight, SetStep
<1>6. CASE \E pinned \in BOOLEAN : Read(e, pinned)
  <2>0. PICK p \in BOOLEAN : Read(e, p)
    BY <1>6
  <2>1. PICK s : s = [r EXCEPT !.broker = "read", !.image = artifact, !.pinned = p]
    OBVIOUS
  <2>2. /\ s \in RunType /\ s.broker = "read" /\ s.leaf = r.leaf
        /\ s.launcher = r.launcher /\ s.guardian = r.guardian /\ s.lifetime = r.lifetime
        /\ s.under = r.under /\ s.live = r.live /\ s.dying = r.dying
    BY <1>1, <1>2, <2>1 DEF RunType
  <2>3. Set(e, s)
    BY <2>0, <2>1 DEF Read
  <2> QED
    BY <1>4, <2>2, <2>3
<1>7. CASE Snapshot(e)
  <2>1. CASE Set(e, Fail(r))
    BY <1>5, <2>1
  <2>2. CASE Set(e, [r EXCEPT !.broker = "snapshot"]) /\ (r.pinned => r.image = Registered)
    <3>1. PICK s : s = [r EXCEPT !.broker = "snapshot"]
      OBVIOUS
    <3>2. /\ s \in RunType /\ s.broker = "snapshot" /\ s.live = r.live /\ s.dying = r.dying
          /\ s.guardian = r.guardian /\ s.launcher = r.launcher /\ s.leaf = r.leaf /\ s.under = r.under
          /\ s.lifetime = r.lifetime /\ s.late = r.late /\ s.image = r.image /\ s.pinned = r.pinned
      BY <1>1, <3>1, BrokerTo
    <3>3. Set(e, s)
      BY <2>2, <3>1
    <3> QED
      BY <1>4, <2>2, <3>2, <3>3
  <2> QED
    BY <1>7, <2>1, <2>2 DEF Snapshot
<1>8. CASE Prepare(e)
  <2>1. CASE Set(e, Fail(r))
    BY <1>5, <2>1
  <2>2. CASE ~Set(e, Fail(r))
    <3>1. root = "root" /\ r.broker = "snapshot" /\ Set(e, Forked(r, root))
      BY <1>2, <1>8, <2>2 DEF Prepare, Forked
    <3>2. PICK s : s = Forked(r, root)
      OBVIOUS
    <3>3. /\ s \in RunType /\ s.broker = "spawning" /\ s.launcher = "forked" /\ s.leaf = "there"
          /\ s.under = root /\ s.lifetime /\ s.live = r.live /\ s.dying = r.dying
          /\ s.guardian = r.guardian /\ s.late = r.late /\ s.image = r.image /\ s.pinned = r.pinned
      BY <1>1, <1>2, <3>2, ForkFacts
    <3>4. LeafRight(s)
      BY <1>1, <1>3, <3>1, <3>3 DEF LeafRight, Populated, InLeaf
    <3>5. GuardRight(alive, s)
      BY <1>1, <1>3, <3>3 DEF GuardRight
    <3> QED
      BY <1>2, <3>1, <3>2, <3>3, <3>4, <3>5, SetStep DEF Right
  <2> QED
    BY <2>1, <2>2
<1> QED
  BY <1>6, <1>7, <1>8

\* The launcher.
LEMMA LauncherSteps ==
    ASSUME PluginInv, NEW e \in Executions, LauncherStep(e)
    PROVE  PluginInv'
<1> DEFINE r == run[e]
<1>1. /\ Right(alive, r) /\ r \in RunType /\ LeafRight(r) /\ GuardRight(alive, r)
      /\ alive \in BOOLEAN /\ r.launcher # "none" /\ Others
  BY DEF PluginInv, Right, LauncherStep, Arm, Armed, Join, CheckJoined, ClearDeathSignal, CheckParent, Exec
<1>2. ASSUME Set(e, LauncherExit(r)) PROVE PluginInv'
  BY <1>1, <1>2, LauncherExitRight, SetStep
<1>3. ASSUME NEW p \in Steps, Set(e, [r EXCEPT !.launcher = p]),
             \/ r.launcher = "arming" /\ p = "armed" /\ r.guardian = "polling"
             \/ r.launcher = "joined" /\ p = "checked"
             \/ r.launcher = "checked" /\ p = "cleared"
             \/ r.launcher = "cleared" /\ p = "limited"
      PROVE  PluginInv'
  BY <1>1, <1>3, LauncherRight, SetStep
<1>4. CASE Arm(e)
  <2>1. CASE ~Set(e, LauncherExit(r))
    <3>1. PICK s : s = [r EXCEPT !.launcher = "arming", !.guardian = "starting"]
      OBVIOUS
    <3>2. /\ s \in RunType /\ s.launcher = "arming" /\ s.guardian = "starting"
          /\ s.broker = r.broker /\ s.leaf = r.leaf /\ s.under = r.under /\ s.live = r.live /\ s.dying = r.dying
          /\ s.lifetime = r.lifetime /\ s.late = r.late /\ s.image = r.image /\ s.pinned = r.pinned
      BY <1>1, <3>1 DEF RunType, Steps
    <3>3. Set(e, s) /\ r.launcher = "forked" /\ alive
      BY <1>4, <2>1, <3>1 DEF Arm
    <3>4. LeafRight(s)
      BY <1>1, <3>2, <3>3 DEF LeafRight, Populated, InLeaf, Halted
    <3>5. GuardRight(alive, s)
      BY <1>1, <3>2, <3>3 DEF GuardRight, Halted
    <3> QED
      BY <1>1, <3>2, <3>3, <3>4, <3>5, SetStep DEF Right
  <2> QED
    BY <1>2, <2>1
<1>5. CASE Armed(e)
  BY <1>2, <1>3, <1>5 DEF Armed, GuardianAlive, Steps
<1>6. CASE Join(e)
  <2>1. CASE r.leaf = "there"
    <3>1. PICK l \in SUBSET Procs : l = r.live \cup {"launcher"}
      BY <1>1 DEF RunType, Procs
    <3>2. PICK s : s = [r EXCEPT !.launcher = "joined", !.live = l]
      OBVIOUS
    <3>3. s \in RunType /\ s.launcher = "joined" /\ s.live = l /\ s.dying = r.dying /\ Kept(r, s)
      BY <1>1, <3>2 DEF RunType, Steps, Kept
    <3>4. Set(e, s) /\ r.launcher = "armed" /\ ~Populated(r)
      <4>1. r.launcher = "armed" /\ Set(e, [r EXCEPT !.launcher = "joined", !.live = r.live \cup {"launcher"}])
        BY <1>6, <2>1 DEF Join
      <4> QED
        BY <1>1, <3>1, <3>2, <4>1 DEF LeafRight, InLeaf, Halted
    <3>5. LeafRight(s)
      BY <1>1, <2>1, <3>1, <3>3, <3>4 DEF LeafRight, Populated, InLeaf, Kept
    <3>6. GuardRight(alive, s)
      BY <1>1, <3>1, <3>3, <3>4 DEF GuardRight, Halted, Kept, Populated
    <3> QED
      BY <1>1, <3>3, <3>4, <3>5, <3>6, SetStep DEF Right
  <2> QED
    BY <1>2, <1>6, <2>1 DEF Join
<1>7. CASE CheckJoined(e) \/ ClearDeathSignal(e) \/ CheckParent(e)
  BY <1>2, <1>3, <1>7 DEF CheckJoined, ClearDeathSignal, CheckParent, Steps
<1>8. CASE Exec(e)
  <2>1. CASE ~Set(e, LauncherExit(r))
    <3>1. PICK s : s = [r EXCEPT !.launcher = "exec", !.execed = TRUE]
      OBVIOUS
    <3>2. s \in RunType /\ s.launcher = "exec" /\ s.live = r.live /\ s.dying = r.dying /\ Kept(r, s)
      BY <1>1, <3>1 DEF RunType, Steps, Kept
    <3>3. Set(e, s) /\ r.launcher = "limited" /\ ~r.late /\ r.guardian # "gone"
      BY <1>8, <2>1, <3>1 DEF Exec, GuardianAlive, Gone
    <3>4. LeafRight(s)
      BY <1>1, <3>2, <3>3 DEF LeafRight, Populated, InLeaf, Halted, Kept
    <3>5. GuardRight(alive, s)
      BY <1>1, <3>2, <3>3 DEF GuardRight, Halted, Kept
    <3> QED
      BY <1>1, <3>2, <3>3, <3>4, <3>5, SetStep DEF Right
  <2> QED
    BY <1>2, <2>1
<1> QED
  BY <1>4, <1>5, <1>6, <1>7, <1>8 DEF LauncherStep

\* Bubblewrap, the plugin and the kernel.
LEMMA ProcessSteps ==
    ASSUME PluginInv, NEW e \in Executions,
           ForkPayload(e) \/ PluginExits(e) \/ OutOfMemory(e) \/ Reap(e) \/ ReapOutside(e)
    PROVE  PluginInv'
<1> DEFINE r == run[e]
<1>1. /\ Right(alive, r) /\ r \in RunType /\ LeafRight(r) /\ GuardRight(alive, r)
      /\ alive \in BOOLEAN /\ Others
  BY DEF PluginInv, Right, ForkPayload, PluginExits, OutOfMemory, Reap, ReapOutside
<1>2. ASSUME Set(e, LauncherExit(r)), r.launcher # "none" PROVE PluginInv'
  BY <1>1, <1>2, LauncherExitRight, SetStep
<1>3. CASE ForkPayload(e)
  <2>1. PICK l \in SUBSET Procs : l = r.live \cup {"payload"}
    BY <1>1 DEF RunType, Procs
  <2>2. PICK s : s = [r EXCEPT !.live = l]
    OBVIOUS
  <2>3. s \in RunType /\ s.launcher = r.launcher /\ s.live = l /\ s.dying = r.dying /\ Kept(r, s)
    BY <1>1, <2>2 DEF RunType, Kept
  <2>4. /\ r.launcher = "exec" /\ "launcher" \in r.live /\ "payload" \notin r.live \cup r.dying
        /\ Set(e, [r EXCEPT !.live = r.live \cup {"payload"}])
    BY <1>3 DEF ForkPayload
  <2>5. Set(e, s)
    BY <2>1, <2>2, <2>4
  <2>6. LeafRight(s)
    BY <1>1, <2>1, <2>3, <2>4 DEF LeafRight, Populated, InLeaf, Kept
  <2>7. GuardRight(alive, s)
    BY <1>1, <2>1, <2>3, <2>4 DEF GuardRight, Halted, Kept
  <2> QED
    BY <1>1, <2>3, <2>5, <2>6, <2>7, SetStep DEF Right
<1>4. CASE PluginExits(e)
  <2>1. CASE Set(e, LauncherExit(r))
    BY <1>2, <1>4, <2>1 DEF PluginExits
  <2>2. CASE Set(e, LauncherExit(Exit(r, "payload")))
    <3>1. PICK q : q = Exit(r, "payload")
      OBVIOUS
    <3>2. Right(alive, q)
      BY <1>1, <3>1, PayloadExitRight
    <3>3. q.launcher = r.launcher /\ r.launcher = "exec"
      BY <1>1, <1>4, <3>1, ExitFacts DEF Procs, PluginExits
    <3>4. Set(e, LauncherExit(q))
      BY <2>2, <3>1
    <3> QED
      BY <1>1, <3>2, <3>3, <3>4, LauncherExitRight, SetStep
  <2> QED
    BY <1>4, <2>1, <2>2 DEF PluginExits
<1>5. CASE OutOfMemory(e)
  <2>1. Set(e, Kill(r))
    BY <1>5 DEF OutOfMemory
  <2> QED
    BY <1>1, <2>1, KillRight, SetStep
<1>6. CASE Reap(e)
  <2>1. PICK p \in r.dying : Set(e, IF p = "launcher" THEN LauncherExit(r) ELSE Exit(r, p))
    BY <1>6 DEF Reap
  <2>2. r.launcher # "none" /\ p \in Procs
    BY <1>1, <2>1 DEF LeafRight, Populated, InLeaf, Halted, RunType
  <2>3. CASE p = "launcher"
    BY <1>2, <2>1, <2>2, <2>3
  <2>4. CASE p = "payload"
    <3>1. Set(e, Exit(r, "payload"))
      BY <2>1, <2>4
    <3> QED
      BY <1>1, <3>1, PayloadExitRight, SetStep
  <2> QED
    BY <2>2, <2>3, <2>4 DEF Procs
<1>7. CASE ReapOutside(e)
  <2>1. Set(e, [r EXCEPT !.launcher = "exited"]) /\ r.launcher = "killed" /\ "exited" \in Steps
    BY <1>7 DEF ReapOutside, Steps
  <2> QED
    BY <1>1, <2>1, LauncherRight, SetStep
<1> QED
  BY <1>3, <1>4, <1>5, <1>6, <1>7

\* The guardian moves on, and the execution with it is right.
LEMMA GuardianRight ==
    ASSUME NEW a \in BOOLEAN, NEW r, Right(a, r), NEW s,
           NEW p \in {"polling", "watching", "cleanup", "draining", "gone", "crashed"},
           s = [r EXCEPT !.guardian = p], r.launcher # "none", r.guardian # "none",
           p = "cleanup" => r.late \/ ~a \/ r.launcher \in {"arming"} \cup Halted,
           p = "draining" => r.live = {} /\ (r.late \/ ~a \/ r.launcher \in {"arming"} \cup Halted),
           p = "gone" => "payload" \notin r.live /\ ("launcher" \in r.live => r.launcher # "exec")
    PROVE  Right(a, s)
<1>1. r \in RunType /\ LeafRight(r) /\ GuardRight(a, r)
  BY DEF Right
<1>2. /\ s \in RunType /\ s.guardian = p /\ s.live = r.live /\ s.dying = r.dying
      /\ s.broker = r.broker /\ s.launcher = r.launcher /\ s.leaf = r.leaf /\ s.under = r.under
      /\ s.lifetime = r.lifetime /\ s.late = r.late /\ s.image = r.image /\ s.pinned = r.pinned
  BY <1>1, GuardianTo
<1>3. LeafRight(s)
  BY <1>1, <1>2 DEF LeafRight, Populated, InLeaf, Halted
<1>4. GuardRight(a, s)
  BY <1>1, <1>2 DEF GuardRight, Halted
<1> QED
  BY <1>2, <1>3, <1>4 DEF Right

\* The guardian's last look at the leaf.
LEMMA DrainedRight ==
    ASSUME NEW a \in BOOLEAN, NEW r, Right(a, r), NEW s, r.guardian = "draining",
           \/ s = [r EXCEPT !.guardian = "gone", !.leaf = "removed"] /\ ~Populated(r)
           \/ s = [r EXCEPT !.guardian = "gone", !.grace = TRUE]
    PROVE  Right(a, s)
<1>1. r \in RunType /\ LeafRight(r) /\ GuardRight(a, r)
  BY DEF Right
<1>2. /\ s \in RunType /\ s.guardian = "gone" /\ s.live = r.live /\ s.dying = r.dying
      /\ s.broker = r.broker /\ s.launcher = r.launcher /\ s.under = r.under
      /\ s.lifetime = r.lifetime /\ s.late = r.late /\ s.image = r.image /\ s.pinned = r.pinned
      /\ s.leaf = r.leaf \/ (s.leaf = "removed" /\ ~Populated(r))
  <2>1. CASE s = [r EXCEPT !.guardian = "gone", !.leaf = "removed"] /\ ~Populated(r)
    BY <1>1, <2>1 DEF RunType
  <2>2. CASE s = [r EXCEPT !.guardian = "gone", !.grace = TRUE]
    BY <1>1, <2>2 DEF RunType
  <2> QED
    BY <2>1, <2>2
<1>3. LeafRight(s)
  BY <1>1, <1>2 DEF LeafRight, Populated, InLeaf, Halted
<1>4. GuardRight(a, s)
  BY <1>1, <1>2 DEF GuardRight, Halted
<1> QED
  BY <1>2, <1>3, <1>4 DEF Right

\* The guardian.
LEMMA GuardianSteps ==
    ASSUME PluginInv, NEW e \in Executions, GuardianStep(e) \/ GuardianDies(e)
    PROVE  PluginInv'
<1> DEFINE r == run[e]
<1>1. /\ Right(alive, r) /\ r \in RunType /\ LeafRight(r) /\ GuardRight(alive, r)
      /\ alive \in BOOLEAN /\ Others /\ r.guardian # "none"
  BY DEF PluginInv, Right, GuardianStep, GuardianStarts, GuardianSeesLauncher, GuardianSeesEnd,
         GuardianKills, GuardianDrains, GuardianDies
<1>2. r.launcher # "none"
  BY <1>1 DEF LeafRight
<1>3. ASSUME NEW p \in {"polling", "watching", "cleanup", "draining", "gone", "crashed"},
             NEW q, Right(alive, q), q.launcher = r.launcher, q.guardian = r.guardian, q.late = r.late,
             Set(e, [q EXCEPT !.guardian = p]),
             p = "cleanup" => r.late \/ ~alive \/ r.launcher \in {"arming"} \cup Halted,
             p = "draining" => q.live = {} /\ (r.late \/ ~alive \/ r.launcher \in {"arming"} \cup Halted),
             p = "gone" => q.live = {}
      PROVE  PluginInv'
  <2>1. PICK s : s = [q EXCEPT !.guardian = p]
    OBVIOUS
  <2>2. Right(alive, s)
    BY <1>1, <1>2, <1>3, <2>1, GuardianRight
  <2> QED
    BY <1>1, <1>3, <2>1, <2>2, SetStep
<1>4. PICK k : k = Kill(r)
  OBVIOUS
<1>5. /\ Right(alive, k) /\ k.live = {} /\ k.launcher = r.launcher /\ k.guardian = r.guardian
      /\ k.late = r.late
  BY <1>1, <1>4, KillRight, KillFacts DEF Kept
<1>6. CASE GuardianStarts(e)
  <2>1. r.launcher \in {"arming"} \cup Halted
    BY <1>1, <1>6 DEF GuardianStarts, GuardRight
  <2>2. Set(e, [r EXCEPT !.guardian = "polling"]) \/ Set(e, [r EXCEPT !.guardian = "cleanup"])
    BY <1>6 DEF GuardianStarts
  <2> QED
    BY <1>1, <1>3, <2>1, <2>2
<1>7. CASE GuardianSeesLauncher(e)
  <2>1. r.launcher \in Halted
    BY <1>7 DEF GuardianSeesLauncher, Halted
  <2>2. Set(e, [k EXCEPT !.guardian = "watching"]) \/ Set(e, [r EXCEPT !.guardian = "cleanup"])
    BY <1>4, <1>7 DEF GuardianSeesLauncher
  <2> QED
    BY <1>1, <1>3, <1>5, <2>1, <2>2
<1>8. CASE GuardianSeesEnd(e)
  <2>1. r.late \/ ~alive \/ r.launcher \in {"arming"} \cup Halted
    BY <1>1, <1>2, <1>8 DEF GuardianSeesEnd, GuardRight
  <2>2. Set(e, [r EXCEPT !.guardian = "cleanup"])
    BY <1>8 DEF GuardianSeesEnd
  <2> QED
    BY <1>1, <1>3, <2>1, <2>2
<1>9. CASE GuardianKills(e)
  <2>1. r.late \/ ~alive \/ r.launcher \in {"arming"} \cup Halted
    BY <1>1, <1>9 DEF GuardianKills, GuardRight
  <2>2. \/ Set(e, [k EXCEPT !.guardian = "draining"])
        \/ Set(e, [r EXCEPT !.guardian = "gone"]) /\ r.leaf # "there"
    BY <1>4, <1>9 DEF GuardianKills
  <2>3. r.leaf # "there" => r.live = {}
    BY <1>1 DEF LeafRight, Populated
  <2> QED
    BY <1>1, <1>3, <1>5, <2>1, <2>2, <2>3
<1>10. CASE GuardianDrains(e)
  <2>1. PICK s : /\ Set(e, s)
                 /\ \/ s = [r EXCEPT !.guardian = "gone", !.leaf = "removed"] /\ ~Populated(r)
                    \/ s = [r EXCEPT !.guardian = "gone", !.grace = TRUE]
    BY <1>10 DEF GuardianDrains
  <2>2. Right(alive, s)
    BY <1>1, <1>10, <2>1, DrainedRight DEF GuardianDrains
  <2> QED
    BY <1>1, <2>1, <2>2, SetStep
<1>11. CASE GuardianDies(e)
  <2>1. Set(e, [r EXCEPT !.guardian = "crashed"])
    BY <1>11 DEF GuardianDies
  <2> QED
    BY <1>1, <1>3, <2>1
<1> QED
  BY <1>6, <1>7, <1>8, <1>9, <1>10, <1>11 DEF GuardianStep

\* The broker moves on with a child that has ended, or with one it just spawned.
LEMMA BrokerRight ==
    ASSUME NEW a \in BOOLEAN, NEW r, Right(a, r), NEW s,
           NEW p \in {"exchange", "finishing", "draining"}, s = [r EXCEPT !.broker = p],
           p # "exchange" => r.launcher = "exited"
    PROVE  Right(a, s)
<1>1. r \in RunType /\ LeafRight(r) /\ GuardRight(a, r)
  BY DEF Right
<1>2. /\ s \in RunType /\ s.broker = p /\ s.live = r.live /\ s.dying = r.dying
      /\ s.guardian = r.guardian /\ s.launcher = r.launcher /\ s.leaf = r.leaf /\ s.under = r.under
      /\ s.lifetime = r.lifetime /\ s.late = r.late /\ s.image = r.image /\ s.pinned = r.pinned
  BY <1>1, BrokerTo
<1>3. LeafRight(s)
  BY <1>1, <1>2 DEF LeafRight, Populated, InLeaf
<1>4. GuardRight(a, s)
  BY <1>1, <1>2 DEF GuardRight
<1> QED
  BY <1>2, <1>3, <1>4 DEF Right

\* The leaf is removed, and the result returned.
LEMMA RemovedRight ==
    ASSUME NEW a \in BOOLEAN, NEW r, Right(a, r), NEW s, NEW p \in {"ok", "failed"},
           \/ /\ s = [r EXCEPT !.leaf = "removed", !.broker = "removed"]
              /\ r.broker = "draining" /\ ~Populated(r)
           \/ s = [r EXCEPT !.broker = p, !.lifetime = FALSE] /\ r.broker = "removed"
    PROVE  Right(a, s)
<1>1. r \in RunType /\ LeafRight(r) /\ GuardRight(a, r) /\ r.launcher = "exited"
  BY DEF Right, LeafRight
<1>2. /\ s \in RunType /\ s.broker \in {"removed", "ok", "failed"} /\ s.leaf = "removed"
      /\ s.live = r.live /\ s.dying = r.dying /\ ~Populated(r)
      /\ s.guardian = r.guardian /\ s.launcher = "exited" /\ s.under = r.under
      /\ s.late = r.late /\ s.image = r.image /\ s.pinned = r.pinned
  <2>1. CASE /\ s = [r EXCEPT !.leaf = "removed", !.broker = "removed"]
             /\ r.broker = "draining" /\ ~Populated(r)
    BY <1>1, <2>1 DEF RunType
  <2>2. CASE s = [r EXCEPT !.broker = p, !.lifetime = FALSE] /\ r.broker = "removed"
    <3>1. r.leaf = "removed" /\ ~Populated(r)
      BY <1>1, <2>2 DEF LeafRight
    <3> QED
      BY <1>1, <2>2, <3>1 DEF RunType
  <2> QED
    BY <2>1, <2>2
<1>3. LeafRight(s)
  BY <1>1, <1>2 DEF LeafRight, Populated, InLeaf
<1>4. GuardRight(a, s)
  BY <1>1, <1>2 DEF GuardRight, Halted
<1> QED
  BY <1>2, <1>3, <1>4 DEF Right

\* The broker from the spawn to the result, and the deadline.
LEMMA BrokerSteps ==
    ASSUME PluginInv, NEW e \in Executions,
           \/ Spawned(e) \/ Completed(e) \/ Finish(e) \/ Drained(e) \/ Return(e) \/ Abandon(e)
           \/ DeadlinePasses(e)
    PROVE  PluginInv'
<1> DEFINE r == run[e]
<1>1. /\ Right(alive, r) /\ r \in RunType /\ LeafRight(r) /\ GuardRight(alive, r)
      /\ alive \in BOOLEAN /\ Others
  BY DEF PluginInv, Right, Spawned, Completed, Finish, Drained, Return, Abandon, DeadlinePasses
<1>2. ASSUME Set(e, Fail(r)) PROVE PluginInv'
  BY <1>1, <1>2, FailRight, SetStep
<1>3. ASSUME NEW q, Right(alive, q), NEW p \in {"exchange", "finishing", "draining"},
             Set(e, [q EXCEPT !.broker = p]), p # "exchange" => q.launcher = "exited"
      PROVE  PluginInv'
  <2>1. PICK s : s = [q EXCEPT !.broker = p]
    OBVIOUS
  <2>2. Right(alive, s)
    BY <1>1, <1>3, <2>1, BrokerRight
  <2> QED
    BY <1>1, <1>3, <2>1, <2>2, SetStep
<1>4. CASE Spawned(e)
  <2>1. Set(e, [r EXCEPT !.broker = "exchange"]) \/ Set(e, Fail(r))
    BY <1>4 DEF Spawned
  <2> QED
    BY <1>1, <1>2, <1>3, <2>1
<1>5. CASE Completed(e)
  <2>1. Set(e, [r EXCEPT !.broker = "finishing"]) /\ r.launcher = "exited"
    BY <1>5 DEF Completed
  <2> QED
    BY <1>1, <1>3, <2>1
<1>6. CASE Finish(e)
  <2>1. PICK k : k = Kill(r)
    OBVIOUS
  <2>2. Right(alive, k) /\ k.launcher = r.launcher
    BY <1>1, <2>1, KillRight, KillFacts
  <2>3. r.launcher = "exited"
    BY <1>1, <1>6 DEF Finish, LeafRight
  <2>4. Set(e, [k EXCEPT !.broker = "draining"])
    BY <1>6, <2>1 DEF Finish
  <2> QED
    BY <1>3, <2>2, <2>3, <2>4
<1>7. CASE Drained(e)
  <2>1. CASE Set(e, [r EXCEPT !.leaf = "removed", !.broker = "removed"])
    <3>1. PICK s : s = [r EXCEPT !.leaf = "removed", !.broker = "removed"]
      OBVIOUS
    <3>2. r.broker = "draining" /\ ~Populated(r)
      BY <1>7 DEF Drained
    <3>3. Right(alive, s)
      BY <1>1, <3>1, <3>2, RemovedRight
    <3> QED
      BY <1>1, <2>1, <3>1, <3>3, SetStep
  <2> QED
    BY <1>2, <1>7, <2>1 DEF Drained
<1>8. CASE Return(e)
  <2>1. PICK p \in {"ok", "failed"} : p = IF GuardianAlive(r) THEN "ok" ELSE "failed"
    OBVIOUS
  <2>2. PICK s : s = [r EXCEPT !.broker = p, !.lifetime = FALSE]
    OBVIOUS
  <2>3. Set(e, s) /\ r.broker = "removed"
    BY <1>8, <2>1, <2>2 DEF Return
  <2>4. Right(alive, s)
    BY <1>1, <2>2, <2>3, RemovedRight
  <2> QED
    BY <1>1, <2>3, <2>4, SetStep
<1>9. CASE Abandon(e)
  BY <1>2, <1>9 DEF Abandon
<1>10. CASE DeadlinePasses(e)
  <2>1. PICK s : s = [r EXCEPT !.late = TRUE]
    OBVIOUS
  <2>2. /\ s \in RunType /\ s.live = r.live /\ s.dying = r.dying /\ s.broker = r.broker
        /\ s.launcher = r.launcher /\ s.guardian = r.guardian /\ s.leaf = r.leaf /\ s.under = r.under
        /\ s.lifetime = r.lifetime /\ s.late = TRUE /\ s.image = r.image /\ s.pinned = r.pinned
    BY <1>1, <2>1 DEF RunType
  <2>3. Set(e, s)
    BY <1>10, <2>1 DEF DeadlinePasses
  <2>4. LeafRight(s)
    BY <1>1, <2>2 DEF LeafRight, Populated
  <2>5. GuardRight(alive, s)
    BY <1>1, <2>2 DEF GuardRight
  <2> QED
    BY <1>1, <2>2, <2>3, <2>4, <2>5, SetStep DEF Right
<1> QED
  BY <1>4, <1>5, <1>6, <1>7, <1>8, <1>9, <1>10

\* What the broker's death makes of an execution.
LEMMA DeathRight ==
    ASSUME NEW r, Right(TRUE, r), NEW s,
           s = [(IF DeathSignalSet(r) THEN KillChild(r) ELSE r) EXCEPT !.lifetime = FALSE]
    PROVE  Right(FALSE, s)
<1>1. PICK k : k = IF DeathSignalSet(r) THEN KillChild(r) ELSE r
  OBVIOUS
<1>2. Right(TRUE, k) /\ k \in RunType /\ LeafRight(k) /\ GuardRight(TRUE, k)
  BY <1>1, KillChildRight DEF Right
<1>3. k.launcher \in {"none", "forked", "cleared", "limited", "exec"} \cup Halted
  <2>1. r \in RunType /\ LeafRight(r)
    BY DEF Right
  <2>2. CASE DeathSignalSet(r)
    BY <1>1, <2>1, <2>2, KillChildFacts DEF Halted
  <2>3. CASE ~DeathSignalSet(r)
    BY <1>1, <2>1, <2>3 DEF DeathSignalSet, RunType, Steps, Halted
  <2> QED
    BY <2>2, <2>3
<1>4. /\ s \in RunType /\ s.live = k.live /\ s.dying = k.dying /\ s.broker = k.broker
      /\ s.launcher = k.launcher /\ s.guardian = k.guardian /\ s.leaf = k.leaf /\ s.under = k.under
      /\ s.lifetime = FALSE /\ s.late = k.late /\ s.image = k.image /\ s.pinned = k.pinned
  <2>1. s = [k EXCEPT !.lifetime = FALSE]
    BY <1>1
  <2> QED
    BY <1>2, <2>1 DEF RunType
<1>5. LeafRight(s)
  BY <1>2, <1>4 DEF LeafRight, Populated
<1>6. GuardRight(FALSE, s)
  BY <1>2, <1>3, <1>4 DEF GuardRight
<1> QED
  BY <1>4, <1>5, <1>6 DEF Right

\* The broker's death.
LEMMA DeathStep ==
    ASSUME PluginInv, BrokerDies
    PROVE  PluginInv'
<1>1. alive = TRUE /\ alive' = FALSE /\ UNCHANGED <<group, root, artifact>>
  BY DEF BrokerDies, PluginInv
<1>2. ASSUME NEW e \in Executions PROVE Right(alive', run'[e])
  <2>1. Right(TRUE, run[e])
    BY <1>1 DEF PluginInv
  <2>2. run'[e] = [(IF DeathSignalSet(run[e]) THEN KillChild(run[e]) ELSE run[e]) EXCEPT !.lifetime = FALSE]
    BY DEF BrokerDies
  <2> QED
    BY <1>1, <2>1, <2>2, DeathRight
<1>3. run' \in [Executions -> RunType]
  <2>1. run' = [e \in Executions |-> run'[e]]
    BY DEF BrokerDies
  <2>2. \A e \in Executions : run'[e] \in RunType
    BY <1>2 DEF Right
  <2> QED
    BY <2>1, <2>2
<1> QED
  BY <1>1, <1>2, <1>3 DEF PluginInv

\* Every step keeps the invariant.
LEMMA PluginStep ==
    ASSUME PluginInv, [Next]_vars
    PROVE  PluginInv'
<1>1. CASE ReplaceArtifact \/ Initialize \/ Over \/ UNCHANGED vars
  <2>1. UNCHANGED <<alive, run>>
    BY <1>1 DEF ReplaceArtifact, Initialize, Over, vars
  <2>2. \A e \in Executions : Right(alive', run'[e])
    BY <2>1 DEF PluginInv
  <2>3. /\ group' \in {"root", "control"} /\ artifact' \in Contents
        /\ root' \in {"unset", "failed", "root"} /\ (root' = "unset" => group' = "root")
    BY <1>1 DEF PluginInv, ReplaceArtifact, Initialize, InitializeRoot, Over, vars
  <2> QED
    BY <2>1, <2>2, <2>3 DEF PluginInv
<1>2. ASSUME NEW e \in Executions,
             \/ Read(e, e \in Explicit)
             \/ BrokerStep(e) \/ Abandon(e) \/ LauncherStep(e) \/ GuardianStep(e)
             \/ ForkPayload(e) \/ PluginExits(e) \/ OutOfMemory(e) \/ Reap(e) \/ ReapOutside(e)
             \/ DeadlinePasses(e) \/ GuardianDies(e)
      PROVE  PluginInv'
  <2>1. CASE Read(e, e \in Explicit)
    <3>1. (e \in Explicit) \in BOOLEAN
      OBVIOUS
    <3>2. \E pinned \in BOOLEAN : Read(e, pinned)
      BY <2>1, <3>1
    <3> QED
      BY <3>2, PrepareStep
  <2> QED
    BY <1>2, <2>1, PrepareStep, BrokerSteps, LauncherSteps, GuardianSteps, ProcessSteps DEF BrokerStep
<1> QED
  BY <1>1, <1>2, DeathStep DEF Next

\* The invariant holds always.
LEMMA AlwaysPlugin == Spec => []PluginInv
<1>1. Init => PluginInv
  <2> SUFFICES ASSUME Init PROVE PluginInv
    OBVIOUS
  <2>1. PICK r : r = NoRun
    OBVIOUS
  <2>2. r \in RunType
    BY <2>1, RegisteredAssumption DEF NoRun, RunType, Steps
  <2>3. /\ r.broker = "idle" /\ r.launcher = "none" /\ r.guardian = "none" /\ r.leaf = "none"
        /\ r.under = "none" /\ r.live = {} /\ r.dying = {} /\ r.lifetime = FALSE
    BY <2>1 DEF NoRun
  <2>4. LeafRight(r)
    BY <2>3 DEF LeafRight, Populated, InLeaf
  <2>5. GuardRight(TRUE, r)
    BY <2>3 DEF GuardRight
  <2>6. alive = TRUE /\ run = [e \in Executions |-> r]
    BY <2>1 DEF Init
  <2>7. \A e \in Executions : Right(alive, run[e])
    BY <2>2, <2>4, <2>5, <2>6 DEF Right
  <2> QED
    BY <2>2, <2>6, <2>7 DEF Init, PluginInv
<1> QED
  BY <1>1, PluginStep, PTL DEF Spec

\* A success is told only when the plugin's processes are gone and its leaf is
\* removed, whoever died, was killed or came late: the broker comes to "removed"
\* only through an empty leaf, and a removed leaf takes no process.
THEOREM SuccessIsEmpty == Spec => []SuccessMeansEmpty
<1>1. PluginInv => SuccessMeansEmpty
  BY DEF PluginInv, Right, LeafRight, SuccessMeansEmpty
<1> QED
  BY <1>1, AlwaysPlugin, PTL

\* A guardian that ends by itself leaves nothing of the plugin running: it lets go
\* only when the launcher can no longer pass its last look at the guardian.
THEOREM GuardiansLeaveNone == Spec => []GuardianLeavesNone
<1>1. PluginInv => GuardianLeavesNone
  BY DEF PluginInv, Right, LeafRight, GuardRight, GuardianLeavesNone, InLeaf
<1> QED
  BY <1>1, AlwaysPlugin, PTL

\* Of an explicit registration only the pinned content is executed, whatever the
\* file at its path holds.
THEOREM PinnedIsExecuted == Spec => []ExecutesRegistered
<1>1. PluginInv => ExecutesRegistered
  BY DEF PluginInv, Right, LeafRight, ExecutesRegistered
<1> QED
  BY <1>1, AlwaysPlugin, PTL

\* Every leaf is a child of the delegated group: the cached root is the group the
\* broker was in before it moved itself.
THEOREM LeavesAreDelegated == Spec => []LeafUnderDelegatedRoot
<1>1. PluginInv => LeafUnderDelegatedRoot
  BY DEF PluginInv, Right, LeafRight, LeafUnderDelegatedRoot
<1> QED
  BY <1>1, AlwaysPlugin, PTL

\* The program counters and what they say of the leaf.
THEOREM PluginTypeCorrect == Spec => []TypeOK
<1>1. PluginInv => TypeOK
  BY DEF PluginInv, Right, LeafRight, TypeOK, RunType, Procs, InLeaf
<1> QED
  BY <1>1, AlwaysPlugin, PTL
=============================================================================
