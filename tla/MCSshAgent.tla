----------------------------- MODULE MCSshAgent -----------------------------
(***************************************************************************)
(* An instance of SshAgent in three scenes, each as wide as its races      *)
(* need: commands against commands, late answers against a newer request   *)
(* and a newer run, connections against the dialog's queue.                *)
(***************************************************************************)
EXTENDS SshAgent

CONSTANTS c1, c2, n1, n2

VARIABLE scene
Scenes == {"commands race", "answers are late", "dialog fills"}

SceneInit == Init /\ scene \in Scenes
SceneNext == Next /\ UNCHANGED scene
SceneSpec == SceneInit /\ [][SceneNext]_<<vars, scene>> /\ Fairness

\* A bound on each scene.
InScene ==
    CASE scene = "commands race" -> conns[n2] = Closed /\ seq = 0
      [] scene = "answers are late" ->
           calls[c2] = Idle /\ conns[n2] = Closed /\ seq <= 2
      [] scene = "dialog fills" ->
           /\ calls[c2] = Idle /\ Len(runs) <= 1
           /\ \A r \in 1..Len(runs) : runs[r].policy # "session"
=============================================================================
