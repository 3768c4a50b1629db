---------------------------- MODULE MCStatusBoard ----------------------------
(* One viewer at a time, which never meets the other, and either clients or *)
(* a child that change the state, the child over a crash and another start. *)
EXTENDS StatusBoard

Scene(viewer, actor, lives) ==
    [viewers |-> {viewer}, busy |-> {actor}, lives |-> lives]
MCScenes == {Scene("file", "clients", 1), Scene("file", "child", 2),
             Scene("tray", "child", 2)}
=============================================================================
